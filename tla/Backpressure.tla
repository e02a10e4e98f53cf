---------------------------- MODULE Backpressure ----------------------------
(***************************************************************************)
(* PowerBackpressure (src/helpers/powerBackpressure.js): a permit gate     *)
(* that mints permits on a timer while callers wait, by an amount that an  *)
(* AIMD controller may tune.  Permits weigh one unit; beta is one half.    *)
(***************************************************************************)
EXTENDS GateOps

CONSTANTS
  LowWaterMark, HighWaterMark,
  BaseRefill,        \* refillAmount
  WindowMin, WindowMax, Increase   \* adaptive.min, adaptive.max, adaptive.additiveIncrease

ASSUME BackpressureConstants ==
  /\ {LowWaterMark, HighWaterMark, BaseRefill, WindowMin, WindowMax, Increase} \subseteq Nat \ {0}
  /\ BaseRefill <= Capacity

VARIABLES
  gate,        \* the permit gate
  armed,       \* _refillTimer is set
  heartbeat,   \* _adaptiveHeartbeat
  window,      \* _refillAmount
  adaptive     \* _adaptive.enabled

bvars == << gate, armed, heartbeat, window, adaptive >>

BInit ==
  /\ gate = NewGate(Capacity)
  /\ armed = FALSE /\ heartbeat = FALSE /\ window = BaseRefill
  /\ adaptive \in BOOLEAN

HasWaiters(g) == g.waiters # << >>

\* _scheduleRefill(), asked for when wanted holds, with the gate as it is then.
ScheduleRefill(g, wanted, beating, isArmed) ==
  LET arms == wanted /\ ~isArmed /\ (HasWaiters(g) \/ beating)
  IN  /\ armed' = (isArmed \/ arms)
      /\ heartbeat' = (beating \/ (arms /\ adaptive))

InTurn(c) == \A d \in Calls : gate.status[d] = "new" => c <= d

Acquire(c, signal) ==
  LET g == IF Pending(gate) >= HighWaterMark THEN Refused(gate, c)
           ELSE AfterAcquire(gate, c, 1, signal)
  IN  /\ gate.status[c] = "new" /\ InTurn(c)
      /\ gate' = g
      /\ ScheduleRefill(g, Pending(gate) < HighWaterMark /\ HasWaiters(g), heartbeat, armed)
      /\ UNCHANGED << window, adaptive >>

TryAcquire(c) ==
  /\ gate.status[c] = "new" /\ InTurn(c)
  /\ gate' = AfterTryAcquire(gate, c, 1)
  /\ UNCHANGED << armed, heartbeat, window, adaptive >>

\* The release callback of a holder.
ReleaseHeld(c) ==
  \E n \in 0..Len(gate.waiters) :
    /\ gate.status[c] = "holding" /\ ServesFirst(gate, n, gate.weight[c])
    /\ LET g == AfterRelease(gate, c, n)
       IN  gate' = g /\ ScheduleRefill(g, g.available < LowWaterMark \/ heartbeat, heartbeat, armed)
    /\ UNCHANGED << window, adaptive >>

AbortWaiter(c) ==
  /\ gate.status[c] = "waiting" /\ gate.onAbort[c]
  /\ gate' = AfterAbort(gate, c)
  /\ UNCHANGED << armed, heartbeat, window, adaptive >>

\* _aimdStep(): every permit still out is congestion.
Stepped ==
  CASE ~adaptive                         -> window
    [] adaptive /\ gate.held >= Capacity -> Greater(WindowMin, window \div 2)
    [] OTHER                             -> Lesser(WindowMax, window + Increase)

Missing == Capacity - gate.available
RefillAmount == Lesser(Lesser(Capacity, Stepped + ((Pending(gate) + 9) \div 10)), Missing)

\* Nothing waits and nothing is held: the heartbeat stops.
RefillIdle ==
  /\ ~HasWaiters(gate) /\ gate.held = 0
  /\ heartbeat' = FALSE /\ armed' = FALSE
  /\ UNCHANGED << gate, window, adaptive >>

\* Bug: the queue has been drained, and the tick is not asked for again.
RefillUnwaitedOnce ==
  /\ ~HasWaiters(gate) /\ gate.held > 0
  /\ window' = Stepped
  /\ armed' = FALSE
  /\ UNCHANGED << gate, heartbeat, adaptive >>

RefillUnwaited ==
  /\ ~HasWaiters(gate) /\ gate.held > 0
  /\ window' = Stepped
  /\ ScheduleRefill(gate, TRUE, heartbeat, FALSE)
  /\ UNCHANGED << gate, adaptive >>

RefillFull ==
  /\ HasWaiters(gate) /\ Missing <= 0
  /\ window' = Stepped
  /\ ScheduleRefill(gate, adaptive, heartbeat, FALSE)
  /\ UNCHANGED << gate, adaptive >>

Mint ==
  /\ HasWaiters(gate) /\ Missing > 0
  /\ window' = Stepped
  /\ LET g == [gate EXCEPT !.available = @ + RefillAmount]
     IN  \E n \in 0..Len(g.waiters) :
           /\ ServesFirst(g, n, Lesser(RefillAmount, g.available))
           /\ LET h == AfterServe(g, n, TRUE)
              IN  gate' = h /\ ScheduleRefill(h, h.available < LowWaterMark \/ heartbeat, heartbeat, FALSE)
  /\ UNCHANGED adaptive

PerformRefill == armed /\ (RefillIdle \/ RefillUnwaited \/ RefillFull \/ Mint)

ResetGate ==
  /\ gate' = AfterReset(gate, Capacity)
  /\ armed' = FALSE /\ heartbeat' = FALSE /\ window' = BaseRefill
  /\ UNCHANGED adaptive

BNext ==
  \/ \E c \in Calls : \/ \E signal \in Signal : Acquire(c, signal)
                      \/ TryAcquire(c) \/ ReleaseHeld(c) \/ AbortWaiter(c)
  \/ PerformRefill \/ ResetGate

-----------------------------------------------------------------------------
\* Nobody waits without a refill to come, and a controller that has begun to probe is
\* consulted until the gate is quiet.
RefillIsComing == LiveWaiters(gate) # {} \/ heartbeat => armed

\* Refills put more permits out than the capacity, but none is ever lost: what is
\* available and what is held still make up the pool, and every held one has its holder.
PermitsAreKept ==
  /\ gate.available + gate.held >= Capacity
  /\ gate.available \in 0..Capacity
  /\ gate.held = UnitCount(gate, Holders(gate))
=============================================================================
