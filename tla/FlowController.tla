--------------------------- MODULE FlowController ---------------------------
(* PowerFlowController (src/src/helpers/powerFlowController.js) with its    *)
(* PowerServo (powerServo.js): a bounded queue, an admission rate, and the  *)
(* loop from the latency measured since the last observation to the rate.  *)
(* Latencies, gains and rates are small integers; the servo has no          *)
(* derivative and no feedforward part, as the controller configures it.    *)
(* Whether the limiter admits at a rate is the business of RateLimits.      *)
EXTENDS Integers, Sequences, FiniteSets

CONSTANTS
  Latencies, Elapsed,            \* what is measured; the dt of an observation
  TargetLatency, Gain,           \* targetP99, kp; ki is 1
  MinRate, MaxRate, InitialRate,
  FlowCapacity,                  \* queueCapacity
  MaxSubmitted                   \* bound: items submitted between two resets

ASSUME FlowConstants ==
  /\ Latencies \cup Elapsed \cup {TargetLatency, FlowCapacity, MaxSubmitted} \subseteq Nat
  /\ {Gain, MinRate} \subseteq Nat \ {0}
  /\ MinRate <= InitialRate /\ InitialRate <= MaxRate

VARIABLES
  rateNow, gcraRate,       \* _rate, and the rate of the limiter
  integral,                \* of the servo
  lastError,               \* << the error of its last step >>, or << >>
  measuredMs,              \* the samples of the window
  depth, submitted, admitted, droppedItems,
  retired,                 \* _disposed
  wound                    \* history: the servo stayed at a bound it should have left

loopVars == << rateNow, gcraRate, integral, lastError, measuredMs,
               depth, submitted, admitted, droppedItems, retired, wound >>

LoopInit ==
  /\ rateNow = InitialRate /\ gcraRate = InitialRate
  /\ integral = 0 /\ lastError = << >> /\ measuredMs = {}
  /\ depth = 0 /\ submitted = 0 /\ admitted = 0 /\ droppedItems = 0
  /\ retired = FALSE /\ wound = FALSE

Submit ==
  /\ ~retired /\ submitted + droppedItems < MaxSubmitted
  /\ IF depth >= FlowCapacity
     THEN droppedItems' = droppedItems + 1 /\ UNCHANGED << depth, submitted >>
     ELSE depth' = depth + 1 /\ submitted' = submitted + 1 /\ UNCHANGED droppedItems
  /\ UNCHANGED << rateNow, gcraRate, integral, lastError, measuredMs, admitted, retired, wound >>

AdmitItem ==
  /\ ~retired /\ depth > 0
  /\ depth' = depth - 1 /\ admitted' = admitted + 1
  /\ UNCHANGED << rateNow, gcraRate, integral, lastError, measuredMs, submitted, droppedItems, retired, wound >>

RecordLatency(ms) ==
  /\ ~retired
  /\ measuredMs' = measuredMs \cup {ms}
  /\ UNCHANGED << rateNow, gcraRate, integral, lastError, depth, submitted, admitted, droppedItems, retired, wound >>

Clamped(x, lo, hi) == IF x < lo THEN lo ELSE IF x > hi THEN hi ELSE x

\* What a fault would look like: the integral goes on while the output is at its bound.
IntegralUnclamped(error, dt) == integral + error * dt

\* The integral may only push the output inside its bounds, next to the error of this step.
\* It begins at zero whatever the rate is, so the first sample takes the rate off InitialRate.
Integral(error, dt) ==
  Clamped(integral + error * dt, MinRate - Gain * error, MaxRate - Gain * error)

\* observe(): nothing moves without a sample.  The high quantile of a short window is its
\* slowest sample; the window begins again.
ObserveLatency(dt) ==
  /\ ~retired /\ measuredMs # {}
  /\ LET measured == CHOOSE m \in measuredMs : \A n \in measuredMs : n <= m
         error == TargetLatency - measured
         next == Clamped(Gain * error + integral, MinRate, MaxRate)
     IN  /\ rateNow' = next
         /\ gcraRate' = IF next # rateNow THEN next ELSE gcraRate
         /\ integral' = Integral(error, dt)
         /\ lastError' = << error >>
         /\ wound' = (wound \/ \E last \in {lastError[i] : i \in DOMAIN lastError} :
                        (error < last /\ next = MaxRate) \/ (error > last /\ next = MinRate))
  /\ measuredMs' = {}
  /\ UNCHANGED << depth, submitted, admitted, droppedItems, retired >>

\* reset(), clear() and dispose(): the limiter is told when the rate moves.
StartsAgain(ends) ==
  /\ ends => ~retired
  /\ rateNow' = InitialRate
  /\ gcraRate' = IF rateNow # InitialRate THEN InitialRate ELSE gcraRate
  /\ integral' = 0 /\ lastError' = << >> /\ measuredMs' = {}
  /\ depth' = 0 /\ submitted' = 0 /\ admitted' = 0 /\ droppedItems' = 0
  /\ retired' = (retired \/ ends)
  /\ UNCHANGED wound

LoopNext ==
  \/ Submit \/ AdmitItem
  \/ \E ms \in Latencies : RecordLatency(ms)
  \/ \E dt \in Elapsed : ObserveLatency(dt)
  \/ \E ends \in BOOLEAN : StartsAgain(ends)

-----------------------------------------------------------------------------
\* However long the loop was at a bound, the first sample that is better, or worse, than the
\* one before takes the rate off it; the limiter has the rate the loop believes in; and no
\* item is counted twice.
LoopIsResponsive ==
  /\ ~wound
  /\ gcraRate = rateNow /\ MinRate <= rateNow /\ rateNow <= MaxRate
  /\ submitted = admitted + depth /\ depth <= FlowCapacity
=============================================================================
