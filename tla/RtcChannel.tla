----------------------------- MODULE RtcChannel -----------------------------
(***************************************************************************)
(* PowerRTCChannel (src/helpers/powerRTCChannel.js): a data channel whose  *)
(* frames wait in a queue of the wrapper's while the channel's own buffer  *)
(* is over the high-water mark.                                            *)
(*                                                                         *)
(* The channel itself is external: its buffer is drained by the network,   *)
(* and when it falls to the threshold an event is queued, which is heard   *)
(* some time later, possibly after the buffer has grown again.             *)
(***************************************************************************)
EXTENDS Integers, Sequences, FiniteSets, SequencesExt

CONSTANTS
  RtcFrames, Size,          \* 1..n in the order they are sent, and their sizes
  HighWater, LowWater,      \* highWaterMarkBytes, lowWaterMarkBytes
  QueueBudget               \* queueBudget, in bytes

ASSUME RtcConstants ==
  /\ RtcFrames \subseteq Nat \ {0} /\ Size \in [RtcFrames -> Nat \ {0}]
  /\ {HighWater, LowWater, QueueBudget} \subseteq Nat /\ LowWater <= HighWater

VARIABLES
  rtcState,             \* _state
  channel,              \* external: whether the data channel is open
  inChannel,            \* external: bufferedAmount
  lowEvents,            \* external: bufferedamountlow events not heard yet
  backpressured,        \* _backpressured
  rtcQueue, queuedBytes,\* _queue, _queuedBytes
  outcome,              \* history: what became of each frame
  rtcWire,              \* history: the frames the channel took, in order
  rtcCloses             \* history: calls of onClose

rtcVars == << rtcState, channel, inChannel, lowEvents, backpressured, rtcQueue, queuedBytes,
              outcome, rtcWire, rtcCloses >>

RtcInit ==
  /\ rtcState \in {"connecting", "open"} /\ channel = rtcState
  /\ inChannel = 0 /\ lowEvents = 0 /\ backpressured = FALSE
  /\ rtcQueue = << >> /\ queuedBytes = 0
  /\ outcome = [f \in RtcFrames |-> "new"] /\ rtcWire = << >> /\ rtcCloses = 0

RtcIsOpen == rtcState = "open"

\* Bug: the pressure is on from the low-water mark upwards.
PressedFromLow(total) == HighWater > 0 /\ total >= LowWater

\* _refreshBackpressure()
Pressed(total) == HighWater > 0 /\ total > HighWater

\* A channel that no longer is open throws; an open one may, for reasons of its own.
MayThrow(throws) == channel # "open" => throws

SendRtc(f, throws) ==
  /\ outcome[f] = "new" /\ \A g \in RtcFrames : g < f => outcome[g] # "new"
  /\ MayThrow(throws)
  /\ CASE ~RtcIsOpen ->
            /\ outcome' = [outcome EXCEPT ![f] = "refused"]
            /\ UNCHANGED << inChannel, backpressured, rtcQueue, queuedBytes, rtcWire >>
       [] RtcIsOpen /\ backpressured /\ queuedBytes + Size[f] > QueueBudget ->
            /\ outcome' = [outcome EXCEPT ![f] = "dropped"]
            /\ UNCHANGED << inChannel, backpressured, rtcQueue, queuedBytes, rtcWire >>
       [] RtcIsOpen /\ backpressured /\ queuedBytes + Size[f] <= QueueBudget ->
            /\ outcome' = [outcome EXCEPT ![f] = "queued"]
            /\ rtcQueue' = Append(rtcQueue, f) /\ queuedBytes' = queuedBytes + Size[f]
            /\ UNCHANGED << inChannel, backpressured, rtcWire >>
       [] RtcIsOpen /\ ~backpressured /\ throws ->
            /\ outcome' = [outcome EXCEPT ![f] = "failed"]
            /\ UNCHANGED << inChannel, backpressured, rtcQueue, queuedBytes, rtcWire >>
       [] OTHER ->
            /\ outcome' = [outcome EXCEPT ![f] = "sent"] /\ rtcWire' = Append(rtcWire, f)
            /\ inChannel' = inChannel + Size[f]
            /\ backpressured' = Pressed(inChannel + Size[f])
            /\ UNCHANGED << rtcQueue, queuedBytes >>
  /\ UNCHANGED << rtcState, channel, lowEvents, rtcCloses >>

\* What the frames of s weigh together.
Bytes(s) ==
  LET sum[i \in 0..Len(s)] == IF i = 0 THEN 0 ELSE sum[i - 1] + Size[s[i]]
  IN  sum[Len(s)]

\* The frames of s that the channel took, in their order.
Accepted(s, lost) ==
  LET took[i \in 0..Len(s)] ==
        IF i = 0 THEN << >> ELSE IF s[i] \in lost THEN took[i - 1] ELSE Append(took[i - 1], s[i])
  IN  took[Len(s)]

\* How many queued frames the drain loop takes: up to the one that brings the pressure back.
Drains(lost) ==
  LET total(i) == inChannel + Bytes(Accepted(SubSeq(rtcQueue, 1, i), lost))
      over == {i \in 1..Len(rtcQueue) : rtcQueue[i] \notin lost /\ Pressed(total(i))}
  IN  IF over = {} THEN Len(rtcQueue) ELSE Min(over)

\* bufferedamountlow is heard: the pressure is off, and _drainQueue() runs if still open.
\* The frames of lost are those the channel throws at.
LowEvent(lost) ==
  /\ lowEvents > 0 /\ lowEvents' = lowEvents - 1
  /\ lost \subseteq ToSet(rtcQueue) /\ (channel # "open" => lost = ToSet(rtcQueue))
  /\ LET n == IF RtcIsOpen THEN Drains(lost) ELSE 0
         out == SubSeq(rtcQueue, 1, n)
         took == Accepted(out, lost)
     IN  /\ lost \subseteq ToSet(out) \cup (IF RtcIsOpen THEN {} ELSE ToSet(rtcQueue))
         /\ rtcQueue' = SubSeq(rtcQueue, n + 1, Len(rtcQueue))
         /\ queuedBytes' = queuedBytes - Bytes(out)
         /\ inChannel' = inChannel + Bytes(took)
         /\ rtcWire' = rtcWire \o took
         /\ outcome' = [f \in RtcFrames |-> IF f \in ToSet(out) THEN (IF f \in lost THEN "failed" ELSE "sent")
                                            ELSE outcome[f]]
         /\ backpressured' = (took # << >> /\ Pressed(inChannel'))
  /\ UNCHANGED << rtcState, channel, rtcCloses >>

\* The network takes some of the buffer; falling to the threshold queues the event.
NetworkDrains ==
  \E n \in 1..inChannel :
    /\ channel = "open" /\ inChannel' = inChannel - n
    /\ lowEvents' = IF inChannel > LowWater /\ inChannel - n <= LowWater THEN lowEvents + 1 ELSE lowEvents
    /\ UNCHANGED << rtcState, channel, backpressured, rtcQueue, queuedBytes, outcome, rtcWire, rtcCloses >>

RtcOpens ==
  /\ channel = "connecting" /\ channel' = "open"
  /\ rtcState' = IF rtcState = "closed" THEN rtcState ELSE "open"
  /\ UNCHANGED << inChannel, lowEvents, backpressured, rtcQueue, queuedBytes, outcome, rtcWire, rtcCloses >>

\* The peer closes: "closing" is heard first, then "close".
RtcClosing ==
  /\ channel = "open" /\ channel' = "closing"
  /\ rtcState' = IF RtcIsOpen THEN "closing" ELSE rtcState
  /\ UNCHANGED << inChannel, lowEvents, backpressured, rtcQueue, queuedBytes, outcome, rtcWire, rtcCloses >>

\* _handleClose(): once, whoever closed.
ClosedOnce == rtcState' = "closed" /\ backpressured' = FALSE /\ rtcCloses' = rtcCloses + 1

RtcClosed ==
  /\ channel \in {"connecting", "closing"} /\ channel' = "closed"
  /\ IF rtcState = "closed" THEN UNCHANGED << rtcState, backpressured, rtcCloses >> ELSE ClosedOnce
  /\ UNCHANGED << inChannel, lowEvents, rtcQueue, queuedBytes, outcome, rtcWire >>

CloseRtc ==
  /\ rtcState # "closed" /\ ClosedOnce
  /\ channel' = IF channel \in {"connecting", "open"} THEN "closing" ELSE channel
  /\ UNCHANGED << inChannel, lowEvents, rtcQueue, queuedBytes, outcome, rtcWire >>

\* dispose(): a close whose queue is thrown away and whose events are not heard any more.
DisposeRtc ==
  /\ \/ rtcState # "closed" /\ ClosedOnce
     \/ rtcState = "closed" /\ rtcQueue # << >> /\ UNCHANGED << rtcState, backpressured, rtcCloses >>
  /\ channel' = IF channel \in {"connecting", "open"} THEN "closing" ELSE channel
  /\ rtcQueue' = << >> /\ queuedBytes' = 0 /\ lowEvents' = 0
  /\ outcome' = [f \in RtcFrames |-> IF f \in ToSet(rtcQueue) THEN "discarded" ELSE outcome[f]]
  /\ UNCHANGED << inChannel, rtcWire >>

RtcNext ==
  \/ \E f \in RtcFrames, throws \in BOOLEAN : SendRtc(f, throws)
  \/ \E lost \in SUBSET ToSet(rtcQueue) : LowEvent(lost)
  \/ NetworkDrains \/ RtcOpens \/ RtcClosing \/ RtcClosed \/ CloseRtc \/ DisposeRtc

-----------------------------------------------------------------------------
\* Frames leave in the order they were sent, queued or not, each at most once, and the queue
\* is exactly the frames that wait, within its budget.
RtcKeepsOrder ==
  /\ LET all == rtcWire \o rtcQueue IN \A i, j \in DOMAIN all : i < j => all[i] < all[j]
  /\ queuedBytes = Bytes(rtcQueue)
  /\ queuedBytes <= QueueBudget
  /\ \A f \in RtcFrames : outcome[f] = "queued" <=> f \in ToSet(rtcQueue)

\* While the channel is open, frames only wait under pressure, and the pressure ends: the
\* buffer is over the threshold, or the event of its fall is still to be heard.
RtcUnblocks ==
  RtcIsOpen => /\ rtcQueue # << >> => backpressured
               /\ backpressured => inChannel > LowWater \/ lowEvents > 0

\* onClose is called at most once, and a closed channel hands over nothing more.
RtcIsSound == RtcKeepsOrder /\ RtcUnblocks /\ rtcCloses <= 1
=============================================================================
