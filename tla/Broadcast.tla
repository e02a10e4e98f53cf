----------------------------- MODULE Broadcast -----------------------------
(* createBroadcastBus (src/src/helpers/powerBroadcastBus.js): frames over a *)
(* channel that everybody hears, acknowledged by the one they are for.     *)
(* Acknowledgements are lost, late, repeated, or of somebody else.         *)
EXTENDS Integers, FiniteSets

CONSTANTS
  Receivers,
  MaxFrames              \* bound: frames sent

ASSUME BroadcastConstants == IsFiniteSet(Receivers) /\ MaxFrames \in Nat

VARIABLES
  over,                  \* _closed
  sentTo,                \* the receiver of each seq so far
  unacked,               \* the keys of pending, which are the timers that run
  counts,                \* receiverPendingCount, 0 where it has no entry
  slow,                  \* slowConsumers
  told,                  \* history: the receivers onSlowConsumer was last called for
  silent                 \* history: a timeout and no acknowledgement since

bcVars == << over, sentTo, unacked, counts, slow, told, silent >>

BcInit ==
  /\ over = FALSE /\ sentTo = << >> /\ unacked = {}
  /\ counts = [r \in Receivers |-> 0]
  /\ slow = {} /\ told = {} /\ silent = {}

OneLess(r) == [counts EXCEPT ![r] = IF @ <= 1 THEN 0 ELSE @ - 1]

Broadcast(r) ==
  /\ ~over /\ Cardinality(DOMAIN sentTo) < MaxFrames
  /\ LET seq == Cardinality(DOMAIN sentTo) + 1
     IN  /\ sentTo' = [s \in 1..seq |-> IF s = seq THEN r ELSE sentTo[s]]
         /\ unacked' = unacked \cup {seq}
  /\ counts' = [counts EXCEPT ![r] = @ + 1]
  /\ UNCHANGED << over, slow, told, silent >>

\* What a fault would look like: anybody's acknowledgement settles the frame.
SettlesForAll(seq, r) == seq \in unacked

\* An acknowledgement settles the frame if it is its receiver's; it also shows that whoever
\* sent it is alive: that receiver, or the receiver of the frame it settled.
Settles(seq, r) == seq \in unacked /\ sentTo[seq] = r

Acknowledged(seq, r) ==
  /\ ~over /\ seq \in DOMAIN sentTo
  /\ IF Settles(seq, r)
     THEN /\ unacked' = unacked \ {seq} /\ counts' = OneLess(sentTo[seq])
          /\ slow' = slow \ {sentTo[seq]}
     ELSE /\ slow' = slow \ {r}
          /\ UNCHANGED << unacked, counts >>
  /\ silent' = silent \ {r} /\ told' = told \ {r}
  /\ UNCHANGED << over, sentTo >>

AckTimesOut(seq) ==
  /\ seq \in unacked
  /\ LET r == sentTo[seq]
     IN  /\ unacked' = unacked \ {seq} /\ counts' = OneLess(r)
         /\ slow' = slow \cup {r} /\ silent' = silent \cup {r}
         /\ told' = IF r \in slow THEN told ELSE told \cup {r}
  /\ UNCHANGED << over, sentTo >>

\* What a fault would look like: the timers stay.
ForgottenNever(r) == {}

\* close() of a receiver forgets its frames with their timers.
Forgotten(r) == {seq \in unacked : sentTo[seq] = r}

CloseReceiver(r) ==
  /\ ~over
  /\ unacked' = unacked \ Forgotten(r)
  /\ counts' = [counts EXCEPT ![r] = 0]
  /\ slow' = slow \ {r} /\ silent' = silent \ {r} /\ told' = told \ {r}
  /\ UNCHANGED << over, sentTo >>

DisposeBroadcast ==
  /\ ~over /\ over' = TRUE
  /\ unacked' = {} /\ counts' = [r \in Receivers |-> 0] /\ slow' = {} /\ told' = {} /\ silent' = {}
  /\ UNCHANGED sentTo

BcNext ==
  \/ \E r \in Receivers : Broadcast(r) \/ CloseReceiver(r)
  \/ \E seq \in 1..MaxFrames : AckTimesOut(seq) \/ \E r \in Receivers : Acknowledged(seq, r)
  \/ DisposeBroadcast

-----------------------------------------------------------------------------
\* The count of each receiver is its frames that wait for an answer, one that is slow has
\* missed an answer and given none since, and that was reported; whatever was answered late,
\* twice or for another, and whoever left and came back.
BroadcastIsSound ==
  /\ \A r \in Receivers : counts[r] = Cardinality({seq \in unacked : sentTo[seq] = r})
  /\ slow = silent /\ told = slow
=============================================================================
