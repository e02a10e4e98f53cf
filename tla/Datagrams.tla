------------------------------ MODULE Datagrams -----------------------------
(***************************************************************************)
(* A link that may lose, repeat and reorder: PowerDatagramChannel (src/    *)
(* helpers/powerDatagramChannel.js) at one end, PowerSequencer and         *)
(* PowerHeartbeat (powerSequencer.js, powerHeartbeat.js) at the other.     *)
(*                                                                         *)
(* The caller numbers its datagrams in the order of sending.  One that is  *)
(* over the size limit is cut into fragments, which nothing puts together  *)
(* again, so the receiver sees them as a hole in the numbering.            *)
(***************************************************************************)
EXTENDS Integers, Sequences, FiniteSets, SequencesExt

CONSTANTS
  Datagrams,             \* 0..n, in the order they are sent
  MaxUnsent, WindowSize,  \* PowerDatagramChannel, PowerSequencer
  MaxResets              \* resets of the sequencer

ASSUME DatagramConstants ==
  Datagrams \cup {MaxUnsent, MaxResets} \subseteq Nat /\ WindowSize \in Nat \ {0}

VARIABLES
  up, disposed,          \* the transport is open; close() or dispose() of the channel
  dq, fate,              \* _queue; history: what became of each datagram
  flying,                \* datagrams the network may still deliver
  nextSeq, held,         \* _next, the keys of _buffer
  handed, resets,        \* history: what onMessage was given since the last reset
  gaps, waited,          \* onGap calls since the last reset; the numbers they named
  running, timer, fresh, \* _running, _timer is set, a beat is younger than the timeout
  missed, timedOut       \* _missedBeats is not 0, _timedOut

sender == << up, disposed, dq, fate >>
sequencer == << nextSeq, held, handed, resets, gaps, waited >>
heart == << running, timer, fresh, missed, timedOut >>
dgVars == << sender, flying, sequencer, heart >>

DgInit ==
  /\ up \in BOOLEAN /\ disposed = FALSE /\ dq = << >> /\ fate = [d \in Datagrams |-> "new"]
  /\ flying = {} /\ nextSeq = 0 /\ held = {} /\ handed = << >> /\ resets = 0
  /\ gaps = 0 /\ waited = {}
  /\ running = FALSE /\ timer = FALSE /\ fresh = FALSE /\ missed = FALSE /\ timedOut = FALSE

-----------------------------------------------------------------------------
(* PowerDatagramChannel                                                    *)

InOrder(d) == fate[d] = "new" /\ \A e \in Datagrams : e < d => fate[e] # "new"

\* Bug: the datagram that does not fit is kept, and none makes room for it.
EnqueueOverLimit(d) ==
  /\ dq' = IF MaxUnsent = 0 THEN dq ELSE Append(dq, d)
  /\ fate' = [fate EXCEPT ![d] = IF MaxUnsent = 0 THEN "dropped" ELSE "queued"]

\* The transport is closed: the oldest queued datagram makes room.
Enqueue(d) ==
  LET full == Len(dq) >= MaxUnsent
  IN  /\ dq' = IF MaxUnsent = 0 THEN dq ELSE Append(IF full THEN Tail(dq) ELSE dq, d)
      /\ fate' = [e \in Datagrams |->
                    CASE e = d -> (IF MaxUnsent = 0 THEN "dropped" ELSE "queued")
                      [] e # d /\ MaxUnsent > 0 /\ full /\ e = Head(dq) -> "dropped"
                      [] OTHER -> fate[e]]

\* send(), of a datagram that fits or one that is cut, on a transport that may throw.
SendDatagram(d, large, fails) ==
  /\ ~disposed /\ InOrder(d)
  /\ IF ~up THEN Enqueue(d) /\ UNCHANGED flying
     ELSE /\ fate' = [fate EXCEPT ![d] = CASE fails -> "failed" [] ~fails /\ large -> "fragments" [] OTHER -> "sent"]
          /\ flying' = IF fails \/ large THEN flying ELSE flying \cup {d}
          /\ UNCHANGED dq
  /\ UNCHANGED << up, disposed, sequencer, heart >>

\* What is left of s in its order.
Only(s, T) ==
  LET only[i \in 0..Len(s)] ==
        IF i = 0 THEN << >> ELSE IF s[i] \in T THEN Append(only[i - 1], s[i]) ELSE only[i - 1]
  IN  only[Len(s)]

\* flush(): what the transport refuses stays queued, what is over the limit is given up.
FlushQueued(large, refused) ==
  /\ flying' = flying \cup (ToSet(dq) \ (large \cup refused))
  /\ dq' = Only(dq, refused)
  /\ fate' = [d \in Datagrams |-> CASE d \in large -> "oversize"
                                    [] d \in ToSet(dq) \ (large \cup refused) -> "sent"
                                    [] OTHER -> fate[d]]

Refusable(large, refused) ==
  large \subseteq ToSet(dq) /\ refused \subseteq ToSet(dq) \ large /\ (~up => refused = ToSet(dq) \ large)

Flush(large, refused) ==
  /\ ~disposed /\ dq # << >> /\ Refusable(large, refused) /\ FlushQueued(large, refused)
  /\ UNCHANGED << up, disposed, sequencer, heart >>

\* close() and dispose(): a last flush, and what it leaves is not sent any more.
CloseChannel(large, refused) ==
  /\ ~disposed /\ disposed' = TRUE
  /\ Refusable(large, refused) /\ FlushQueued(large, refused)
  /\ UNCHANGED << up, sequencer, heart >>

TransportChanges == up' = ~up /\ UNCHANGED << disposed, dq, fate, flying, sequencer, heart >>

-----------------------------------------------------------------------------
(* PowerSequencer, over whatever the network delivers                       *)

\* The numbers from the next expected one on that are held without a hole.
Released(h) ==
  LET k == Max({j \in 0..WindowSize : nextSeq..(nextSeq + j - 1) \subseteq h})
  IN  [i \in 1..k |-> nextSeq + i - 1]

Waiting(h) == h # {} /\ nextSeq \notin h

\* Bug: the window is counted from the last number that was buffered.
AcceptsLate(n) == n >= nextSeq /\ n \notin held

\* push() takes a number that is inside the window and not there yet.
Accepts(n) == n >= nextSeq /\ n < nextSeq + WindowSize /\ n \notin held

Push(n) ==
  IF ~Accepts(n) THEN UNCHANGED sequencer
  ELSE LET h == held \cup {n}
           out == Released(h)
           opens == n # nextSeq /\ ~Waiting(held)
       IN  /\ handed' = handed \o out /\ nextSeq' = nextSeq + Len(out) /\ held' = h \ ToSet(out)
           /\ gaps' = IF opens THEN gaps + 1 ELSE gaps
           /\ waited' = IF opens THEN waited \cup {nextSeq} ELSE waited
           /\ UNCHANGED resets

\* The network hands over a datagram, and may do so again.
DatagramArrives(n, again) ==
  /\ n \in flying /\ flying' = IF again THEN flying ELSE flying \ {n}
  /\ Push(n)
  /\ UNCHANGED << sender, running, timer >>
  /\ fresh' = TRUE /\ missed' = FALSE /\ timedOut' = FALSE

Loses(n) == n \in flying /\ flying' = flying \ {n} /\ UNCHANGED << sender, sequencer, heart >>

ResetSequencer ==
  /\ resets < MaxResets /\ resets' = resets + 1
  /\ nextSeq' = 0 /\ held' = {} /\ handed' = << >> /\ gaps' = 0 /\ waited' = {}
  /\ UNCHANGED << sender, flying, heart >>

-----------------------------------------------------------------------------
(* PowerHeartbeat, beaten by every datagram that arrives                     *)

StartHeart ==
  /\ ~running /\ running' = TRUE /\ timedOut' = FALSE /\ timer' = TRUE
  /\ UNCHANGED << sender, flying, sequencer, fresh, missed >>

StopHeart ==
  /\ running' = FALSE /\ timer' = FALSE
  /\ UNCHANGED << sender, flying, sequencer, fresh, missed, timedOut >>

BeatAges == fresh /\ fresh' = FALSE /\ UNCHANGED << sender, flying, sequencer, running, timer, missed, timedOut >>

\* Bug: a check whose onTimeout stopped the heart arms the next one all the same.
ReschedulesAlways(stays) == timer' = TRUE

\* _schedule() at the end of a check.
Reschedules(stays) == timer' = stays

\* _check(), and what onTimeout may do: nothing, or stop().
CheckHeart(stops) ==
  /\ timer /\ (stops => ~fresh)
  /\ missed' = (missed \/ ~fresh) /\ timedOut' = (timedOut \/ ~fresh)
  /\ running' = ~stops /\ Reschedules(~stops)
  /\ UNCHANGED << sender, flying, sequencer, fresh >>

DgNext ==
  \/ TransportChanges \/ ResetSequencer \/ StartHeart \/ StopHeart \/ BeatAges
  \/ \E d \in Datagrams :
       \/ \E large, fails \in BOOLEAN : SendDatagram(d, large, fails)
       \/ \E again \in BOOLEAN : DatagramArrives(d, again)
       \/ Loses(d)
  \/ \E large, refused \in SUBSET ToSet(dq) : Flush(large, refused) \/ CloseChannel(large, refused)
  \/ \E stops \in BOOLEAN : CheckHeart(stops)

-----------------------------------------------------------------------------
\* Whatever the network does, the messages come out in order, each once, and what is held
\* back is inside the window and behind a hole, and the hole was reported when it opened.
InOrderOnce ==
  /\ handed = [i \in 1..nextSeq |-> i - 1]
  /\ \A n \in held : nextSeq < n /\ n < nextSeq + WindowSize
  /\ held # {} => gaps > 0 /\ \E n \in waited : n <= nextSeq

\* A datagram is queued, or was given to the transport, or its loss was decided: one of them.
DatagramsAreAccounted ==
  /\ Len(dq) <= MaxUnsent /\ IsInjective(dq)
  /\ \A d \in Datagrams : (fate[d] = "queued") <=> (d \in ToSet(dq))
  /\ flying \subseteq {d \in Datagrams : fate[d] = "sent"}

\* A heart that runs has its next check armed and one that was stopped has none; it is only
\* timed out while a beat is missing.
HeartIsWatched == (running <=> timer) /\ (timedOut => missed /\ ~fresh)

DatagramsAreSound == InOrderOnce /\ DatagramsAreAccounted /\ HeartIsWatched
=============================================================================
