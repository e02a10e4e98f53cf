----------------------------- MODULE RealtimeHub ----------------------------
(***************************************************************************)
(* PowerRealtimeHub (src/helpers/powerRealtimeHub.js): messages published  *)
(* on topics, one bounded queue and one policy per subscriber, and one     *)
(* encoded frame shared by the subscribers that are sent the same batch.   *)
(*                                                                         *)
(* Publications are numbered, and Object gives the value each one publishes*)
(* (values are compared by identity).  jobs is the microtask queue as far  *)
(* as the hub uses it; publish() and flush() come between any two jobs,    *)
(* the other calls from tasks of their own.  Subscribers are walked in any *)
(* order, which covers every choice of their priorities.                   *)
(***************************************************************************)
EXTENDS Integers, Sequences, FiniteSets, SequencesExt

CONSTANTS
  Members, Topics, Pubs,     \* subscribers; topics; 1..n
  Object,                    \* the value of each publication
  MaxQueue, MaxBatch, Policy, \* options of each subscriber
  RetainLimit

ASSUME HubConstants ==
  /\ IsFiniteSet(Members) /\ Pubs \subseteq Nat \ {0} /\ DOMAIN Object = Pubs
  /\ MaxQueue \in [Members -> Nat] /\ MaxBatch \in [Members -> Nat \ {0}]
  /\ Policy \in [Members -> {"drop-oldest", "drop-newest", "disconnect"}]
  /\ RetainLimit \in Nat \ {0} /\ Topics \cap {"none", "closed"} = {}

VARIABLES
  hubClosed, delayed,    \* _closed; batchDelayMs is positive
  topic,                 \* the topic of each subscriber, "none" before, "closed" after
  pending, outstanding,  \* each subscriber's queue and inFlight
  taken,                 \* the batches whose chain has not ended, per subscriber
  retained, published,   \* _retained; how many publications there were
  scheduled, hubTimer,   \* _flushScheduled, _flushTimer is set
  jobs,                  \* microtasks: a drain, or a step of a subscriber's chain
  draining,              \* subscribers a flush() is still at work for
  memo,                  \* _frameMemo with the batch it was encoded from, or << >>
  delivered,             \* history: publications handed to send() per subscriber, in order
  misframed,             \* history: a frame that was not that of its batch was handed over
  gapped, stalled        \* history: a queue has gaps; subscribers whose send() threw

hubVars == << hubClosed, delayed, topic, pending, outstanding, taken, retained, published,
              scheduled, hubTimer, jobs, draining, memo, delivered, misframed, gapped, stalled >>

HubInit ==
  /\ hubClosed = FALSE /\ delayed \in BOOLEAN
  /\ topic = [m \in Members |-> "none"]
  /\ pending = [m \in Members |-> << >>] /\ outstanding = [m \in Members |-> 0]
  /\ taken = [m \in Members |-> << >>]
  /\ retained = [t \in Topics |-> << >>] /\ published = 0
  /\ scheduled = FALSE /\ hubTimer = FALSE /\ jobs = << >> /\ draining = {}
  /\ memo = << >> /\ delivered = [m \in Members |-> << >>]
  /\ misframed = FALSE /\ gapped = FALSE /\ stalled = {}

Live(m) == topic[m] \in Topics
Audience(t) == {m \in Members : topic[m] = t}
Job(kind, m) == [kind |-> kind, member |-> m]

-----------------------------------------------------------------------------
(* Queues and their policies                                               *)

\* _enqueue(): there is room, or the policy makes some.
Admits(m, q) == Len(q) < MaxQueue[m] \/ (Policy[m] = "drop-oldest" /\ MaxQueue[m] > 0)

\* Bug: the oldest message is counted as dropped and kept.
EnqueuedOverLimit(m, q, n) == IF ~Admits(m, q) THEN q ELSE Append(q, n)

Enqueued(m, q, n) ==
  IF ~Admits(m, q) THEN q ELSE Append(IF Len(q) >= MaxQueue[m] THEN Tail(q) ELSE q, n)

\* The subscribers that fall behind and are disconnected for it.
Disconnects(m, q) == Policy[m] = "disconnect" /\ Len(q) >= MaxQueue[m]

\* _retain(): the last messages of the log.
Logged(log, n) == Append(IF Len(log) >= RetainLimit THEN Tail(log) ELSE log, n)

\* _scheduleFlush(): one drain at a time, in a microtask or by the timer.
ScheduleFlush ==
  IF scheduled THEN UNCHANGED << scheduled, hubTimer, jobs >>
  ELSE /\ scheduled' = TRUE
       /\ hubTimer' = delayed
       /\ jobs' = IF delayed THEN jobs ELSE Append(jobs, Job("drain", 0))

\* What the log of the topics without subscribers becomes when gone leave.
LogAfter(gone) ==
  [t \in Topics |-> IF Audience(t) \cap gone # {} /\ Audience(t) \subseteq gone THEN << >> ELSE retained[t]]

\* publish(), on a hub without a rate limit.
Publish(t, retains) ==
  LET n == published + 1
      to == Audience(t)
      gone == {m \in to : Disconnects(m, pending[m])}
  IN  /\ ~hubClosed /\ n \in Pubs /\ published' = n
      /\ retained' = [retained EXCEPT ![t] = IF to # {} /\ gone = to THEN << >>
                                             ELSE IF retains THEN Logged(@, n) ELSE @]
      /\ pending' = [m \in Members |-> IF m \in to \ gone THEN Enqueued(m, pending[m], n) ELSE pending[m]]
      /\ gapped' = (gapped \/ \E m \in to : ~Admits(m, pending[m]) /\ Policy[m] = "drop-newest")
      /\ topic' = [m \in Members |-> IF m \in gone THEN "closed" ELSE topic[m]]
      /\ IF \E m \in to \ gone : Admits(m, pending[m]) THEN ScheduleFlush
         ELSE UNCHANGED << scheduled, hubTimer, jobs >>
      /\ UNCHANGED << hubClosed, delayed, outstanding, taken, draining, memo, delivered, misframed, stalled >>

\* subscribe(): the retained log goes through the subscriber's own queue and policy.
Subscribe(m, t) ==
  LET log == retained[t]
      q[i \in 0..Len(log)] == IF i = 0 THEN << >> ELSE Enqueued(m, q[i - 1], log[i])
      cut == Policy[m] = "disconnect" /\ Len(log) > MaxQueue[m]
  IN  /\ ~hubClosed /\ topic[m] = "none" /\ jobs = << >>
      /\ topic' = [topic EXCEPT ![m] = IF cut THEN "closed" ELSE t]
      /\ pending' = [pending EXCEPT ![m] = q[Len(log)]]
      /\ retained' = IF cut /\ Audience(t) = {} THEN [retained EXCEPT ![t] = << >>] ELSE retained
      /\ gapped' = (gapped \/ log # << >>)
      /\ IF log # << >> THEN ScheduleFlush ELSE UNCHANGED << scheduled, hubTimer, jobs >>
      /\ UNCHANGED << hubClosed, delayed, outstanding, taken, published, draining, memo, delivered, misframed, stalled >>

Unsubscribe(m) ==
  /\ Live(m) /\ jobs = << >> /\ topic' = [topic EXCEPT ![m] = "closed"] /\ retained' = LogAfter({m})
  /\ UNCHANGED << hubClosed, delayed, pending, outstanding, taken, published, scheduled, hubTimer, jobs,
                  draining, memo, delivered, misframed, gapped, stalled >>

\* close()
CloseHub ==
  /\ ~hubClosed /\ jobs = << >> /\ hubClosed' = TRUE /\ hubTimer' = FALSE
  /\ topic' = [m \in Members |-> IF Live(m) THEN "closed" ELSE topic[m]]
  /\ retained' = [t \in Topics |-> << >>]
  /\ UNCHANGED << delayed, pending, outstanding, taken, published, scheduled, jobs, draining, memo,
                  delivered, misframed, gapped, stalled >>

-----------------------------------------------------------------------------
(* Flushing                                                                *)

Objects(batch) == [i \in DOMAIN batch |-> Object[batch[i]]]
Batch(m) == SubSeq(pending[m], 1, IF Len(pending[m]) < MaxBatch[m] THEN Len(pending[m]) ELSE MaxBatch[m])

\* Bug: a batch that begins as the last one did is taken for the same.
RemembersFirst(last, batch) == last # << >> /\ Object[Head(last)] = Object[Head(batch)]

\* _encodeBatch() knows a batch by its length and its two ends.
Remembers(last, batch) ==
  /\ last # << >> /\ Len(last) = Len(batch)
  /\ Object[Head(last)] = Object[Head(batch)] /\ Object[Last(last)] = Object[Last(batch)]

\* The memo after the members of order have been encoded for in turn, and whether one of
\* them is handed a frame that is not its batch.
Encoded(order) ==
  LET e[i \in 0..Len(order)] ==
        IF i = 0 THEN [memo |-> memo, wrong |-> misframed]
        ELSE LET batch == Batch(order[i])
                 hit == Remembers(e[i - 1].memo, batch)
             IN  [memo |-> IF hit THEN e[i - 1].memo ELSE batch,
                  wrong |-> e[i - 1].wrong \/ (hit /\ Objects(e[i - 1].memo) # Objects(batch))]
  IN  e[Len(order)]

\* _flushSubscriber() of the members of order in turn, for those of throws by a send() that
\* throws, which ends their chain at once.
FlushMembers(order, throws) ==
  LET to == ToSet(order)
  IN  /\ pending' = [m \in Members |-> IF m \in to THEN SubSeq(pending[m], Len(Batch(m)) + 1, Len(pending[m]))
                                       ELSE pending[m]]
      /\ delivered' = [m \in Members |-> IF m \in to THEN delivered[m] \o Batch(m) ELSE delivered[m]]
      /\ outstanding' = [m \in Members |-> IF m \in to \ throws THEN outstanding[m] + 1 ELSE outstanding[m]]
      /\ taken' = [m \in Members |-> IF m \in to \ throws THEN Append(taken[m], "sent") ELSE taken[m]]
      /\ memo' = Encoded(order).memo /\ misframed' = Encoded(order).wrong
      /\ stalled' = (stalled \ to) \cup (to \cap throws)

Queued == {m \in Members : Live(m) /\ pending[m] # << >>}
Idle == {m \in Queued : outstanding[m] = 0}

\* The members of a set, in whatever order their priorities give.
FlushInSomeOrder(set) ==
  \E order \in SetToSeqs(set) : \E throws \in SUBSET set : FlushMembers(order, throws)

\* A drain: the microtask, or the timer's macrotask.
DrainJob ==
  /\ jobs # << >> /\ Head(jobs).kind = "drain" /\ jobs' = Tail(jobs)
  /\ scheduled' = FALSE
  /\ FlushInSomeOrder(Idle)
  /\ UNCHANGED << hubClosed, delayed, topic, retained, published, hubTimer, draining, gapped >>

DrainTimer ==
  /\ hubTimer /\ jobs = << >> /\ hubTimer' = FALSE /\ scheduled' = FALSE
  /\ FlushInSomeOrder(Idle)
  /\ UNCHANGED << hubClosed, delayed, topic, retained, published, jobs, draining, gapped >>

\* flush(), one at a time: a microtask that was scheduled already still comes.
FlushHub ==
  /\ ~hubClosed /\ Queued # {} /\ draining = {}
  /\ hubTimer' = FALSE /\ scheduled' = FALSE
  /\ draining' = draining \cup Queued
  /\ FlushInSomeOrder(Idle)
  /\ UNCHANGED << hubClosed, delayed, topic, retained, published, jobs, gapped >>

\* A flush() that was waiting for a subscriber looks at its queue again.
DrainerResumes(m) ==
  /\ m \in draining /\ outstanding[m] = 0 /\ taken[m] = << >>
  /\ IF m \in Queued
     THEN (\E throws \in SUBSET {m} : FlushMembers(<< m >>, throws)) /\ UNCHANGED draining
     ELSE /\ draining' = draining \ {m}
          /\ UNCHANGED << pending, delivered, outstanding, taken, memo, misframed, stalled >>
  /\ UNCHANGED << hubClosed, delayed, topic, retained, published, scheduled, hubTimer, jobs, gapped >>

-----------------------------------------------------------------------------
(* A subscriber's chain: the transport settles, inFlight is decremented in  *)
(* one microtask, the handler runs and the next batch is taken in another.  *)

First(m, step) == CHOOSE i \in DOMAIN taken[m] : taken[m][i] = step /\ \A j \in 1..(i - 1) : taken[m][j] # step
Advance(m, from, to) == taken' = [taken EXCEPT ![m] = [@ EXCEPT ![First(m, from)] = to]]

TransportSettles(m) ==
  /\ \E i \in DOMAIN taken[m] : taken[m][i] = "sent"
  /\ Advance(m, "sent", "settled") /\ jobs' = Append(jobs, Job("release", m))
  /\ UNCHANGED << hubClosed, delayed, topic, pending, outstanding, retained, published, scheduled, hubTimer,
                  draining, memo, delivered, misframed, gapped, stalled >>

ReleaseJob ==
  /\ jobs # << >> /\ Head(jobs).kind = "release"
  /\ LET m == Head(jobs).member
     IN  /\ outstanding' = [outstanding EXCEPT ![m] = @ - 1]
         /\ Advance(m, "settled", "released")
         /\ jobs' = Append(Tail(jobs), Job("next", m))
  /\ UNCHANGED << hubClosed, delayed, topic, pending, retained, published, scheduled, hubTimer, draining,
                  memo, delivered, misframed, gapped, stalled >>

\* Bug: what arrived while the frame was in flight is left to the next publication.
ContinuesNever(m) == FALSE

\* The chain takes the next batch, whether or not another chain has begun meanwhile.
Continues(m) == m \in Queued

NextJob ==
  /\ jobs # << >> /\ Head(jobs).kind = "next" /\ jobs' = Tail(jobs)
  /\ LET m == Head(jobs).member
         rest == RemoveAt(taken[m], First(m, "released"))
     IN  IF ~Continues(m)
         THEN /\ taken' = [taken EXCEPT ![m] = rest]
              /\ UNCHANGED << pending, delivered, outstanding, memo, misframed, stalled >>
         ELSE \E throws \in BOOLEAN :
                /\ pending' = [pending EXCEPT ![m] = SubSeq(@, Len(Batch(m)) + 1, Len(@))]
                /\ delivered' = [delivered EXCEPT ![m] = @ \o Batch(m)]
                /\ outstanding' = [outstanding EXCEPT ![m] = IF throws THEN @ ELSE @ + 1]
                /\ taken' = [taken EXCEPT ![m] = IF throws THEN rest ELSE Append(rest, "sent")]
                /\ memo' = Encoded(<< m >>).memo /\ misframed' = Encoded(<< m >>).wrong
                /\ stalled' = IF throws THEN stalled \cup {m} ELSE stalled \ {m}
  /\ UNCHANGED << hubClosed, delayed, topic, retained, published, scheduled, hubTimer, draining, gapped >>

HubNext ==
  \/ CloseHub \/ DrainJob \/ DrainTimer \/ FlushHub \/ ReleaseJob \/ NextJob
  \/ \E m \in Members :
       \/ Unsubscribe(m) \/ DrainerResumes(m) \/ TransportSettles(m)
       \/ \E t \in Topics : Subscribe(m, t)
  \/ \E t \in Topics, retains \in BOOLEAN : Publish(t, retains)

-----------------------------------------------------------------------------
\* A slow subscriber costs a bounded queue and no one else anything: its backlog stays within
\* maxQueue, and what it is sent is in the order of publication, nothing twice.
SlowConsumersAreBounded ==
  \A m \in Members :
    /\ Len(pending[m]) <= MaxQueue[m]
    /\ LET all == delivered[m] \o pending[m]
       IN  \A i, j \in DOMAIN all : i < j => all[i] < all[j]

\* What a live subscriber has queued will be sent without another publication: a drain is
\* scheduled, a chain or a flush() is at work for it, or its send() threw.
NoBacklogIsStranded ==
  \A m \in Queued : scheduled \/ hubTimer \/ taken[m] # << >> \/ m \in draining \cup stalled
                    \/ \E i \in DOMAIN jobs : jobs[i].kind = "drain"

\* Every frame handed to send() is the frame of the batch it was handed over for.
FrameIsItsBatch == ~misframed

\* The same as long as values are published once and no queue has gaps in it.
FrameIsItsBatchInSequence ==
  (\A m, n \in Pubs : Object[m] = Object[n] => m = n) /\ ~gapped => FrameIsItsBatch

HubIsSound == SlowConsumersAreBounded /\ NoBacklogIsStranded /\ FrameIsItsBatchInSequence
=============================================================================
