--------------------------- MODULE WebSocketClient --------------------------
(***************************************************************************)
(* PowerWebSocketClient (src/helpers/powerWebSocketClient.js): a socket    *)
(* that is opened again when it closes, with watermarks, heartbeats and a  *)
(* queue for what is sent while it is not open.                            *)
(*                                                                         *)
(* Every _open() makes one socket, numbered in order; the listeners of a   *)
(* socket act while it is this._socket and _connectionGeneration is still  *)
(* the one they were made for (heard).  A timer whose handle has been      *)
(* overwritten cannot be cleared any more, and is kept in a bag of its own.*)
(***************************************************************************)
EXTENDS Integers, Sequences, FiniteSets

CONSTANTS
  Sockets, Frames,             \* 1..n each; a frame is sent once by the caller
  Droppable,                   \* the frames sent with options.dropOnBackpressure
  Arrivals,                    \* 1..n, the frames the peer sends, in that order
  MessageQueueSize, MaxReconnectAttempts,
  MaxConnects                  \* how often the caller calls connect()

ASSUME ClientConstants ==
  /\ Sockets \cup Frames \cup Arrivals \subseteq Nat \ {0}
  /\ {MessageQueueSize, MaxReconnectAttempts, MaxConnects} \subseteq Nat

VARIABLES
  tier,                \* "events", or "streams" where WebSocketStream exists
  state,               \* _state
  socket, heard,       \* this._socket or 0; its events are still listened to
  peer,                \* what has become of each socket
  opening,             \* the promise of the _open() that made each socket
  closedByUser, attempts, exhausted,
  connectTimer,        \* the socket whose connect timer _connectTimer is, or 0
  lostTimers,          \* connect timers whose handle was overwritten
  retryTimer, lostRetries,  \* _reconnectTimer is set; timers whose handle was overwritten
  beat, deadline,      \* _heartbeatTimer, _heartbeatDeadline
  paused, poll, buffered,   \* _paused, _pollTimer, what bufferedAmount reads
  queue, flushing,     \* _messageQueue; frames the flush loop has taken off it
  frame,               \* history: what became of each frame
  chain, chained,      \* _inboundChain: the steps that wait, and that it is not null
  arrived, wsDelivered,  \* history: frames that came in, frames given to the handler
  connects, raced,     \* calls of connect(); history: one came while a reconnect was due
  wsThrew              \* history: the constructor threw in the last _open()

wire == << tier, state, socket, heard, peer, opening >>
plan == << closedByUser, attempts, exhausted, connectTimer, lostTimers, retryTimer, lostRetries >>
pulse == << beat, deadline >>
flowing == << paused, poll, buffered >>
outbound == << queue, flushing, frame >>
inbound == << chain, chained, arrived, wsDelivered >>
calls == << connects, raced, wsThrew >>
wsVars == << wire, plan, pulse, flowing, outbound, inbound, calls >>

WsInit ==
  /\ tier \in {"events", "streams"} /\ state = "closed" /\ socket = 0 /\ heard = FALSE
  /\ peer = [s \in Sockets |-> "none"] /\ opening = [s \in Sockets |-> "none"]
  /\ closedByUser = FALSE /\ attempts = 0 /\ exhausted = "no"
  /\ connectTimer = 0 /\ lostTimers = {} /\ retryTimer = FALSE /\ lostRetries = 0
  /\ beat = FALSE /\ deadline = FALSE /\ paused = FALSE /\ poll = FALSE /\ buffered = "low"
  /\ queue = << >> /\ flushing = << >> /\ frame = [f \in Frames |-> "new"]
  /\ chain = << >> /\ chained = FALSE /\ arrived = 0 /\ wsDelivered = << >>
  /\ connects = 0 /\ raced = FALSE /\ wsThrew = FALSE

Alive == {"connecting", "open"}
IsOpen == state = "open"
Heard(s) == s = socket /\ heard

\* What waits on _inboundChain: a frame to convert and deliver, or a close to announce.
Delivery(n) == [what |-> "frame", frame |-> n]
Closing(retryable) == [what |-> IF retryable THEN "close" ELSE "final", frame |-> 0]

-----------------------------------------------------------------------------
(* Opening                                                                 *)

\* _open(): the listeners of the socket before are not listened to from here on.
SocketMade ==
  \E s \in Sockets :
    /\ peer[s] = "none" /\ \A r \in Sockets : r < s => peer[r] # "none"
    /\ state' = "connecting" /\ socket' = s /\ heard' = TRUE
    /\ peer' = [peer EXCEPT ![s] = "connecting"]
    /\ opening' = [opening EXCEPT ![s] = "pending"]
    /\ connectTimer' = s
    /\ lostTimers' = IF connectTimer = 0 THEN lostTimers ELSE lostTimers \cup {connectTimer}
    /\ wsThrew' = FALSE

\* The constructor throws: the promise rejects, there is no new socket, and nothing is
\* scheduled, not even when this _open() was a reconnect.
SocketThrows ==
  /\ state' = "closed" /\ heard' = FALSE /\ connectTimer' = 0 /\ wsThrew' = TRUE
  /\ UNCHANGED << socket, peer, opening, lostTimers >>

Open == SocketMade \/ SocketThrows

\* connect() does not ask whether a reconnect is already due.
Connect ==
  /\ connects < MaxConnects /\ state = "closed"
  /\ connects' = connects + 1
  /\ closedByUser' = FALSE
  /\ raced' = (raced \/ retryTimer \/ lostRetries > 0 \/ chain # << >>)
  /\ Open
  /\ UNCHANGED << tier, attempts, exhausted, retryTimer, lostRetries, pulse, flowing, outbound, inbound >>

\* A reconnect timer.  Whichever fires clears the handle, so that one still set is lost.
RetryFires ==
  /\ retryTimer \/ lostRetries > 0
  /\ retryTimer' = FALSE
  /\ lostRetries' = IF retryTimer THEN lostRetries ELSE lostRetries - 1
  /\ IF closedByUser THEN UNCHANGED << wire, connectTimer, lostTimers, wsThrew >>
     ELSE Open /\ UNCHANGED tier
  /\ UNCHANGED << closedByUser, attempts, exhausted, pulse, flowing, outbound, inbound,
                  connects, raced >>

\* done(): settles the promise of that _open() once, and clears the timer that is known.
Settle(s, how) ==
  /\ opening' = [opening EXCEPT ![s] = IF @ = "pending" THEN how ELSE @]
  /\ connectTimer' = IF opening[s] = "pending" THEN 0 ELSE connectTimer

\* _flushMessageQueue(): the loop takes the whole queue.
FlushQueue == flushing' = flushing \o queue /\ queue' = << >>

\* The socket opens: _handleOpen(), unless nobody listens any more or it is open already.
Opens(s) ==
  /\ peer[s] = "connecting" /\ peer' = [peer EXCEPT ![s] = "open"]
  /\ IF Heard(s)
     THEN /\ Settle(s, "resolved")
          /\ IF IsOpen THEN UNCHANGED << state, attempts, exhausted, beat, poll, queue, flushing >>
             ELSE /\ state' = "open" /\ attempts' = 0 /\ exhausted' = "no"
                  /\ beat' = TRUE /\ poll' = (poll \/ tier = "events") /\ FlushQueue
     ELSE UNCHANGED << state, opening, connectTimer, attempts, exhausted, beat, poll, queue, flushing >>
  /\ UNCHANGED << tier, socket, heard, closedByUser, lostTimers, retryTimer, lostRetries,
                  deadline, paused, buffered, frame, inbound, calls >>

\* The connect timer of the _open() that made s, known or lost: it closes this._socket.
ConnectTimesOut(s) ==
  /\ s = connectTimer \/ s \in lostTimers
  /\ lostTimers' = (lostTimers \cup {connectTimer}) \ {s, 0}
  /\ connectTimer' = 0
  /\ IF IsOpen THEN UNCHANGED << state, peer, opening >>
     ELSE /\ state' = "closed"
          /\ opening' = [opening EXCEPT ![s] = IF @ = "pending" THEN "rejected" ELSE @]
          /\ peer' = [peer EXCEPT ![socket] = IF @ \in Alive THEN "closing" ELSE @]
  /\ UNCHANGED << tier, socket, heard, closedByUser, attempts, exhausted, retryTimer, lostRetries,
                  pulse, flowing, outbound, inbound, calls >>

-----------------------------------------------------------------------------
(* Closing                                                                 *)

\* close(): a socket's own close event will find that nobody listens.
Close ==
  /\ closedByUser' = TRUE /\ heard' = FALSE /\ state' = "closed"
  /\ connectTimer' = 0 /\ retryTimer' = FALSE
  /\ beat' = FALSE /\ deadline' = FALSE /\ poll' = FALSE /\ paused' = FALSE
  /\ peer' = IF socket # 0 /\ peer[socket] \in Alive THEN [peer EXCEPT ![socket] = "closing"] ELSE peer
  /\ queue' = << >>
  /\ frame' = [f \in Frames |-> IF \E i \in DOMAIN queue : queue[i] = f THEN "discarded" ELSE frame[f]]
  /\ UNCHANGED << tier, socket, opening, attempts, exhausted, lostTimers, lostRetries, buffered,
                  flushing, inbound, calls >>

\* _scheduleReconnect(), for a close that may be retried.
ScheduleReconnect ==
  IF closedByUser THEN UNCHANGED << attempts, exhausted, retryTimer, lostRetries >>
  ELSE IF attempts >= MaxReconnectAttempts
  THEN exhausted' = "attempts" /\ UNCHANGED << attempts, retryTimer, lostRetries >>
  ELSE /\ attempts' = attempts + 1
       /\ lostRetries' = IF retryTimer THEN lostRetries + 1 ELSE lostRetries
       /\ retryTimer' = TRUE /\ UNCHANGED exhausted

\* _finishClose(): the close is announced, and the decision to retry is taken.
FinishClose(retryable) ==
  IF retryable \/ closedByUser THEN ScheduleReconnect
  ELSE exhausted' = "close-code" /\ UNCHANGED << attempts, retryTimer, lostRetries >>

\* _emitCloseAndReconnect(): it waits for the frames that are still being converted.
CloseBehindChain(retryable) ==
  IF chained
  THEN chain' = Append(chain, Closing(retryable))
       /\ UNCHANGED << attempts, exhausted, retryTimer, lostRetries >>
  ELSE FinishClose(retryable) /\ UNCHANGED chain

\* _handleClose()
HandleClose(retryable) ==
  /\ state' = "closed" /\ beat' = FALSE /\ deadline' = FALSE /\ poll' = FALSE /\ paused' = FALSE
  /\ CloseBehindChain(retryable)

\* The close event of a socket that failed, was closed by the peer, or by us.
CloseEvent(s, retryable) ==
  /\ tier = "events"
  /\ peer[s] \in {"connecting", "open", "closing"} /\ peer' = [peer EXCEPT ![s] = "closed"]
  /\ IF Heard(s)
     THEN HandleClose(retryable) /\ Settle(s, "rejected")
     ELSE UNCHANGED << state, opening, beat, deadline, poll, paused, attempts, exhausted,
                       retryTimer, lostRetries, chain, connectTimer >>
  /\ UNCHANGED << tier, socket, heard, closedByUser, lostTimers, buffered, outbound,
                  chained, arrived, wsDelivered, calls >>

\* A WebSocketStream reports no close event: `opened` rejects, and that is all.
OpenedRejects(s) ==
  /\ tier = "streams" /\ peer[s] \in {"connecting", "closing"} /\ opening[s] # "resolved"
  /\ peer' = [peer EXCEPT ![s] = "closed"]
  /\ IF Heard(s) THEN Settle(s, "rejected") ELSE UNCHANGED << opening, connectTimer >>
  /\ UNCHANGED << tier, state, socket, heard, closedByUser, attempts, exhausted, lostTimers,
                  retryTimer, lostRetries, pulse, flowing, outbound, inbound, calls >>

\* The reader of the stream fails, which closes an open client, or just ends.
ReadFails(s) ==
  /\ tier = "streams" /\ peer[s] \in {"open", "closing"} /\ peer' = [peer EXCEPT ![s] = "closed"]
  /\ IF Heard(s) /\ IsOpen /\ ~closedByUser
     THEN heard' = FALSE /\ HandleClose(TRUE)
     ELSE UNCHANGED << heard, state, beat, deadline, poll, paused, attempts, exhausted,
                       retryTimer, lostRetries, chain >>
  /\ UNCHANGED << tier, socket, opening, closedByUser, connectTimer, lostTimers, buffered,
                  outbound, chained, arrived, wsDelivered, calls >>

ReadEnds(s) ==
  /\ tier = "streams" /\ peer[s] \in {"open", "closing"} /\ peer' = [peer EXCEPT ![s] = "closed"]
  /\ UNCHANGED << tier, state, socket, heard, opening, plan, pulse, flowing, outbound, inbound, calls >>

-----------------------------------------------------------------------------
(* Sending                                                                 *)

\* Bug: the frame that does not fit is dropped without making room.
RequeuedOverLimit(f) ==
  /\ queue' = Append(queue, f)
  /\ frame' = [frame EXCEPT ![f] = IF Len(queue) >= MessageQueueSize THEN "dropped" ELSE "queued"]

\* A frame that finds the client not open: the oldest one makes room for it.
Requeued(f) ==
  LET full == Len(queue) >= MessageQueueSize
  IN  /\ queue' = Append(IF full THEN Tail(queue) ELSE queue, f)
      /\ frame' = [g \in Frames |-> CASE g = f -> "queued"
                                      [] g # f /\ full /\ g = Head(queue) -> "dropped"
                                      [] OTHER -> frame[g]]

NotSent(f, how) == frame' = [frame EXCEPT ![f] = how] /\ UNCHANGED queue

\* Over the high-water mark the frame is dropped, or sent and the producer is told to pause.
Transmit(f, fails) ==
  CASE ~IsOpen /\ MessageQueueSize > 0 /\ ~closedByUser -> Requeued(f) /\ UNCHANGED paused
    [] ~IsOpen /\ ~(MessageQueueSize > 0 /\ ~closedByUser) -> NotSent(f, "refused") /\ UNCHANGED paused
    [] IsOpen /\ tier = "events" /\ buffered = "high" /\ f \in Droppable ->
         NotSent(f, "dropped") /\ UNCHANGED paused
    [] OTHER -> /\ NotSent(f, IF fails THEN "failed" ELSE "sent")
                /\ paused' = (paused \/ (tier = "events" /\ buffered = "high"))

Send(f, fails) ==
  /\ frame[f] = "new" /\ \A g \in Frames : g < f => frame[g] # "new"
  /\ Transmit(f, fails)
  /\ UNCHANGED << wire, plan, pulse, poll, buffered, flushing, inbound, calls >>

\* One round of the flush loop, with the options the frame was sent with; between two
\* rounds the client may have closed again.
FlushNext(fails) ==
  /\ flushing # << >> /\ flushing' = Tail(flushing)
  /\ Transmit(Head(flushing), fails)
  /\ UNCHANGED << wire, plan, pulse, poll, buffered, inbound, calls >>

Buffers(b) ==
  /\ IsOpen /\ b # buffered /\ buffered' = b
  /\ UNCHANGED << wire, plan, pulse, paused, poll, outbound, inbound, calls >>

\* _tickWatermark()
Watermark ==
  CASE ~IsOpen                -> UNCHANGED paused
    [] IsOpen /\ buffered = "high" -> paused' = TRUE
    [] IsOpen /\ buffered = "low"  -> paused' = FALSE
    [] OTHER                  -> UNCHANGED paused

\* Bug: the poll does not arm itself again.
PollsOnce == poll' = FALSE

PollsOn == poll' = IsOpen

PollFires ==
  /\ poll /\ Watermark /\ PollsOn
  /\ UNCHANGED << wire, plan, pulse, buffered, outbound, inbound, calls >>

-----------------------------------------------------------------------------
(* Heartbeats                                                              *)

BeatFires ==
  /\ beat
  /\ deadline' = (deadline \/ (tier = "events" /\ peer[socket] = "open"))
  /\ beat' = IsOpen
  /\ UNCHANGED << wire, plan, flowing, outbound, inbound, calls >>

Pong ==
  /\ heard /\ peer[socket] = "open" /\ deadline /\ deadline' = FALSE
  /\ UNCHANGED << wire, plan, beat, flowing, outbound, inbound, calls >>

DeadlinePasses ==
  /\ deadline /\ deadline' = FALSE /\ beat' = FALSE
  /\ peer' = IF ~closedByUser /\ peer[socket] \in Alive THEN [peer EXCEPT ![socket] = "closing"] ELSE peer
  /\ UNCHANGED << tier, state, socket, heard, opening, plan, flowing, outbound, inbound, calls >>

-----------------------------------------------------------------------------
(* Receiving                                                               *)

\* Bug: only a frame that must be converted joins the chain.
JoinsIfBlob(blob) == blob

\* A frame that needs no conversion waits behind those that do.
Joins(blob) == blob \/ chained

Arrives(blob) ==
  /\ heard /\ peer[socket] = "open" /\ arrived + 1 \in Arrivals
  /\ arrived' = arrived + 1
  /\ IF Joins(blob)
     THEN chain' = Append(chain, Delivery(arrived + 1)) /\ chained' = TRUE /\ UNCHANGED wsDelivered
     ELSE wsDelivered' = Append(wsDelivered, arrived + 1) /\ UNCHANGED << chain, chained >>
  /\ UNCHANGED << wire, plan, pulse, flowing, outbound, calls >>

\* The next step of the chain: a frame is delivered, or dropped when its conversion fails.
ChainDelivers(fails) ==
  /\ chain # << >> /\ Head(chain).what = "frame" /\ chain' = Tail(chain)
  /\ wsDelivered' = IF fails THEN wsDelivered ELSE Append(wsDelivered, Head(chain).frame)
  /\ UNCHANGED << wire, plan, pulse, flowing, outbound, chained, arrived, calls >>

ChainCloses ==
  /\ chain # << >> /\ Head(chain).what # "frame" /\ chain' = Tail(chain)
  /\ FinishClose(Head(chain).what = "close")
  /\ UNCHANGED << wire, closedByUser, connectTimer, lostTimers, pulse, flowing, outbound,
                  chained, arrived, wsDelivered, calls >>

-----------------------------------------------------------------------------
(* What may happen next, in the three groups an instance can choose among.  *)

LinkNext ==
  \/ Connect \/ RetryFires \/ Close
  \/ \E s \in Sockets :
       \/ Opens(s) \/ ConnectTimesOut(s) \/ OpenedRejects(s) \/ ReadFails(s) \/ ReadEnds(s)
       \/ \E retryable \in BOOLEAN : CloseEvent(s, retryable)

SendingNext ==
  \/ \E f \in Frames, fails \in BOOLEAN : Send(f, fails)
  \/ \E fails \in BOOLEAN : FlushNext(fails)
  \/ \E b \in {"low", "middle", "high"} : Buffers(b)
  \/ PollFires

ReceivingNext ==
  \/ BeatFires \/ Pong \/ DeadlinePasses
  \/ \E blob \in BOOLEAN : Arrives(blob)
  \/ \E fails \in BOOLEAN : ChainDelivers(fails)
  \/ ChainCloses

-----------------------------------------------------------------------------
(* What the client promises, as long as connect() is not called while a     *)
(* reconnect is due.                                                        *)

Occurrences(q, f) == Cardinality({i \in DOMAIN q : q[i] = f})

\* A frame given to send() is in one place: never twice on its way, never forgotten, and
\* the queue of a client that is not open keeps its limit (_transmit, _flushMessageQueue).
FramesAreAccounted ==
  /\ Len(queue) <= MessageQueueSize
  /\ \A f \in Frames :
       Occurrences(queue, f) + Occurrences(flushing, f) = IF frame[f] = "queued" THEN 1 ELSE 0

\* One socket at a time; after close() none is opened and no timer of the client is left,
\* even if the close is still waiting behind frames that are being converted.
OneLink ==
  raced \/ /\ Cardinality({s \in Sockets : peer[s] \in Alive}) <= 1
           /\ lostTimers = {} /\ lostRetries = 0
           /\ closedByUser => /\ state = "closed" /\ ~retryTimer /\ connectTimer = 0
                              /\ ~beat /\ ~deadline /\ ~poll
                              /\ \A s \in Sockets : peer[s] \notin Alive

\* A client that lost its connection and has neither been closed nor given up has an event
\* or a timer to come that opens the next socket (_finishClose, _scheduleReconnect), unless
\* the constructor of its last socket threw, after which nothing is to come.
KeepsTrying ==
  tier = "events" /\ ~raced /\ ~wsThrew /\ connects > 0 /\ state = "closed" /\ ~closedByUser /\ exhausted = "no" =>
    \/ retryTimer
    \/ heard /\ peer[socket] \in Alive \cup {"closing"}
    \/ \E i \in DOMAIN chain : chain[i].what # "frame"

\* A paused producer is told to resume: the poll that lifts the pause is armed as long as
\* the connection is open; an open connection is probed, or is being closed already.
OpenIsWatched ==
  raced \/ /\ paused => IsOpen /\ poll
           /\ IsOpen => beat \/ peer[socket] # "open"
           /\ deadline => IsOpen

\* Frames are handed over in the order they came in, the converted and the others alike.
InboundInOrder == \A i, j \in DOMAIN wsDelivered : i < j => wsDelivered[i] < wsDelivered[j]

ClientIsSound == FramesAreAccounted /\ OneLink /\ KeepsTrying /\ OpenIsWatched /\ InboundInOrder
=============================================================================
