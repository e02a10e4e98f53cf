---------------------------- MODULE SocketAdapter ---------------------------
(***************************************************************************)
(* PowerSocketAdapter (src/helpers/powerSocketAdapter.js): one accepted    *)
(* server-side socket with heartbeats, an idle timeout, a rate limit and a *)
(* drain that waits for the message handlers and writes under way.         *)
(*                                                                         *)
(* The socket is external: it reports "open" and "close", and may deliver  *)
(* messages as long as it has not reported its close.                      *)
(***************************************************************************)
EXTENDS Integers

CONSTANTS
  MaxWork       \* bound: handlers, or writes of a stream, that are under way at once

ASSUME AdapterConstants == MaxWork \in Nat \ {0}

VARIABLES
  kind,             \* "ws", which can be pinged, or "stream"
  adapterState,     \* _state
  sock,             \* external: "connecting", "open", "closing", "closed"
  adapterDisposed,
  working, writing, \* handlers and stream writes under way
  counted,          \* _pending
  drainState,       \* "no", "waiting", "drained", "cut": the promise of drain()
  drainTimer,       \* _drainTimer is set
  waiters,          \* _drainWaiters is not empty
  ticking, probing, \* _heartbeatTimer, _heartbeatDeadline
  idling,           \* _idleTimer is set
  onCloses, late    \* history: calls of onClose; a message came after the close

clocks == << ticking, probing, idling >>
drainage == << drainState, drainTimer, waiters >>
work == << working, writing, counted >>
adVars == << kind, adapterState, sock, adapterDisposed, work, drainage, clocks, onCloses, late >>

AdInit ==
  /\ kind \in {"ws", "stream"} /\ sock \in {"connecting", "open"} /\ (kind = "stream" => sock = "open")
  /\ adapterState = sock /\ adapterDisposed = FALSE
  /\ working = 0 /\ writing = 0 /\ counted = 0
  /\ drainState = "no" /\ drainTimer = FALSE /\ waiters = FALSE
  /\ ticking = TRUE /\ probing = FALSE /\ idling = TRUE
  /\ onCloses = 0 /\ late = FALSE

ClearTimers == ticking' = FALSE /\ probing' = FALSE /\ idling' = FALSE

\* _finishDrain(): the waiters are told whether everything was finished.
FinishDrain ==
  /\ drainTimer' = FALSE /\ waiters' = FALSE
  /\ drainState' = IF ~waiters THEN drainState ELSE IF counted = 0 THEN "drained" ELSE "cut"

\* What close() does to the socket.
SockCloses == sock' = IF sock \in {"connecting", "open"} THEN "closing" ELSE sock

\* close(): the adapter is closed at once, so the close event is not announced.
CloseAdapter ==
  /\ ~adapterDisposed /\ adapterState # "closed" /\ adapterState' = "closed"
  /\ SockCloses /\ ClearTimers /\ FinishDrain
  /\ UNCHANGED << kind, adapterDisposed, work, onCloses, late >>

\* Bug: the end of a handler that threw is not counted.
AfterWorkUnlessThrown(n, threw) == IF threw THEN n ELSE n - 1

\* The end of a handler or of a write is counted whether it succeeded or not.
AfterWork(n, threw) == n - 1

\* A handler or a write ends; the last one lets a drain finish, which closes.
WorkEnds(threw) ==
  /\ \/ working > 0 /\ working' = working - 1 /\ UNCHANGED writing
     \/ writing > 0 /\ writing' = writing - 1 /\ UNCHANGED working
  /\ counted' = AfterWork(counted, threw)
  /\ IF counted' = 0 /\ waiters
     THEN /\ waiters' = FALSE /\ drainTimer' = FALSE /\ drainState' = "drained"
          /\ IF adapterDisposed THEN UNCHANGED << adapterState, sock, clocks >>
             ELSE adapterState' = "closed" /\ SockCloses /\ ClearTimers
     ELSE UNCHANGED << adapterState, sock, clocks, drainage >>
  /\ UNCHANGED << kind, adapterDisposed, onCloses, late >>

\* drain(): with nothing under way it closes at once.
Drain ==
  /\ drainState = "no"
  /\ IF counted = 0
     THEN /\ drainState' = "drained" /\ drainTimer' = FALSE /\ UNCHANGED waiters
          /\ IF adapterDisposed THEN UNCHANGED << adapterState, sock, clocks >>
             ELSE adapterState' = "closed" /\ SockCloses /\ ClearTimers
     ELSE /\ drainState' = "waiting" /\ waiters' = TRUE /\ drainTimer' = TRUE
          /\ UNCHANGED << adapterState, sock, clocks >>
  /\ UNCHANGED << kind, adapterDisposed, work, onCloses, late >>

DrainTimesOut ==
  /\ drainTimer /\ drainTimer' = FALSE /\ waiters' = FALSE /\ drainState' = "cut"
  /\ IF adapterDisposed THEN UNCHANGED << adapterState, sock, clocks >>
     ELSE adapterState' = "closed" /\ SockCloses /\ ClearTimers
  /\ UNCHANGED << kind, adapterDisposed, work, onCloses, late >>

\* dispose(): listeners, timers and the drain's waiters are dropped.
DisposeAdapter ==
  /\ ~adapterDisposed /\ adapterDisposed' = TRUE /\ adapterState' = "closed"
  /\ ClearTimers /\ drainTimer' = FALSE /\ waiters' = FALSE
  /\ UNCHANGED << kind, sock, work, drainState, onCloses, late >>

-----------------------------------------------------------------------------
(* What the socket reports                                                  *)

SockOpens ==
  /\ sock = "connecting" /\ sock' = "open"
  /\ IF adapterDisposed THEN UNCHANGED << adapterState, idling >>
     ELSE adapterState' = "open" /\ idling' = TRUE
  /\ UNCHANGED << kind, adapterDisposed, work, drainage, ticking, probing, onCloses, late >>

\* _handleClose(), once.
SockClosed ==
  /\ sock # "closed" /\ sock' = "closed"
  /\ IF adapterDisposed \/ adapterState = "closed"
     THEN UNCHANGED << adapterState, drainage, clocks, onCloses >>
     ELSE /\ adapterState' = "closed" /\ ClearTimers /\ FinishDrain /\ onCloses' = onCloses + 1
  /\ UNCHANGED << kind, adapterDisposed, work, late >>

\* _handleMessage(): a handler starts, unless draining or over the rate limit.
MessageComes(limited, closes) ==
  /\ sock \in {"open", "closing"} /\ ~adapterDisposed
  /\ closes => limited
  /\ limited \/ drainState # "no" \/ counted < MaxWork
  /\ late' = (late \/ adapterState = "closed")
  /\ probing' = FALSE
  /\ IF drainState # "no" \/ limited THEN UNCHANGED << working, counted >>
     ELSE working' = working + 1 /\ counted' = counted + 1
  /\ IF drainState = "no" /\ closes
     THEN /\ adapterState' = "closed" /\ SockCloses /\ ticking' = FALSE /\ idling' = FALSE
     ELSE idling' = TRUE /\ UNCHANGED << adapterState, sock, ticking >>
  /\ UNCHANGED << kind, adapterDisposed, writing, drainage, onCloses >>

\* send() of a stream: the write is counted until it settles.
WriteStream ==
  /\ kind = "stream" /\ ~adapterDisposed /\ drainState = "no" /\ adapterState = "open"
  /\ counted < MaxWork /\ writing' = writing + 1 /\ counted' = counted + 1
  /\ UNCHANGED << kind, adapterState, sock, adapterDisposed, working, drainage, clocks, onCloses, late >>

-----------------------------------------------------------------------------
(* Timers                                                                   *)

Ticks ==
  /\ ticking
  /\ probing' = (probing \/ (kind = "ws" /\ sock = "open"))
  /\ ticking' = (adapterState = "open")
  /\ UNCHANGED << kind, adapterState, sock, adapterDisposed, work, drainage, idling, onCloses, late >>

PongComes ==
  /\ probing /\ sock \in {"open", "closing"} /\ ~adapterDisposed /\ probing' = FALSE
  /\ UNCHANGED << kind, adapterState, sock, adapterDisposed, work, drainage, ticking, idling, onCloses, late >>

\* The pong did not come: every timer is cleared, that of a drain too, and the socket closed.
ProbeFails ==
  /\ probing /\ ClearTimers /\ drainTimer' = FALSE
  /\ SockCloses
  /\ UNCHANGED << kind, adapterState, adapterDisposed, work, drainState, waiters, onCloses, late >>

IdleTimesOut ==
  /\ idling /\ ClearTimers /\ SockCloses
  /\ adapterState' = "closed" /\ FinishDrain
  /\ onCloses' = onCloses + 1
  /\ UNCHANGED << kind, adapterDisposed, work, late >>

AdNext ==
  \/ CloseAdapter \/ Drain \/ DrainTimesOut \/ DisposeAdapter \/ SockOpens \/ SockClosed
  \/ WriteStream \/ Ticks \/ PongComes \/ ProbeFails \/ IdleTimesOut
  \/ \E threw \in BOOLEAN : WorkEnds(threw)
  \/ \E limited, closes \in BOOLEAN : onCloses < 3 /\ MessageComes(limited, closes)

-----------------------------------------------------------------------------
\* A drain that was asked for comes to an end: by its timer, by the last handler or write, or
\* by the close of the socket, which the heartbeat asked for when it took the timer away.
DrainComesToAnEnd ==
  /\ counted = working + writing
  /\ drainState = "waiting" /\ ~adapterDisposed =>
       waiters /\ counted > 0 /\ (drainTimer \/ (sock \in {"closing", "open"} /\ adapterState # "closed"))

\* onClose is called once at most, and a closed adapter has no timer left, as long as no
\* message follows the close.
AdapterClosesOnce ==
  late \/ /\ onCloses <= 1
          /\ adapterState = "closed" => ~ticking /\ ~probing /\ ~idling

AdapterIsSound == DrainComesToAnEnd /\ AdapterClosesOnce
=============================================================================
