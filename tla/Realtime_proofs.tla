--------------------------- MODULE Realtime_proofs ---------------------------
(***************************************************************************)
(* What the clients of a link promise, for every number of sockets,        *)
(* sessions, frames and attempts; and what the channels below them do: the *)
(* datagram channel with its sequencer and heartbeat, the RTC channel, the *)
(* broadcast bus and the frame decoder, for every number of datagrams, of  *)
(* frames of any sizes, of receivers and of bytes; and the hub above them, *)
(* for every number of subscribers and publications.                       *)
(***************************************************************************)
EXTENDS MCRealtime, FiniteSetTheorems, WellFoundedInduction, TLAPS

(* Counts add up to a count.                                               *)
LEMMA SumsOfNat == \A m, n \in Nat : m + n \in Nat
  OBVIOUS

-----------------------------------------------------------------------------
(***************************************************************************)
(* The socket adapter.  A closed adapter has a socket that is closing or   *)
(* closed and no heartbeat; a probe is of a socket that is not yet closed, *)
(* so that taking the timer of a drain away leaves the close to come.      *)
(***************************************************************************)
AdType ==
  /\ working \in Nat /\ writing \in Nat /\ onCloses \in Nat /\ counted = working + writing
  /\ sock \in {"connecting", "open", "closing", "closed"} /\ adapterState \in {"connecting", "open", "closed"}
  /\ adapterDisposed \in BOOLEAN /\ drainTimer \in BOOLEAN /\ waiters \in BOOLEAN
  /\ ticking \in BOOLEAN /\ probing \in BOOLEAN /\ idling \in BOOLEAN /\ late \in BOOLEAN

AdDrains ==
  drainState = "waiting" /\ ~adapterDisposed =>
    waiters /\ counted > 0 /\ (drainTimer \/ (sock \in {"closing", "open"} /\ adapterState # "closed"))

AdCloses ==
  /\ sock = "closed" \/ adapterDisposed => adapterState = "closed"
  /\ adapterState = "closed" /\ ~adapterDisposed => sock \in {"closing", "closed"}
  /\ ticking \/ probing => adapterState # "closed"
  /\ probing => sock \in {"open", "closing"}

AdOnce == ~late => /\ onCloses <= 1 /\ (onCloses = 1 => adapterState = "closed")
                   /\ adapterState = "closed" => ~idling

AdInv == AdType /\ AdDrains /\ AdCloses /\ AdOnce

(* The invariant says what the adapter promises.                           *)
LEMMA AdKeepsPromises == AdInv => AdapterIsSound
  BY DEF AdInv, AdType, AdDrains, AdCloses, AdOnce, AdapterIsSound, DrainComesToAnEnd, AdapterClosesOnce

(* Before the first event.                                                 *)
LEMMA AdStarts == AdInit => AdInv
<1> SUFFICES ASSUME AdInit PROVE AdInv OBVIOUS
<1>1. /\ adapterDisposed = FALSE /\ drainTimer = FALSE /\ waiters = FALSE /\ ticking = TRUE /\ probing = FALSE
      /\ idling = TRUE /\ late = FALSE
  BY DEF AdInit
<1>2. /\ adapterDisposed \in BOOLEAN /\ drainTimer \in BOOLEAN /\ waiters \in BOOLEAN
      /\ ticking \in BOOLEAN /\ probing \in BOOLEAN /\ idling \in BOOLEAN /\ late \in BOOLEAN
  BY <1>1, Zenon
<1>3. /\ working = 0 /\ writing = 0 /\ onCloses = 0 /\ counted = 0 /\ drainState = "no"
      /\ sock \in {"connecting", "open"} /\ adapterState = sock /\ ~adapterDisposed /\ ~probing
  BY DEF AdInit
<1>4. AdType BY <1>2, <1>3 DEF AdType
<1> QED BY <1>3, <1>4 DEF AdInv, AdDrains, AdCloses, AdOnce

(* Each call, event and timer of the adapter.                              *)
LEMMA AdStep == ASSUME AdInv, AdNext PROVE AdInv'
<1> USE DEF AdInv, AdType, AdDrains, AdCloses, AdOnce
<1>1. CASE CloseAdapter BY <1>1 DEF CloseAdapter, SockCloses, ClearTimers, FinishDrain, work
<1>2. CASE Drain
  <2>1. CASE counted = 0 /\ ~adapterDisposed BY <1>2, <2>1 DEF Drain, SockCloses, ClearTimers, work
  <2>2. CASE counted = 0 /\ adapterDisposed BY <1>2, <2>2 DEF Drain, work, clocks
  <2>3. CASE counted # 0 BY <1>2, <2>3 DEF Drain, work, clocks
  <2> QED BY <2>1, <2>2, <2>3
<1>3. CASE DrainTimesOut BY <1>3 DEF DrainTimesOut, SockCloses, ClearTimers, work, clocks
<1>4. CASE DisposeAdapter BY <1>4 DEF DisposeAdapter, ClearTimers, work
<1>5. CASE SockOpens BY <1>5 DEF SockOpens, work, drainage
<1>6. CASE SockClosed
  <2>1. CASE adapterDisposed \/ adapterState = "closed" BY <1>6, <2>1 DEF SockClosed, work, drainage, clocks
  <2>2. CASE ~(adapterDisposed \/ adapterState = "closed")
    <3>1. /\ sock' = "closed" /\ adapterState' = "closed" /\ onCloses' = onCloses + 1
          /\ UNCHANGED << adapterDisposed, working, writing, counted, late >>
          /\ ticking' = FALSE /\ probing' = FALSE /\ idling' = FALSE /\ drainTimer' = FALSE /\ waiters' = FALSE
      BY <1>6, <2>2 DEF SockClosed, ClearTimers, FinishDrain, work
    <3>2. /\ ticking' \in BOOLEAN /\ probing' \in BOOLEAN /\ idling' \in BOOLEAN
          /\ drainTimer' \in BOOLEAN /\ waiters' \in BOOLEAN
      BY <3>1, Zenon
    <3>3. drainState' = "waiting" => drainState = "waiting" /\ ~waiters BY <1>6, <2>2 DEF SockClosed, FinishDrain
    <3>4. AdType' BY <3>1, <3>2
    <3>5. AdDrains' BY <3>1, <3>3
    <3>6. AdCloses' /\ AdOnce' BY <2>2, <3>1
    <3> QED BY <3>4, <3>5, <3>6
  <2> QED BY <2>1, <2>2
<1>7. CASE WriteStream BY <1>7 DEF WriteStream, drainage, clocks
<1>8. CASE Ticks BY <1>8 DEF Ticks, work, drainage
<1>9. CASE PongComes BY <1>9 DEF PongComes, work, drainage
<1>10. CASE ProbeFails BY <1>10 DEF ProbeFails, ClearTimers, SockCloses, work
<1>11. CASE IdleTimesOut
  <2>1. /\ sock' \in {"closing", "closed"} /\ adapterState' = "closed" /\ onCloses' = onCloses + 1
        /\ UNCHANGED << adapterDisposed, working, writing, counted, late >> /\ idling
        /\ ticking' = FALSE /\ probing' = FALSE /\ idling' = FALSE /\ drainTimer' = FALSE /\ waiters' = FALSE
    BY <1>11 DEF IdleTimesOut, ClearTimers, SockCloses, FinishDrain, work
  <2>6. /\ ticking' \in BOOLEAN /\ probing' \in BOOLEAN /\ idling' \in BOOLEAN
        /\ drainTimer' \in BOOLEAN /\ waiters' \in BOOLEAN
    BY <2>1, Zenon
  <2>2. AdType' BY <2>1, <2>6
  <2>3. drainState' = "waiting" => drainState = "waiting" /\ ~waiters BY <1>11 DEF IdleTimesOut, FinishDrain
  <2>4. AdDrains' BY <2>1, <2>3
  <2>5. AdCloses' /\ AdOnce' BY <2>1
  <2> QED BY <2>2, <2>4, <2>5
<1>12. ASSUME NEW threw \in BOOLEAN, WorkEnds(threw) PROVE AdInv'
  <2>1. /\ working' \in Nat /\ writing' \in Nat /\ counted' = working' + writing'
        /\ UNCHANGED << adapterDisposed, onCloses, late >>
    BY <1>12 DEF WorkEnds, AfterWork
  <2>2. CASE counted' = 0 /\ waiters
    <3>1. /\ waiters' = FALSE /\ drainTimer' = FALSE /\ drainState' = "drained"
          /\ IF adapterDisposed THEN UNCHANGED << adapterState, sock, ticking, probing, idling >>
             ELSE /\ adapterState' = "closed" /\ sock' = (IF sock \in {"connecting", "open"} THEN "closing" ELSE sock)
                  /\ ticking' = FALSE /\ probing' = FALSE /\ idling' = FALSE
      BY <1>12, <2>2 DEF WorkEnds, SockCloses, ClearTimers, clocks
    <3>2. waiters' \in BOOLEAN /\ drainTimer' \in BOOLEAN BY <3>1, Zenon
    <3>3. ticking' \in BOOLEAN /\ probing' \in BOOLEAN /\ idling' \in BOOLEAN BY <3>1, Zenon
    <3>4. CASE adapterDisposed
      <4>1. AdType' BY <2>1, <3>1, <3>2, <3>3, <3>4
      <4> QED BY <2>1, <3>1, <3>4, <4>1
    <3>5. CASE ~adapterDisposed
      <4>1. sock' \in {"closing", "closed"} BY <3>1, <3>5
      <4>2. AdType' BY <2>1, <3>1, <3>2, <3>3, <3>5, <4>1
      <4>3. AdDrains' BY <3>1
      <4>4. AdCloses' /\ AdOnce' BY <2>1, <3>1, <3>5, <4>1
      <4> QED BY <4>2, <4>3, <4>4
    <3> QED BY <3>4, <3>5
  <2>4. CASE ~(counted' = 0 /\ waiters)
    <3>1. UNCHANGED << adapterState, sock, ticking, probing, idling, drainState, drainTimer, waiters >>
      BY <1>12, <2>4 DEF WorkEnds, clocks, drainage
    <3>2. AdType' BY <2>1, <3>1
    <3>5. counted' \in Nat BY <2>1, SumsOfNat, Zenon
    <3>3. AdDrains'
      <4> SUFFICES ASSUME drainState = "waiting", ~adapterDisposed
                   PROVE  waiters /\ counted' > 0 /\ (drainTimer \/ (sock \in {"closing", "open"} /\ adapterState # "closed"))
        BY <2>1, <3>1
      <4>1. waiters /\ (drainTimer \/ (sock \in {"closing", "open"} /\ adapterState # "closed")) OBVIOUS
      <4> QED BY <2>4, <3>5, <4>1
    <3>4. AdCloses' /\ AdOnce' BY <2>1, <3>1
    <3> QED BY <3>2, <3>3, <3>4
  <2> QED BY <2>2, <2>4
<1>13. ASSUME NEW limited \in BOOLEAN, NEW closes \in BOOLEAN, MessageComes(limited, closes) PROVE AdInv'
  <2>1. /\ sock \in {"open", "closing"} /\ ~adapterDisposed /\ ~probing'
        /\ UNCHANGED << adapterDisposed, writing, drainState, drainTimer, waiters, onCloses >>
        /\ late' = (late \/ adapterState = "closed") /\ probing' = FALSE
    BY <1>13 DEF MessageComes, drainage
  <2>a. probing' \in BOOLEAN BY <2>1, Zenon
  <2>2. late' \in BOOLEAN /\ (late' <=> late \/ adapterState = "closed") BY <2>1, Zenon
  <2>3. /\ working' \in Nat /\ counted' = working' + writing'
        /\ counted' >= counted
    BY <1>13, <2>1 DEF MessageComes
  <2>4. CASE drainState = "no" /\ closes
    <3>1. /\ adapterState' = "closed" /\ ~ticking' /\ ~idling' /\ sock' = "closing"
          /\ ticking' = FALSE /\ idling' = FALSE
      BY <1>13, <2>1, <2>4 DEF MessageComes, SockCloses
    <3>5. ticking' \in BOOLEAN /\ idling' \in BOOLEAN BY <3>1, Zenon
    <3>2. AdType' BY <2>1, <2>2, <2>3, <2>a, <3>1, <3>5
    <3>3. AdDrains' BY <2>1, <2>4
    <3>4. AdCloses' /\ AdOnce' BY <2>1, <2>2, <3>1
    <3> QED BY <3>2, <3>3, <3>4
  <2>5. CASE ~(drainState = "no" /\ closes)
    <3>1. idling' = TRUE /\ UNCHANGED << adapterState, sock, ticking >>
      BY <1>13, <2>5 DEF MessageComes
    <3>5. idling' \in BOOLEAN BY <3>1, Zenon
    <3>2. AdType' BY <2>1, <2>2, <2>3, <2>a, <3>1, <3>5
    <3>6. counted \in Nat /\ counted' \in Nat
      <4>1. writing' \in Nat BY <2>1
      <4> QED BY <2>3, <4>1, SumsOfNat, Zenon
    <3>3. AdDrains'
      <4> SUFFICES ASSUME drainState = "waiting" PROVE waiters /\ counted' > 0 /\ (drainTimer \/ (sock \in {"closing", "open"} /\ adapterState # "closed"))
        BY <2>1, <3>1
      <4>1. waiters /\ counted > 0 /\ (drainTimer \/ (sock \in {"closing", "open"} /\ adapterState # "closed")) BY <2>1
      <4> QED BY <2>3, <3>6, <4>1
    <3>4. AdCloses' /\ AdOnce' BY <2>1, <2>2, <3>1
    <3> QED BY <3>2, <3>3, <3>4
  <2> QED BY <2>4, <2>5
<1> QED BY <1>1, <1>2, <1>3, <1>4, <1>5, <1>6, <1>7, <1>8, <1>9, <1>10, <1>11, <1>12, <1>13 DEF AdNext

(* While other parts move.                                                 *)
LEMMA AdStands == ASSUME AdInv, UNCHANGED adVars PROVE AdInv'
  BY DEF AdInv, AdType, AdDrains, AdCloses, AdOnce, adVars, work, drainage, clocks
-----------------------------------------------------------------------------
(***************************************************************************)
(* The WebTransport client.  Only the session in use is alive, it is the   *)
(* one whose events are heard, and a client that is closed, or is to try   *)
(* again, has none; a client that is connecting has a session that lives,  *)
(* or whose end is still to be heard.                                      *)
(***************************************************************************)
WtAlive == Living

WtType ==
  /\ wtState \in {"closed", "connecting", "open"}
  /\ session \in Sessions \cup {0} /\ current \in Sessions \cup {0}
  /\ remote \in [Sessions -> {"none", "connecting", "ready", "mute", "closed"}]
  /\ news \in [Sessions -> SUBSET {"ready", "unready", "stream", "closed", "aborted", "unreadable"}]

WtSessions ==
  /\ \A s \in Sessions : remote[s] \in WtAlive => s = session /\ wtState # "closed"
  /\ session # 0 => session = current \/ wtThrew
  /\ wtThrew => wtState = "closed" /\ current = 0
  /\ wtRetry => session = 0
  /\ \A s \in Sessions : "closed" \in news[s] \/ "unreadable" \in news[s] => remote[s] = "closed"
  /\ writer # 0 => writer = session /\ wtState = "open"
  /\ wtState = "open" => session # 0 \/ ghost

WtByUser ==
  wtByUser => wtState = "closed" /\ session = 0 /\ current = 0 /\ ~wtRetry /\ wtTimer = 0 /\ ~wtBeat /\ ~wtDeadline

WtToCome ==
  wtState = "connecting" /\ ~broken =>
    session # 0 /\ (remote[session] \in WtAlive \/ "closed" \in news[session])

WtInv == WtType /\ WtSessions /\ WtByUser /\ WtToCome /\ WtKeepsTrying

(* The invariant says what the client promises.                            *)
LEMMA WtKeepsPromises == WtInv => WtIsSound
<1> SUFFICES ASSUME WtInv PROVE WtIsSound OBVIOUS
<1>1. Cardinality({s \in Sessions : remote[s] \in Living}) <= 1
  <2> DEFINE A == {s \in Sessions : remote[s] \in Living}
  <2>1. A \subseteq {session} BY DEF WtInv, WtSessions, WtAlive, Living
  <2>2. IsFiniteSet({session}) /\ Cardinality({session}) = 1 BY FS_Singleton
  <2>3. Cardinality(A) <= Cardinality({session}) BY <2>1, <2>2, FS_Subset
  <2> QED BY <2>2, <2>3
<1>2. \A s \in Sessions : s # 0 BY WtConstants
<1>3. OneSession BY <1>1 DEF WtInv, WtSessions, WtByUser, WtAlive, Living, OneSession
<1> QED BY <1>3 DEF WtInv, WtIsSound

(* Before the first call.                                                  *)
LEMMA WtStarts == WtInit => WtInv
<1> SUFFICES ASSUME WtInit PROVE WtInv OBVIOUS
<1> USE DEF WtInit
<1>1. WtType BY DEF WtType
<1>2. WtSessions BY DEF WtSessions, WtAlive, Living
<1>3. WtByUser BY DEF WtByUser
<1>4. WtToCome BY DEF WtToCome
<1>5. WtKeepsTrying BY DEF WtKeepsTrying
<1> QED BY <1>1, <1>2, <1>3, <1>4, <1>5 DEF WtInv

(* While other parts move.                                                 *)
LEMMA WtStands == ASSUME WtInv, UNCHANGED wtVars PROVE WtInv'
  BY DEF WtInv, WtType, WtSessions, WtByUser, WtToCome, WtKeepsTrying,
         wtVars, wtLink, wtWorld, wtPlan, wtPulse, wtPast

(* What a close by this side leaves of the sessions.                       *)
LEMMA WtClosedHere ==
  ASSUME WtType, NEW s \in Sessions \cup {0}, ClosedHere(s)
  PROVE  /\ remote' \in [Sessions -> {"none", "connecting", "ready", "mute", "closed"}]
         /\ news' \in [Sessions -> SUBSET {"ready", "unready", "stream", "closed", "aborted", "unreadable"}]
         /\ \A r \in Sessions :
              /\ remote'[r] \in WtAlive => remote[r] \in WtAlive /\ r # s
              /\ remote[r] \in WtAlive => remote'[r] \in WtAlive \/ "closed" \in news'[r]
              /\ "closed" \in news[r] => "closed" \in news'[r]
              /\ remote[r] = "closed" => remote'[r] = "closed"
              /\ "closed" \in news'[r] => "closed" \in news[r] \/ remote'[r] = "closed"
              /\ "unreadable" \in news'[r] => "unreadable" \in news[r]
<1>0. \A r \in Sessions : r # 0 BY WtConstants
<1>1. CASE s # 0 /\ remote[s] \in WtAlive
  <2>1. /\ s \in Sessions /\ remote' = [remote EXCEPT ![s] = "closed"]
        /\ news' = [news EXCEPT ![s] = (@ \ {"ready"}) \cup {"closed"}]
    BY <1>1 DEF ClosedHere, WtAlive, Living
  <2>2. /\ remote' \in [Sessions -> {"none", "connecting", "ready", "mute", "closed"}] /\ remote'[s] = "closed"
        /\ \A r \in Sessions : r # s => remote'[r] = remote[r]
    BY <2>1 DEF WtType
  <2>3. /\ news' \in [Sessions -> SUBSET {"ready", "unready", "stream", "closed", "aborted", "unreadable"}]
        /\ news'[s] = (news[s] \ {"ready"}) \cup {"closed"}
        /\ \A r \in Sessions : r # s => news'[r] = news[r]
    BY <2>1 DEF WtType
  <2> QED BY <2>2, <2>3 DEF WtAlive, Living
<1>2. CASE ~(s # 0 /\ remote[s] \in WtAlive)
  <2>1. remote' = remote /\ news' = news BY <1>2 DEF ClosedHere, wtWorld, WtAlive, Living
  <2> QED BY <1>0, <1>2, <2>1 DEF WtType
<1> QED BY <1>1, <1>2

(* _open(), for a client without a session that lives.                     *)
LEMMA WtOpens ==
  ASSUME WtInv, OpenSession, \A r \in Sessions : remote[r] \notin WtAlive, writer = 0,
         UNCHANGED << writer, news, ghost >>, ~wtByUser', ~wtRetry'
  PROVE  WtInv'
<1>a. CASE SessionThrows
  <2>1. /\ wtState' = "closed" /\ current' = 0 /\ wtTimer' = 0 /\ wtThrew' = TRUE
        /\ session' = session /\ remote' = remote
    BY <1>a DEF SessionThrows
  <2>2. WtType' BY <2>1 DEF WtInv, WtType
  <2>3. WtSessions' BY <2>1 DEF WtInv, WtSessions
  <2>4. WtByUser' /\ WtToCome' /\ WtKeepsTrying' BY <2>1 DEF WtByUser, WtToCome, WtKeepsTrying
  <2> QED BY <2>2, <2>3, <2>4 DEF WtInv
<1> SUFFICES ASSUME SessionMade PROVE WtInv'
  BY <1>a DEF OpenSession
<1>1. PICK s \in Sessions, x \in {"connecting", "mute"} :
         /\ remote[s] = "none" /\ wtState' = "connecting" /\ session' = s /\ current' = s
         /\ remote' = [remote EXCEPT ![s] = x] /\ wtThrew' = FALSE
  BY DEF SessionMade
<1>2. s # 0 BY WtConstants
<1>3. /\ remote' \in [Sessions -> {"none", "connecting", "ready", "mute", "closed"}] /\ remote'[s] = x
      /\ \A r \in Sessions : r # s => remote'[r] = remote[r]
  BY <1>1 DEF WtInv, WtType
<1>4. WtType' BY <1>1, <1>3 DEF WtInv, WtType
<1>5. WtSessions' BY <1>1, <1>2, <1>3 DEF WtInv, WtSessions, WtAlive, Living
<1>6. WtByUser' BY DEF WtByUser
<1>7. WtToCome' BY <1>1, <1>2, <1>3 DEF WtToCome, WtAlive, Living
<1>8. WtKeepsTrying' BY <1>1 DEF WtKeepsTrying
<1> QED BY <1>4, <1>5, <1>6, <1>7, <1>8 DEF WtInv

(* connect(), and the reconnect timer.                                     *)
LEMMA WtConnectKeeps == ASSUME WtInv, WtConnect \/ WtRetries PROVE WtInv'
<1>0. \A s \in Sessions : s # 0 BY WtConstants
<1>1. CASE WtConnect
  <2>1. wtState = "closed" /\ OpenSession /\ UNCHANGED << writer, news, ghost >> /\ ~wtByUser' /\ ~wtRetry'
    BY <1>1 DEF WtConnect
  <2>2. writer = 0 /\ \A r \in Sessions : remote[r] \notin WtAlive BY <2>1 DEF WtInv, WtSessions
  <2> QED BY <2>1, <2>2, WtOpens
<1>2. CASE WtRetries
  <2>1. ~wtByUser BY <1>2 DEF WtRetries, WtInv, WtByUser
  <2>2. wtRetry /\ OpenSession /\ UNCHANGED << writer, news, ghost >> /\ ~wtByUser' /\ ~wtRetry'
    BY <1>2, <2>1 DEF WtRetries, wtPast
  <2>3. writer = 0 /\ \A r \in Sessions : remote[r] \notin WtAlive BY <1>0, <2>2 DEF WtInv, WtSessions
  <2> QED BY <2>2, <2>3, WtOpens
<1> QED BY <1>1, <1>2

(* What the environment does to a session.                                 *)
LEMMA WtHappens == ASSUME WtInv, NEW s \in Sessions, Happens(s) PROVE WtInv'
<1>1. UNCHANGED << wtState, session, current, writer, wtByUser, wtExhausted, wtTimer, wtRetry, wtBeat, wtDeadline,
                   wtConnects, ghost, wtThrew >>
  BY DEF Happens, wtLink, wtPlan, wtPulse
<1>2. PICK x \in {"ready", "closed"}, N \in SUBSET {"ready", "unready", "closed", "aborted", "unreadable"} :
         /\ remote' = [remote EXCEPT ![s] = x] /\ news' = [news EXCEPT ![s] = @ \cup N]
         /\ remote[s] \in WtAlive /\ (x = "ready" => N = {"ready"})
         /\ "aborted" \in N \/ "closed" \in N \/ x = "ready"
  <2>1. \/ /\ remote' = [remote EXCEPT ![s] = "ready"] /\ remote[s] \in WtAlive
           /\ news' = [news EXCEPT ![s] = @ \cup {"ready"}]
        \/ /\ remote' = [remote EXCEPT ![s] = "closed"] /\ remote[s] \in WtAlive
           /\ \E N \in {{"unready", "aborted"}, {"closed"}, {"aborted"}, {"aborted", "unreadable"}} :
                news' = [news EXCEPT ![s] = @ \cup N]
    BY DEF Happens, WtAlive, Living
  <2> QED BY <2>1
<1>3. /\ remote' \in [Sessions -> {"none", "connecting", "ready", "mute", "closed"}] /\ remote'[s] = x
      /\ \A r \in Sessions : r # s => remote'[r] = remote[r]
  BY <1>2 DEF WtInv, WtType
<1>4. /\ news' \in [Sessions -> SUBSET {"ready", "unready", "stream", "closed", "aborted", "unreadable"}]
      /\ news'[s] = news[s] \cup N
      /\ \A r \in Sessions : r # s => news'[r] = news[r]
  BY <1>2 DEF WtInv, WtType
<1>5. (broken => broken') /\ (wtState # "open" /\ "aborted" \in news'[s] => broken') BY DEF Happens
<1>6. s = session /\ wtState # "closed" BY <1>2 DEF WtInv, WtSessions
<1>7. WtType' BY <1>1, <1>3, <1>4 DEF WtInv, WtType
<1>8. WtSessions'
  <2>1. \A r \in Sessions : remote'[r] \in WtAlive => remote[r] \in WtAlive BY <1>2, <1>3
  <2>2. \A r \in Sessions : "closed" \in news'[r] \/ "unreadable" \in news'[r] => remote'[r] = "closed"
    <3>1. ~("closed" \in news[s]) /\ ~("unreadable" \in news[s]) BY <1>2 DEF WtInv, WtSessions, WtAlive, Living
    <3> QED BY <1>2, <1>3, <1>4, <3>1 DEF WtInv, WtSessions
  <2> QED BY <1>1, <2>1, <2>2 DEF WtInv, WtSessions
<1>9. WtByUser' BY <1>1 DEF WtInv, WtByUser
<1>a. WtToCome'
  <2> SUFFICES ASSUME wtState' = "connecting", ~broken'
               PROVE  session' # 0 /\ (remote'[session'] \in WtAlive \/ "closed" \in news'[session'])
    BY DEF WtToCome
  <2>1. s # 0 BY WtConstants
  <2>2. "aborted" \notin N BY <1>1, <1>4, <1>5
  <2>3. remote'[s] \in WtAlive \/ "closed" \in news'[s] BY <1>2, <1>3, <1>4, <2>2 DEF WtAlive, Living
  <2> QED BY <1>1, <1>6, <2>1, <2>3
<1>b. WtKeepsTrying' BY <1>1, <1>6 DEF WtKeepsTrying
<1> QED BY <1>7, <1>8, <1>9, <1>a, <1>b DEF WtInv

(* An event that is heard and changes no session: what is left of the news *)
(* keeps each end that was not yet heard, unless a retry is planned.       *)
LEMMA WtHears ==
  ASSUME WtInv, NEW s \in Sessions, NEW N \in SUBSET {"ready", "unready", "stream", "closed", "aborted", "unreadable"},
         news' = [news EXCEPT ![s] = N], "closed" \in N <=> "closed" \in news[s], "unreadable" \in N => "unreadable" \in news[s],
         UNCHANGED << wtState, session, current, writer, remote, wtByUser, wtExhausted, wtRetry, wtBeat, wtDeadline,
                      wtConnects, ghost, wtThrew >>,
         wtTimer' = wtTimer \/ wtTimer' = 0, broken => broken'
  PROVE  WtInv'
<1>1. /\ news' \in [Sessions -> SUBSET {"ready", "unready", "stream", "closed", "aborted", "unreadable"}]
      /\ \A r \in Sessions : "closed" \in news'[r] <=> "closed" \in news[r]
      /\ \A r \in Sessions : "unreadable" \in news'[r] => "unreadable" \in news[r]
  BY DEF WtInv, WtType
<1>2. WtType' BY <1>1 DEF WtInv, WtType
<1>3. WtSessions' BY <1>1 DEF WtInv, WtSessions
<1>4. WtByUser' BY DEF WtInv, WtByUser
<1>5. WtToCome' BY <1>1 DEF WtInv, WtType, WtToCome
<1>6. WtKeepsTrying' BY <1>1 DEF WtInv, WtType, WtKeepsTrying
<1> QED BY <1>2, <1>3, <1>4, <1>5, <1>6 DEF WtInv

(* ready, its rejection, and the rejection of closed.                      *)
LEMMA WtHeard == ASSUME WtInv, NEW s \in Sessions, Ready(s) \/ Unready(s) \/ AbortHeard(s) PROVE WtInv'
<1>0. news[s] \in SUBSET {"ready", "unready", "stream", "closed", "aborted", "unreadable"} BY DEF WtInv, WtType
<1>1. CASE Ready(s)
  <2> DEFINE N == IF current = s /\ wtState = "connecting" THEN (news[s] \ {"ready"}) \cup {"stream"}
                  ELSE news[s] \ {"ready"}
  <2>1. news' = [news EXCEPT ![s] = N] BY <1>1 DEF Ready
  <2>2. UNCHANGED << wtState, session, current, writer, remote, wtByUser, wtExhausted, wtRetry, wtBeat, wtDeadline,
                     wtConnects, ghost, wtThrew, wtTimer, broken >>
    BY <1>1 DEF Ready, wtLink, wtPulse, wtPast
  <2>3. /\ N \in SUBSET {"ready", "unready", "stream", "closed", "aborted", "unreadable"}
        /\ "closed" \in N <=> "closed" \in news[s]
        /\ "unreadable" \in N => "unreadable" \in news[s]
    BY <1>0
  <2> HIDE DEF N
  <2> QED BY <2>1, <2>2, <2>3, WtHears
<1>2. CASE Unready(s) \/ AbortHeard(s)
  <2>1. PICK x \in {"unready", "aborted"} : news' = [news EXCEPT ![s] = @ \ {x}]
    BY <1>2 DEF Unready, AbortHeard
  <2> DEFINE N == news[s] \ {x}
  <2>2. UNCHANGED << wtState, session, current, writer, remote, wtByUser, wtExhausted, wtRetry, wtBeat, wtDeadline,
                     wtConnects, ghost, wtThrew >>
    BY <1>2 DEF Unready, AbortHeard, wtLink, wtPulse, wtPast
  <2>3. wtTimer' = wtTimer \/ wtTimer' = 0
    BY <1>2 DEF Unready, AbortHeard, DoneWith
  <2>4. broken => broken'
    <3>1. CASE Unready(s) BY <3>1, Zenon DEF Unready
    <3>2. CASE AbortHeard(s) BY <3>2, Zenon DEF AbortHeard, wtPast
    <3> QED BY <1>2, <3>1, <3>2
  <2>5. /\ N \in SUBSET {"ready", "unready", "stream", "closed", "aborted", "unreadable"}
        /\ "closed" \in N <=> "closed" \in news[s]
        /\ "unreadable" \in N => "unreadable" \in news[s]
    BY <1>0
  <2>6. news' = [news EXCEPT ![s] = N] BY <2>1
  <2> HIDE DEF N
  <2> QED BY <2>2, <2>3, <2>4, <2>5, <2>6, WtHears
<1> QED BY <1>1, <1>2

(* The stream that was asked for.                                          *)
LEMMA WtStreamMade == ASSUME WtInv, NEW s \in Sessions, NEW how, StreamMade(s, how) PROVE WtInv'
<1>0. s # 0 /\ news[s] \in SUBSET {"ready", "unready", "stream", "closed", "aborted", "unreadable"}
  BY WtConstants DEF WtInv, WtType
<1> DEFINE N == news[s] \ {"stream"}
<1>1. /\ news' = [news EXCEPT ![s] = N]
      /\ UNCHANGED << session, current, remote, wtByUser, wtExhausted, wtRetry, wtDeadline, wtConnects, wtThrew >>
      /\ writer' = IF how = "made" /\ current = s /\ session = s THEN s ELSE writer
  BY DEF StreamMade
<1>2. /\ N \in SUBSET {"ready", "unready", "stream", "closed", "aborted", "unreadable"}
      /\ "closed" \in N <=> "closed" \in news[s]
      /\ "unreadable" \in N => "unreadable" \in news[s]
  BY <1>0
<1> HIDE DEF N
<1>3. CASE how # "refused" /\ current = s
  <2>1. /\ wtState' = "open" /\ broken' = broken /\ (ghost => ghost') /\ (session # s => ghost')
    BY <1>3 DEF StreamMade, Resumes
  <2>2. ~wtByUser BY <1>0, <1>3 DEF WtInv, WtByUser
  <2>3. /\ news' \in [Sessions -> SUBSET {"ready", "unready", "stream", "closed", "aborted", "unreadable"}]
        /\ \A r \in Sessions : "closed" \in news'[r] <=> "closed" \in news[r]
        /\ \A r \in Sessions : "unreadable" \in news'[r] => "unreadable" \in news[r]
    BY <1>1, <1>2 DEF WtInv, WtType
  <2>4. WtType' BY <1>1, <2>1, <2>3 DEF WtInv, WtType
  <2>5. WtSessions'
    <3>1. ~wtThrew' BY <1>0, <1>1, <1>3 DEF WtInv, WtSessions
    <3> QED BY <1>0, <1>1, <2>1, <2>3, <3>1 DEF WtInv, WtSessions
  <2>6. WtByUser' /\ WtToCome' /\ WtKeepsTrying' BY <1>1, <2>1, <2>2 DEF WtByUser, WtToCome, WtKeepsTrying
  <2> QED BY <2>4, <2>5, <2>6 DEF WtInv
<1>4. CASE ~(how # "refused" /\ current = s)
  <2>1. writer' = writer BY <1>1, <1>4
  <2>2. /\ UNCHANGED << wtState, wtBeat, ghost >> /\ (wtTimer' = wtTimer \/ wtTimer' = 0) /\ (broken => broken')
    BY <1>4 DEF StreamMade, Resumes, DoneWith
  <2> QED BY <1>1, <1>2, <2>1, <2>2, WtHears
<1> QED BY <1>3, <1>4

(* The connect timer.                                                      *)
LEMMA WtTimesOutKeeps == ASSUME WtInv, WtTimesOut PROVE WtInv'
<1>1. /\ wtTimer' = 0
      /\ UNCHANGED << session, current, writer, wtByUser, wtExhausted, wtRetry, wtBeat, wtDeadline, wtConnects, broken, ghost, wtThrew >>
  BY DEF WtTimesOut, wtPulse, wtPast
<1>2. CASE wtState = "open"
  <2>1. UNCHANGED << wtState, remote, news >> BY <1>2 DEF WtTimesOut, wtWorld
  <2> QED BY <1>1, <2>1 DEF WtInv, WtType, WtSessions, WtByUser, WtToCome, WtKeepsTrying
<1>3. CASE wtState # "open"
  <2>1. wtState' = "closed" /\ ClosedHere(session) BY <1>3 DEF WtTimesOut
  <2>2. WtType /\ session \in Sessions \cup {0} BY DEF WtInv, WtType
  <2>3. /\ remote' \in [Sessions -> {"none", "connecting", "ready", "mute", "closed"}]
        /\ news' \in [Sessions -> SUBSET {"ready", "unready", "stream", "closed", "aborted", "unreadable"}]
        /\ \A r \in Sessions :
              /\ remote'[r] \in WtAlive => remote[r] \in WtAlive /\ r # session
              /\ remote[r] \in WtAlive => remote'[r] \in WtAlive \/ "closed" \in news'[r]
              /\ "closed" \in news[r] => "closed" \in news'[r]
              /\ remote[r] = "closed" => remote'[r] = "closed"
              /\ "closed" \in news'[r] => "closed" \in news[r] \/ remote'[r] = "closed"
              /\ "unreadable" \in news'[r] => "unreadable" \in news[r]
    BY <2>1, <2>2, WtClosedHere
  <2>4. WtType' BY <1>1, <2>1, <2>3 DEF WtInv, WtType
  <2>5. \A r \in Sessions : remote'[r] \notin WtAlive BY <2>3 DEF WtInv, WtSessions
  <2>6. WtSessions'
    <3>1. \A r \in Sessions : "closed" \in news'[r] \/ "unreadable" \in news'[r] => remote'[r] = "closed"
      BY <2>3 DEF WtInv, WtSessions
    <3>2. writer = 0 BY <1>3 DEF WtInv, WtSessions
    <3> QED BY <1>1, <2>1, <2>5, <3>1, <3>2 DEF WtInv, WtSessions
  <2>7. WtByUser' /\ WtToCome' BY <1>1, <2>1 DEF WtInv, WtByUser, WtToCome
  <2>8. WtKeepsTrying'
    <3> SUFFICES ASSUME wtConnects > 0, ~wtByUser, ~wtExhausted, ~broken, ~ghost, ~wtThrew
                 PROVE  wtRetry \/ (current # 0 /\ "closed" \in news'[current])
      BY <1>1 DEF WtKeepsTrying
    <3>1. CASE wtState = "closed" BY <2>2, <2>3, <3>1 DEF WtInv, WtType, WtKeepsTrying
    <3>2. CASE wtState = "connecting"
      <4>1. /\ session # 0 /\ session = current /\ session \in Sessions
            /\ remote[session] \in WtAlive \/ "closed" \in news[session]
        BY <2>2, <3>2 DEF WtInv, WtToCome, WtSessions
      <4> QED BY <2>3, <2>5, <4>1
    <3> QED BY <1>3, <3>1, <3>2 DEF WtInv, WtType
  <2> QED BY <2>4, <2>6, <2>7, <2>8 DEF WtInv
<1> QED BY <1>2, <1>3

(* close().                                                                *)
LEMMA WtCloseKeeps == ASSUME WtInv, WtClose PROVE WtInv'
<1>1. /\ wtByUser' /\ current' = 0 /\ wtState' = "closed" /\ wtTimer' = 0 /\ ~wtRetry' /\ ~wtBeat' /\ ~wtDeadline'
      /\ writer' = 0 /\ session' = 0 /\ ClosedHere(session)
  BY DEF WtClose
<1>2. WtType /\ session \in Sessions \cup {0} BY DEF WtInv, WtType
<1>3. /\ remote' \in [Sessions -> {"none", "connecting", "ready", "mute", "closed"}]
      /\ news' \in [Sessions -> SUBSET {"ready", "unready", "stream", "closed", "aborted", "unreadable"}]
      /\ \A r \in Sessions :
            /\ remote'[r] \in WtAlive => remote[r] \in WtAlive /\ r # session
            /\ remote[r] = "closed" => remote'[r] = "closed"
            /\ "closed" \in news'[r] => "closed" \in news[r] \/ remote'[r] = "closed"
            /\ "unreadable" \in news'[r] => "unreadable" \in news[r]
  BY <1>1, <1>2, WtClosedHere
<1>4. WtType' BY <1>1, <1>3 DEF WtType
<1>5. \A r \in Sessions : remote'[r] \notin WtAlive BY <1>3 DEF WtInv, WtSessions
<1>6. \A r \in Sessions : "closed" \in news'[r] \/ "unreadable" \in news'[r] => remote'[r] = "closed"
  BY <1>3 DEF WtInv, WtSessions
<1>7. WtSessions' BY <1>1, <1>5, <1>6 DEF WtSessions
<1>8. WtByUser' /\ WtToCome' /\ WtKeepsTrying' BY <1>1 DEF WtByUser, WtToCome, WtKeepsTrying
<1> QED BY <1>4, <1>7, <1>8 DEF WtInv

(* The session is over, and the client knows.                              *)
LEMMA WtOver ==
  ASSUME WtInv, NEW s \in Sessions, remote[s] = "closed", current = s, WtHandleClose,
         NEW x \in {"closed", "unreadable"}, news' = [news EXCEPT ![s] = @ \ {x}],
         current' \in {0, s}, UNCHANGED << remote, wtByUser, wtConnects, broken, ghost, wtThrew >>,
         wtTimer' = wtTimer \/ wtTimer' = 0
  PROVE  WtInv'
<1>0. s # 0 /\ ~wtByUser BY WtConstants DEF WtInv, WtByUser
<1>1. /\ wtState' = "closed" /\ writer' = 0 /\ session' = 0 /\ (wtExhausted' \/ wtRetry')
  BY <1>0 DEF WtHandleClose
<1>2. /\ news' \in [Sessions -> SUBSET {"ready", "unready", "stream", "closed", "aborted", "unreadable"}]
      /\ \A r \in Sessions : "closed" \in news'[r] \/ "unreadable" \in news'[r] => "closed" \in news[r] \/ "unreadable" \in news[r]
  BY DEF WtInv, WtType
<1>3. WtType' BY <1>1, <1>2 DEF WtInv, WtType
<1>4. \A r \in Sessions : remote[r] \notin WtAlive
  <2>1. \A r \in Sessions : remote[r] \in WtAlive => r = session BY DEF WtInv, WtSessions
  <2>2. session # 0 => session = s BY <1>0 DEF WtInv, WtSessions
  <2>3. \A r \in Sessions : r # 0 BY WtConstants
  <2> QED BY <2>1, <2>2, <2>3 DEF WtAlive, Living
<1>5. WtSessions' BY <1>1, <1>2, <1>4 DEF WtInv, WtSessions
<1>6. WtByUser' /\ WtToCome' /\ WtKeepsTrying' BY <1>0, <1>1 DEF WtByUser, WtToCome, WtKeepsTrying
<1> QED BY <1>3, <1>5, <1>6 DEF WtInv

(* The end of a session is heard from its promise, or from its stream.     *)
LEMMA WtEndHeard == ASSUME WtInv, NEW s \in Sessions, ClosedHeard(s) \/ StreamFails(s) PROVE WtInv'
<1>0. news[s] \in SUBSET {"ready", "unready", "stream", "closed", "aborted", "unreadable"} BY DEF WtInv, WtType
<1>1. CASE ClosedHeard(s)
  <2>1. /\ "closed" \in news[s] /\ news' = [news EXCEPT ![s] = @ \ {"closed"}]
        /\ UNCHANGED << current, remote, wtByUser, wtConnects, broken, ghost, wtThrew >>
    BY <1>1 DEF ClosedHeard, wtPast
  <2>2. remote[s] = "closed" BY <2>1 DEF WtInv, WtSessions
  <2>3. CASE current = s
    <3>1. WtHandleClose /\ (wtTimer' = wtTimer \/ wtTimer' = 0) BY <1>1, <2>3 DEF ClosedHeard, DoneWith
    <3>2. current' \in {0, s} BY <2>1, <2>3
    <3> HIDE DEF WtHandleClose
    <3> QED BY <2>1, <2>2, <2>3, <3>1, <3>2, WtOver
  <2>4. CASE current # s
    <3>1. UNCHANGED << wtBeat, wtDeadline, wtState, writer, session, wtExhausted, wtRetry, wtTimer >>
      BY <1>1, <2>4 DEF ClosedHeard
    <3>2. /\ news' \in [Sessions -> SUBSET {"ready", "unready", "stream", "closed", "aborted", "unreadable"}]
          /\ \A r \in Sessions : r # s => news'[r] = news[r]
          /\ news'[s] = news[s] \ {"closed"}
      BY <2>1 DEF WtInv, WtType
    <3>3. wtState = "connecting" => session # s BY <2>4, WtConstants DEF WtInv, WtSessions
    <3>4. WtType' BY <2>1, <3>1, <3>2 DEF WtInv, WtType
    <3>5. WtSessions' BY <2>1, <2>2, <3>1, <3>2 DEF WtInv, WtSessions
    <3>6. WtByUser' BY <2>1, <3>1 DEF WtInv, WtByUser
    <3>7. WtToCome' BY <2>1, <3>1, <3>2, <3>3 DEF WtInv, WtType, WtToCome
    <3>8. WtKeepsTrying' BY <2>1, <2>4, <3>1, <3>2 DEF WtInv, WtType, WtKeepsTrying
    <3> QED BY <3>4, <3>5, <3>6, <3>7, <3>8 DEF WtInv
  <2> QED BY <2>3, <2>4
<1>2. CASE StreamFails(s)
  <2>1. /\ "unreadable" \in news[s] /\ news' = [news EXCEPT ![s] = @ \ {"unreadable"}]
        /\ UNCHANGED << remote, wtByUser, wtTimer, wtConnects, broken, ghost, wtThrew >>
    BY <1>2 DEF StreamFails, wtPast
  <2>2. remote[s] = "closed" BY <2>1 DEF WtInv, WtSessions
  <2>3. CASE writer = s /\ Fails(s)
    <3>1. WtHandleClose /\ current' = 0 /\ current = s BY <1>2, <2>3 DEF StreamFails, Fails
    <3>2. current' \in {0, s} BY <3>1
    <3> HIDE DEF WtHandleClose
    <3> QED BY <2>1, <2>2, <3>1, <3>2, WtOver
  <2>4. CASE ~(writer = s /\ Fails(s))
    <3> DEFINE N == news[s] \ {"unreadable"}
    <3>1. UNCHANGED << wtBeat, wtDeadline, wtState, writer, session, wtExhausted, wtRetry, current >>
      BY <1>2, <2>4 DEF StreamFails
    <3>2. /\ N \in SUBSET {"ready", "unready", "stream", "closed", "aborted", "unreadable"}
          /\ "closed" \in N <=> "closed" \in news[s]
          /\ "unreadable" \in N => "unreadable" \in news[s]
      BY <1>0
    <3>3. news' = [news EXCEPT ![s] = N] BY <2>1
    <3> HIDE DEF N
    <3> QED BY <2>1, <3>1, <3>2, <3>3, WtHears
  <2> QED BY <2>3, <2>4
<1> QED BY <1>1, <1>2

(* Heartbeats.                                                             *)
LEMMA WtBeatsKeep == ASSUME WtInv, WtBeats \/ WtPong \/ WtDeadlinePasses PROVE WtInv'
<1>1. /\ UNCHANGED << wtState, session, current, writer, wtByUser, wtExhausted, wtTimer, wtRetry, wtConnects, broken, ghost, wtThrew >>
      /\ ~wtByUser
  BY DEF WtBeats, WtPong, WtDeadlinePasses, wtLink, wtPlan, wtPast, WtInv, WtByUser
<1>2. CASE UNCHANGED << remote, news >>
  BY <1>1, <1>2 DEF WtInv, WtType, WtSessions, WtByUser, WtToCome, WtKeepsTrying
<1>3. CASE ClosedHere(session)
  <2>2. WtType /\ session \in Sessions \cup {0} BY DEF WtInv, WtType
  <2>3. /\ remote' \in [Sessions -> {"none", "connecting", "ready", "mute", "closed"}]
        /\ news' \in [Sessions -> SUBSET {"ready", "unready", "stream", "closed", "aborted", "unreadable"}]
        /\ \A r \in Sessions :
              /\ remote'[r] \in WtAlive => remote[r] \in WtAlive /\ r # session
              /\ remote[r] \in WtAlive => remote'[r] \in WtAlive \/ "closed" \in news'[r]
              /\ "closed" \in news[r] => "closed" \in news'[r]
              /\ remote[r] = "closed" => remote'[r] = "closed"
              /\ "closed" \in news'[r] => "closed" \in news[r] \/ remote'[r] = "closed"
              /\ "unreadable" \in news'[r] => "unreadable" \in news[r]
    BY <1>3, <2>2, WtClosedHere
  <2>4. WtType' BY <1>1, <2>3 DEF WtInv, WtType
  <2>5. WtSessions'
    <3>1. \A r \in Sessions : "closed" \in news'[r] \/ "unreadable" \in news'[r] => remote'[r] = "closed"
      BY <2>3 DEF WtInv, WtSessions
    <3> QED BY <1>1, <2>3, <3>1 DEF WtInv, WtSessions
  <2>6. WtByUser' BY <1>1 DEF WtByUser
  <2>7. WtToCome' BY <1>1, <2>2, <2>3 DEF WtInv, WtToCome
  <2>8. WtKeepsTrying' BY <1>1, <2>3 DEF WtInv, WtType, WtKeepsTrying
  <2> QED BY <2>4, <2>5, <2>6, <2>7, <2>8 DEF WtInv
<1> QED BY <1>1, <1>2, <1>3 DEF WtBeats, WtPong, WtDeadlinePasses, wtWorld

(* Each call, event and timer of the client.                               *)
LEMMA WtStep == ASSUME WtInv, WtNext PROVE WtInv'
<1>1. ASSUME NEW s \in Sessions, \E how \in {"made", "none", "refused"} : StreamMade(s, how) PROVE WtInv'
  BY <1>1, WtStreamMade
<1> QED BY <1>1, WtConnectKeeps, WtTimesOutKeeps, WtCloseKeeps, WtBeatsKeep, WtHappens, WtHeard, WtEndHeard DEF WtNext

-----------------------------------------------------------------------------
(***************************************************************************)
(* The WebSocket client.  As long as connect() was not called while a      *)
(* reconnect was due: only the socket in use is alive, and it is listened  *)
(* to; what is due (a retry, or a close that waits behind frames) is one   *)
(* thing, of a closed client whose socket will not report again; the       *)
(* connect timer is the one of the socket that is being opened; and every  *)
(* other timer is one of an open client.                                   *)
(***************************************************************************)
WsSteps == [what : {"frame", "close", "final"}, frame : Nat]

WsType ==
  /\ tier \in {"events", "streams"} /\ state \in {"closed", "connecting", "open"}
  /\ socket \in Sockets \cup {0} /\ (heard => socket # 0)
  /\ peer \in [Sockets -> {"none", "connecting", "open", "closing", "closed"}]
  /\ opening \in [Sockets -> {"none", "pending", "resolved", "rejected"}]
  /\ chain \in Seq(WsSteps)

\* A close that waits behind the frames being converted.
CloseWaits == \E i \in DOMAIN chain : chain[i].what # "frame"

LinkAlive ==
  \A s \in Sockets :
    /\ peer[s] = "connecting" => s = socket /\ heard /\ state = "connecting"
    /\ peer[s] = "open" => s = socket /\ heard /\ state = "open"

LinkUp ==
  /\ state # "closed" => heard /\ ~closedByUser
  /\ state # "closed" /\ tier = "events" => peer[socket] \in Alive \cup {"closing"}

LinkDue ==
  /\ retryTimer \/ CloseWaits => state = "closed" /\ (heard => peer[socket] = "closed")
  /\ \A i, j \in DOMAIN chain : chain[i].what # "frame" /\ chain[j].what # "frame" => i = j
  /\ retryTimer => ~CloseWaits

LinkTimers ==
  /\ lostTimers = {} /\ lostRetries = 0
  /\ connectTimer # 0 => connectTimer = socket /\ state = "connecting" /\ opening[socket] = "pending"

LinkByUser == closedByUser => state = "closed" /\ ~heard /\ ~retryTimer

LinkPulse ==
  /\ beat \/ deadline \/ poll => state = "open"
  /\ paused => poll
  /\ state = "open" /\ tier = "events" => poll
  /\ state = "open" => beat \/ peer[socket] # "open"

LinkParts == LinkAlive /\ LinkUp /\ LinkDue /\ LinkTimers /\ LinkByUser /\ LinkPulse /\ KeepsTrying

LinkInv == raced \/ LinkParts

\* The queue and the frames that are being flushed name each frame at most once.
OutInv ==
  /\ queue \in Seq(Frames) /\ flushing \in Seq(Frames) /\ Len(queue) <= MessageQueueSize
  /\ frame \in [Frames -> {"new", "queued", "dropped", "refused", "failed", "sent", "discarded"}]
  /\ \A i, j \in 1..Len(queue) : queue[i] = queue[j] => i = j
  /\ \A i, j \in 1..Len(flushing) : flushing[i] = flushing[j] => i = j
  /\ \A i \in 1..Len(queue), j \in 1..Len(flushing) : queue[i] # flushing[j]
  /\ \A f \in Frames : frame[f] = "queued" <=> \/ \E i \in 1..Len(queue) : queue[i] = f
                                               \/ \E i \in 1..Len(flushing) : flushing[i] = f

\* What waits on the chain came in after what was delivered, and in its order.
InInv ==
  /\ arrived \in Nat /\ wsDelivered \in Seq(Nat) /\ (chain # << >> => chained)
  /\ \A i, j \in 1..Len(wsDelivered) : i < j => wsDelivered[i] < wsDelivered[j]
  /\ \A i \in 1..Len(wsDelivered) : wsDelivered[i] <= arrived
  /\ \A i \in 1..Len(chain) : chain[i].what = "frame" =>
       /\ chain[i].frame <= arrived
       /\ \A j \in 1..Len(wsDelivered) : wsDelivered[j] < chain[i].frame
       /\ \A j \in 1..Len(chain) : i < j /\ chain[j].what = "frame" => chain[i].frame < chain[j].frame

WsInv == WsType /\ LinkInv /\ OutInv /\ InInv

(* A frame that a sequence names at most once occurs in it once or never.  *)
LEMMA OccursOnce ==
  ASSUME NEW q \in Seq(Frames), NEW f \in Frames, \A i, j \in 1..Len(q) : q[i] = q[j] => i = j
  PROVE  Occurrences(q, f) = IF \E i \in 1..Len(q) : q[i] = f THEN 1 ELSE 0
<1> DEFINE S == {i \in DOMAIN q : q[i] = f}
<1>1. CASE \E i \in 1..Len(q) : q[i] = f
  <2>1. PICK i \in 1..Len(q) : q[i] = f BY <1>1
  <2>2. S = {i} BY <2>1
  <2>3. Cardinality(S) = 1 BY <2>2, FS_Singleton
  <2> QED BY <1>1, <2>3 DEF Occurrences
<1>2. CASE ~ \E i \in 1..Len(q) : q[i] = f
  <2>1. S = {} BY <1>2
  <2>2. Cardinality(S) = 0 BY <2>1, FS_EmptySet
  <2> QED BY <1>2, <2>2 DEF Occurrences
<1> QED BY <1>1, <1>2

(* Every frame is accounted for.                                           *)
LEMMA WsAccounts == OutInv => FramesAreAccounted
<1> SUFFICES ASSUME OutInv, NEW f \in Frames
             PROVE  Occurrences(queue, f) + Occurrences(flushing, f) = IF frame[f] = "queued" THEN 1 ELSE 0
  BY DEF OutInv, FramesAreAccounted
<1>1. Occurrences(queue, f) = IF \E i \in 1..Len(queue) : queue[i] = f THEN 1 ELSE 0
  BY OccursOnce DEF OutInv
<1>2. Occurrences(flushing, f) = IF \E i \in 1..Len(flushing) : flushing[i] = f THEN 1 ELSE 0
  BY OccursOnce DEF OutInv
<1>3. ~((\E i \in 1..Len(queue) : queue[i] = f) /\ (\E i \in 1..Len(flushing) : flushing[i] = f))
  BY DEF OutInv
<1>4. frame[f] = "queued" <=> \/ \E i \in 1..Len(queue) : queue[i] = f
                              \/ \E i \in 1..Len(flushing) : flushing[i] = f
  BY DEF OutInv
<1> QED BY <1>1, <1>2, <1>3, <1>4

(* At most one socket is alive.                                            *)
LEMMA WsOneAlive == LinkAlive => Cardinality({s \in Sockets : peer[s] \in Alive}) <= 1
<1> SUFFICES ASSUME LinkAlive PROVE Cardinality({s \in Sockets : peer[s] \in Alive}) <= 1
  OBVIOUS
<1> DEFINE L == {s \in Sockets : peer[s] \in Alive}
<1>1. L \subseteq {socket} BY DEF LinkAlive, Alive
<1>2. IsFiniteSet({socket}) /\ Cardinality({socket}) = 1 BY FS_Singleton
<1>3. Cardinality(L) <= Cardinality({socket}) BY <1>1, <1>2, FS_Subset
<1> QED BY <1>2, <1>3

(* The invariant says what the client promises.                            *)
LEMMA WsKeepsPromises == WsInv => ClientIsSound
<1> SUFFICES ASSUME WsInv PROVE ClientIsSound
  OBVIOUS
<1>1. FramesAreAccounted BY WsAccounts DEF WsInv
<1>2. OneLink
  <2> SUFFICES ASSUME LinkParts PROVE OneLink
    BY DEF WsInv, LinkInv, OneLink
  <2>1. Cardinality({s \in Sockets : peer[s] \in Alive}) <= 1 BY WsOneAlive DEF LinkParts
  <2>2. closedByUser => /\ state = "closed" /\ ~retryTimer /\ connectTimer = 0
                        /\ ~beat /\ ~deadline /\ ~poll
                        /\ \A s \in Sockets : peer[s] \notin Alive
    BY DEF LinkParts, LinkByUser, LinkTimers, LinkPulse, LinkAlive, Alive
  <2>3. lostTimers = {} /\ lostRetries = 0 BY DEF LinkParts, LinkTimers
  <2> QED BY <2>1, <2>2, <2>3, Zenon DEF OneLink
<1>3. KeepsTrying BY DEF WsInv, LinkInv, LinkParts, KeepsTrying
<1>4. OpenIsWatched BY DEF WsInv, LinkInv, LinkParts, LinkPulse, OpenIsWatched, IsOpen
<1>5. InboundInOrder
  <2>1. DOMAIN wsDelivered = 1..Len(wsDelivered) BY DEF WsInv, InInv
  <2> QED BY <2>1 DEF WsInv, InInv, InboundInOrder
<1> QED BY <1>1, <1>2, <1>3, <1>4, <1>5 DEF ClientIsSound

(* The client begins without a socket, a timer or a frame.                 *)
LEMMA WsStarts == WsInit => WsInv
<1> SUFFICES ASSUME WsInit PROVE WsInv
  OBVIOUS
<1>1. 0 \notin Sockets BY ClientConstants
<1>2. WsType BY DEF WsInit, WsType
<1>3. OutInv BY ClientConstants DEF WsInit, OutInv
<1>4. InInv BY DEF WsInit, InInv
<1>5. LinkAlive /\ LinkUp /\ LinkTimers /\ LinkByUser
  BY DEF WsInit, LinkAlive, LinkUp, LinkTimers, LinkByUser
<1>6. LinkDue BY DEF WsInit, LinkDue, CloseWaits
<1>7. LinkPulse /\ KeepsTrying BY DEF WsInit, LinkPulse, KeepsTrying
<1> QED BY <1>2, <1>3, <1>4, <1>5, <1>6, <1>7 DEF WsInv, LinkInv, LinkParts

(* A step of another part.                                                 *)
LEMMA WsStands == ASSUME WsInv, UNCHANGED wsVars PROVE WsInv'
  BY DEF WsInv, WsType, LinkInv, LinkParts, LinkAlive, LinkUp, LinkDue, CloseWaits, LinkTimers, LinkByUser, LinkPulse,
         KeepsTrying, OutInv, InInv, Heard,
         wsVars, wire, plan, pulse, flowing, outbound, inbound, calls

(* The outbound side.  A step that leaves it alone.                        *)
LEMMA OutStands == ASSUME OutInv, UNCHANGED outbound PROVE OutInv'
  BY DEF OutInv, outbound

(* The flush loop takes the queue over.                                    *)
LEMMA OutFlushes == ASSUME OutInv, FlushQueue, UNCHANGED frame PROVE OutInv'
<1> DEFINE r == flushing \o queue
           m == Len(flushing)
<1>0. queue \in Seq(Frames) /\ flushing \in Seq(Frames) /\ m \in Nat BY DEF OutInv
<1>1. /\ r \in Seq(Frames) /\ Len(r) = m + Len(queue)
      /\ \A i \in 1..Len(r) : r[i] = IF i <= m THEN flushing[i] ELSE queue[i - m]
  BY <1>0
<1>2. flushing' = r /\ queue' = << >> /\ frame' = frame BY DEF FlushQueue
<1>3. \A i \in 1..Len(r) : IF i <= m THEN i \in 1..m ELSE i - m \in 1..Len(queue) BY <1>0, <1>1
<1>4. \A i \in 1..m : i \in 1..Len(r) /\ r[i] = flushing[i] BY <1>0, <1>1
<1>5. \A i \in 1..Len(queue) : m + i \in 1..Len(r) /\ r[m + i] = queue[i] BY <1>0, <1>1
<1>a. \A i, j \in 1..Len(queue) : queue[i] = queue[j] => i = j BY DEF OutInv
<1>b. \A i, j \in 1..m : flushing[i] = flushing[j] => i = j BY DEF OutInv
<1>c. \A i \in 1..Len(queue), j \in 1..m : queue[i] # flushing[j] BY DEF OutInv
<1> HIDE DEF r, m
<1>6. \A i, j \in 1..Len(r) : r[i] = r[j] => i = j
  <2> TAKE i, j \in 1..Len(r)
  <2>1. CASE i <= m /\ j <= m BY <1>1, <1>3, <1>b, <2>1
  <2>2. CASE i <= m /\ ~(j <= m) BY <1>1, <1>3, <1>c, <2>2
  <2>3. CASE ~(i <= m) /\ j <= m BY <1>1, <1>3, <1>c, <2>3
  <2>4. CASE ~(i <= m) /\ ~(j <= m)
    <3>1. r[i] = queue[i - m] /\ r[j] = queue[j - m] /\ i - m \in 1..Len(queue) /\ j - m \in 1..Len(queue)
      BY <1>1, <1>3, <2>4
    <3>2. r[i] = r[j] => i - m = j - m BY <1>a, <3>1
    <3>3. i \in Nat /\ j \in Nat BY <1>1, <1>0
    <3> QED BY <1>0, <3>2, <3>3
  <2> QED BY <2>1, <2>2, <2>3, <2>4
<1>7. \A f \in Frames : (\E i \in 1..Len(r) : r[i] = f) <=> \/ \E i \in 1..Len(queue) : queue[i] = f
                                                            \/ \E i \in 1..m : flushing[i] = f
  <2> TAKE f \in Frames
  <2>1. ASSUME NEW i \in 1..Len(r), r[i] = f
        PROVE  (\E k \in 1..Len(queue) : queue[k] = f) \/ (\E k \in 1..m : flushing[k] = f)
    BY <1>1, <1>3, <2>1
  <2>2. ASSUME NEW i \in 1..Len(queue), queue[i] = f PROVE \E k \in 1..Len(r) : r[k] = f BY <1>5, <2>2
  <2>3. ASSUME NEW i \in 1..m, flushing[i] = f PROVE \E k \in 1..Len(r) : r[k] = f BY <1>4, <2>3
  <2> QED BY <2>1, <2>2, <2>3
<1>8. queue' \in Seq(Frames) /\ Len(queue') = 0 BY <1>2
<1>9. Len(queue') <= MessageQueueSize BY <1>8, ClientConstants
<1>10. flushing' \in Seq(Frames) BY <1>1, <1>2
<1>11. \A f \in Frames : frame'[f] = "queued" <=> \/ \E i \in 1..Len(queue') : queue'[i] = f
                                                  \/ \E i \in 1..Len(flushing') : flushing'[i] = f
  BY <1>2, <1>7, <1>8 DEF OutInv, m
<1> QED BY <1>2, <1>6, <1>8, <1>9, <1>10, <1>11 DEF OutInv

(* What the queue held is discarded by close().                            *)
LEMMA OutCloses ==
  ASSUME OutInv, queue' = << >>, UNCHANGED flushing,
         frame' = [f \in Frames |-> IF \E i \in DOMAIN queue : queue[i] = f THEN "discarded" ELSE frame[f]]
  PROVE  OutInv'
<1>0. queue \in Seq(Frames) /\ DOMAIN queue = 1..Len(queue) BY DEF OutInv
<1>1. queue' \in Seq(Frames) /\ Len(queue') = 0 OBVIOUS
<1>2. Len(queue') <= MessageQueueSize BY <1>1, ClientConstants
<1>3. frame' \in [Frames -> {"new", "queued", "dropped", "refused", "failed", "sent", "discarded"}] BY DEF OutInv
<1>4. \A f \in Frames : frame'[f] = "queued" <=> \E i \in 1..Len(flushing) : flushing[i] = f
  BY <1>0, SMTT(60) DEF OutInv
<1> QED BY <1>1, <1>2, <1>3, <1>4 DEF OutInv

(* A frame that is in neither place is sent, refused, lost or queued.      *)
LEMMA OutTransmits ==
  ASSUME OutInv, NEW f \in Frames, NEW fails, Transmit(f, fails),
         \A i \in 1..Len(queue) : queue[i] # f,
         flushing' \in Seq(Frames), \A i, j \in 1..Len(flushing') : flushing'[i] = flushing'[j] => i = j,
         \A i \in 1..Len(flushing') : flushing'[i] # f,
         \A i \in 1..Len(queue), j \in 1..Len(flushing') : queue[i] # flushing'[j],
         \A g \in Frames : g # f => (frame[g] = "queued" <=> \/ \E i \in 1..Len(queue) : queue[i] = g
                                                             \/ \E i \in 1..Len(flushing') : flushing'[i] = g)
  PROVE  OutInv'
<1> DEFINE fates == {"new", "queued", "dropped", "refused", "failed", "sent", "discarded"}
<1>0. queue \in Seq(Frames) /\ Len(queue) <= MessageQueueSize /\ frame \in [Frames -> fates] BY DEF OutInv
<1>a. \A i, j \in 1..Len(queue) : queue[i] = queue[j] => i = j BY DEF OutInv
<1>1. CASE \E how \in {"refused", "dropped", "failed", "sent"} : NotSent(f, how)
  <2>1. PICK how \in {"refused", "dropped", "failed", "sent"} : NotSent(f, how) BY <1>1
  <2>2. queue' = queue /\ frame' \in [Frames -> fates] BY <1>0, <2>1 DEF NotSent
  <2>3. \A g \in Frames : frame'[g] = IF g = f THEN how ELSE frame[g] BY <1>0, <2>1 DEF NotSent
  <2>4. \A g \in Frames : frame'[g] = "queued" <=> \/ \E i \in 1..Len(queue) : queue[i] = g
                                                   \/ \E i \in 1..Len(flushing') : flushing'[i] = g
    BY <2>1, <2>3
  <2> QED BY <2>2, <2>4, SMTT(60) DEF OutInv
<1>2. CASE Requeued(f) /\ MessageQueueSize > 0
  <2> DEFINE full == Len(queue) >= MessageQueueSize
             q == IF full THEN Tail(queue) ELSE queue
             d == IF full THEN 1 ELSE 0
  <2>0. MessageQueueSize \in Nat /\ Len(queue) \in Nat BY <1>0, ClientConstants
  <2>1. queue' = Append(q, f) BY <1>2 DEF Requeued
  <2>2. \A g \in Frames : frame'[g] = IF g = f THEN "queued"
                                      ELSE IF full /\ g = Head(queue) THEN "dropped" ELSE frame[g]
    BY <1>2 DEF Requeued
  <2>3. frame' \in [Frames -> fates] BY <1>0, <1>2 DEF Requeued
  <2>4. /\ q \in Seq(Frames) /\ Len(q) = Len(queue) - d /\ Len(q) < MessageQueueSize
        /\ \A i \in 1..Len(q) : q[i] = queue[i + d] /\ i + d \in 1..Len(queue)
        /\ full => Len(queue) > 0 /\ Head(queue) = queue[1]
    BY <1>0, <1>2, <2>0
  <2>5. d \in {0, 1} OBVIOUS
  <2>6. \A k \in 1..Len(queue) : k > d => k - d \in 1..Len(q) /\ q[k - d] = queue[k] BY <1>0, <2>0, <2>4, <2>5
  <2>7. full <=> d = 1 OBVIOUS
  <2> HIDE DEF q, d, full
  <2>8. /\ queue' \in Seq(Frames) /\ Len(queue') = Len(q) + 1 /\ Len(queue') <= MessageQueueSize
        /\ \A i \in 1..Len(queue') : queue'[i] = IF i <= Len(q) THEN q[i] ELSE f
        /\ \A i \in 1..Len(queue') : i <= Len(q) => i \in 1..Len(q)
        /\ \A i \in 1..Len(queue') : ~(i <= Len(q)) => i = Len(q) + 1
    BY <2>0, <2>1, <2>4
  <2>9. \A i \in 1..Len(q) : q[i] # f BY <2>4
  <2>10. \A i, j \in 1..Len(queue') : queue'[i] = queue'[j] => i = j
    <3> TAKE i, j \in 1..Len(queue')
    <3>1. CASE i <= Len(q) /\ j <= Len(q)
      <4>1. queue'[i] = queue[i + d] /\ queue'[j] = queue[j + d] /\ i + d \in 1..Len(queue) /\ j + d \in 1..Len(queue)
        BY <2>4, <2>8, <3>1
      <4>2. queue'[i] = queue'[j] => i + d = j + d BY <1>a, <4>1
      <4>3. i \in Nat /\ j \in Nat BY <2>8
      <4> QED BY <2>5, <4>2, <4>3
    <3>2. CASE ~(i <= Len(q)) /\ j <= Len(q) BY <2>8, <2>9, <3>2
    <3>3. CASE i <= Len(q) /\ ~(j <= Len(q)) BY <2>8, <2>9, <3>3
    <3>4. CASE ~(i <= Len(q)) /\ ~(j <= Len(q)) BY <2>8, <3>4
    <3> QED BY <3>1, <3>2, <3>3, <3>4
  <2>11. \A i \in 1..Len(queue'), j \in 1..Len(flushing') : queue'[i] # flushing'[j] BY <2>4, <2>8
  <2>12. ASSUME NEW g \in Frames
         PROVE  frame'[g] = "queued" <=> \/ \E i \in 1..Len(queue') : queue'[i] = g
                                         \/ \E i \in 1..Len(flushing') : flushing'[i] = g
    <3>1. CASE g = f
      <4>1. Len(q) \in Nat BY <2>4
      <4>2. Len(q) + 1 \in 1..Len(queue') /\ ~(Len(q) + 1 <= Len(q)) BY <2>8, <4>1
      <4>3. queue'[Len(q) + 1] = f BY <2>8, <4>2
      <4> QED BY <2>2, <3>1, <4>2, <4>3
    <3>2. CASE g # f /\ full /\ g = Head(queue)
      <4>1. g = queue[1] /\ 1 \in 1..Len(queue) BY <2>0, <2>4, <3>2
      <4>2. \A i \in 1..Len(q) : q[i] # g
        <5> TAKE i \in 1..Len(q)
        <5>1. q[i] = queue[i + 1] /\ i + 1 \in 1..Len(queue) BY <2>4, <2>7, <3>2
        <5>2. i + 1 # 1 BY <2>4
        <5> QED BY <4>1, <5>1, <5>2 DEF OutInv
      <4>3. \A i \in 1..Len(queue') : queue'[i] # g BY <2>8, <3>2, <4>2
      <4>4. \A i \in 1..Len(flushing') : flushing'[i] # g BY <4>1
      <4>5. frame'[g] = "dropped" BY <2>2, <3>2
      <4> QED BY <4>3, <4>4, <4>5
    <3>3. CASE g # f /\ ~(full /\ g = Head(queue))
      <4>1. frame'[g] = frame[g] BY <2>2, <3>3
      <4>2. ASSUME NEW k \in 1..Len(queue), queue[k] = g PROVE \E i \in 1..Len(queue') : queue'[i] = g
        <5>1. k > d BY <2>0, <2>4, <2>5, <2>7, <3>3, <4>2
        <5>2. k - d \in 1..Len(q) /\ q[k - d] = g BY <2>6, <4>2, <5>1
        <5>3. \A i \in 1..Len(q) : i \in 1..Len(queue') /\ i <= Len(q) BY <2>4, <2>8
        <5> QED BY <2>8, <5>2, <5>3
      <4>3. ASSUME NEW i \in 1..Len(queue'), queue'[i] = g PROVE \E k \in 1..Len(queue) : queue[k] = g
        <5>1. i \in 1..Len(q) /\ q[i] = g BY <2>8, <3>3, <4>3
        <5> QED BY <2>4, <5>1
      <4>4. (\E i \in 1..Len(queue') : queue'[i] = g) <=> \E k \in 1..Len(queue) : queue[k] = g BY <4>2, <4>3
      <4> QED BY <3>3, <4>1, <4>4
    <3> QED BY <3>1, <3>2, <3>3
  <2> QED BY <2>3, <2>8, <2>10, <2>11, <2>12 DEF OutInv
<1>3. (\E how \in {"refused", "dropped", "failed", "sent"} : NotSent(f, how)) \/ (Requeued(f) /\ MessageQueueSize > 0)
  BY DEF Transmit
<1> QED BY <1>1, <1>2, <1>3

(* send(), and a round of the flush loop.                                  *)
LEMMA OutSends == ASSUME OutInv, NEW f \in Frames, NEW fails, Send(f, fails) PROVE OutInv'
<1>1. Transmit(f, fails) /\ frame[f] = "new" /\ flushing' = flushing BY DEF Send
<1>2. (\A i \in 1..Len(queue) : queue[i] # f) /\ (\A i \in 1..Len(flushing) : flushing[i] # f) BY <1>1 DEF OutInv
<1>3. /\ flushing' \in Seq(Frames) /\ \A i, j \in 1..Len(flushing') : flushing'[i] = flushing'[j] => i = j
      /\ \A i \in 1..Len(flushing') : flushing'[i] # f
      /\ \A i \in 1..Len(queue), j \in 1..Len(flushing') : queue[i] # flushing'[j]
  BY <1>1, <1>2 DEF OutInv
<1>4. \A g \in Frames : frame[g] = "queued" <=> \/ \E i \in 1..Len(queue) : queue[i] = g
                                                \/ \E i \in 1..Len(flushing') : flushing'[i] = g
  BY <1>1 DEF OutInv
<1> QED BY <1>1, <1>2, <1>3, <1>4, OutTransmits

(* A round of the flush loop.                                              *)
LEMMA OutFlushesNext == ASSUME OutInv, NEW fails, FlushNext(fails) PROVE OutInv'
<1> DEFINE f == Head(flushing)
<1>0. flushing \in Seq(Frames) /\ flushing # << >> /\ queue \in Seq(Frames) BY DEF OutInv, FlushNext
<1>1. Transmit(f, fails) /\ flushing' = Tail(flushing) BY DEF FlushNext
<1>2. /\ flushing' \in Seq(Frames) /\ Len(flushing') = Len(flushing) - 1 /\ Len(flushing) \in Nat \ {0}
      /\ f = flushing[1] /\ f \in Frames
      /\ \A i \in 1..Len(flushing') : flushing'[i] = flushing[i + 1] /\ i + 1 \in 1..Len(flushing) /\ i \in Nat \ {0}
      /\ \A k \in 1..Len(flushing) : k # 1 => k - 1 \in 1..Len(flushing') /\ flushing'[k - 1] = flushing[k]
      /\ 1 \in 1..Len(flushing)
  BY <1>0, <1>1
<1> HIDE DEF f
<1>3. \A i \in 1..Len(queue) : queue[i] # f BY <1>2 DEF OutInv
<1>4. \A i, j \in 1..Len(flushing') : flushing'[i] = flushing'[j] => i = j
  <2> TAKE i, j \in 1..Len(flushing')
  <2>1. flushing'[i] = flushing'[j] => i + 1 = j + 1 BY <1>2 DEF OutInv
  <2>2. i \in Nat /\ j \in Nat BY <1>2
  <2> QED BY <2>1, <2>2
<1>5. \A i \in 1..Len(flushing') : flushing'[i] # f
  <2> TAKE i \in 1..Len(flushing')
  <2>1. i + 1 # 1 BY <1>2
  <2> QED BY <1>2, <2>1 DEF OutInv
<1>6. \A i \in 1..Len(queue), j \in 1..Len(flushing') : queue[i] # flushing'[j] BY <1>2 DEF OutInv
<1>7. \A g \in Frames : g # f => ((\E i \in 1..Len(flushing') : flushing'[i] = g) <=>
                                  \E i \in 1..Len(flushing) : flushing[i] = g)
  <2> TAKE g \in Frames
  <2>1. ASSUME NEW i \in 1..Len(flushing'), flushing'[i] = g PROVE \E k \in 1..Len(flushing) : flushing[k] = g
    BY <1>2, <2>1
  <2>2. ASSUME g # f, NEW k \in 1..Len(flushing), flushing[k] = g PROVE \E i \in 1..Len(flushing') : flushing'[i] = g
    BY <1>2, <2>2
  <2> QED BY <2>1, <2>2
<1>8. \A g \in Frames : g # f => (frame[g] = "queued" <=> \/ \E i \in 1..Len(queue) : queue[i] = g
                                                          \/ \E i \in 1..Len(flushing') : flushing'[i] = g)
  BY <1>7 DEF OutInv
<1> QED BY <1>1, <1>2, <1>3, <1>4, <1>5, <1>6, <1>8, OutTransmits

(* One more at the end of a sequence.                                      *)
LEMMA Appended ==
  ASSUME NEW S, NEW q \in Seq(S), NEW e \in S
  PROVE  /\ Append(q, e) \in Seq(S) /\ Len(Append(q, e)) = Len(q) + 1 /\ Len(q) \in Nat
         /\ \A i \in 1..Len(Append(q, e)) : Append(q, e)[i] = IF i <= Len(q) THEN q[i] ELSE e
         /\ \A i \in 1..Len(Append(q, e)) : IF i <= Len(q) THEN i \in 1..Len(q) ELSE i = Len(q) + 1
  OBVIOUS

(* The inbound side.  A step that leaves it alone.                         *)
LEMMA InStands == ASSUME InInv, UNCHANGED inbound PROVE InInv'
  BY DEF InInv, inbound

(* A close joins the chain.                                                *)
LEMMA InCloseJoins ==
  ASSUME InInv, chain \in Seq(WsSteps), NEW retryable, chained, chain' = Append(chain, Closing(retryable)),
         UNCHANGED << chained, arrived, wsDelivered >>
  PROVE  InInv' /\ chain' \in Seq(WsSteps)
<1> DEFINE c == Closing(retryable)
<1>0. chain' = Append(chain, c) OBVIOUS
<1>1. c \in WsSteps /\ c.what # "frame" BY DEF Closing, WsSteps
<1> HIDE DEF c
<1>2. /\ chain' \in Seq(WsSteps) /\ Len(chain') = Len(chain) + 1
      /\ \A i \in 1..Len(chain') : chain'[i] = IF i <= Len(chain) THEN chain[i] ELSE c
      /\ \A i \in 1..Len(chain') : IF i <= Len(chain) THEN i \in 1..Len(chain) ELSE i = Len(chain) + 1
  BY <1>0, <1>1, Appended
<1>3. \A i \in 1..Len(chain') : chain'[i].what = "frame" => i \in 1..Len(chain) /\ chain'[i] = chain[i]
  BY <1>1, <1>2
<1>4. \A i \in 1..Len(chain') : chain'[i].what = "frame" =>
        /\ chain'[i].frame <= arrived
        /\ \A j \in 1..Len(wsDelivered) : wsDelivered[j] < chain'[i].frame
        /\ \A j \in 1..Len(chain') : i < j /\ chain'[j].what = "frame" => chain'[i].frame < chain'[j].frame
  <2> SUFFICES ASSUME NEW i \in 1..Len(chain'), chain'[i].what = "frame"
               PROVE  /\ chain[i].frame <= arrived
                      /\ \A j \in 1..Len(wsDelivered) : wsDelivered[j] < chain[i].frame
                      /\ \A j \in 1..Len(chain') : i < j /\ chain'[j].what = "frame" => chain[i].frame < chain[j].frame
    BY <1>3
  <2> QED BY <1>3 DEF InInv
<1> QED BY <1>2, <1>4 DEF InInv

(* The step at the head of the chain leaves it.                            *)
LEMMA ChainMoves ==
  ASSUME chain \in Seq(WsSteps), chain # << >>, chain' = Tail(chain)
  PROVE  /\ chain' \in Seq(WsSteps) /\ Len(chain') = Len(chain) - 1 /\ Len(chain) \in Nat \ {0}
         /\ Head(chain) = chain[1] /\ 1 \in 1..Len(chain) /\ Head(chain) \in WsSteps
         /\ \A i \in 1..Len(chain') : chain'[i] = chain[i + 1] /\ i + 1 \in 1..Len(chain) /\ i \in Nat \ {0}
         /\ \A k \in 1..Len(chain) : k # 1 => k - 1 \in 1..Len(chain') /\ chain'[k - 1] = chain[k]
  OBVIOUS

(* A frame is delivered, or dropped, or a close is announced.              *)
LEMMA InChainMoves ==
  ASSUME InInv, chain \in Seq(WsSteps), chain # << >>, chain' = Tail(chain), UNCHANGED << chained, arrived >>,
         \/ wsDelivered' = wsDelivered
         \/ Head(chain).what = "frame" /\ wsDelivered' = Append(wsDelivered, Head(chain).frame)
  PROVE  InInv'
<1>1. /\ chain' \in Seq(WsSteps) /\ Len(chain') = Len(chain) - 1 /\ Len(chain) \in Nat \ {0}
      /\ Head(chain) = chain[1] /\ 1 \in 1..Len(chain) /\ Head(chain) \in WsSteps
      /\ \A i \in 1..Len(chain') : chain'[i] = chain[i + 1] /\ i + 1 \in 1..Len(chain) /\ i \in Nat \ {0}
  BY ChainMoves
<1> DEFINE rests == \A i \in 1..Len(chain') : chain'[i].what = "frame" =>
             /\ chain'[i].frame <= arrived
             /\ \A j \in 1..Len(wsDelivered) : wsDelivered[j] < chain'[i].frame
             /\ \A j \in 1..Len(chain') : i < j /\ chain'[j].what = "frame" => chain'[i].frame < chain'[j].frame
<1>2. rests
  <2> SUFFICES ASSUME NEW i \in 1..Len(chain'), chain'[i].what = "frame"
               PROVE  /\ chain'[i].frame <= arrived
                      /\ \A j \in 1..Len(wsDelivered) : wsDelivered[j] < chain'[i].frame
                      /\ \A j \in 1..Len(chain') : i < j /\ chain'[j].what = "frame" => chain'[i].frame < chain'[j].frame
    OBVIOUS
  <2>1. chain'[i] = chain[i + 1] /\ i + 1 \in 1..Len(chain) /\ chain[i + 1].what = "frame" BY <1>1
  <2>2. ASSUME NEW j \in 1..Len(chain'), i < j, chain'[j].what = "frame" PROVE chain'[i].frame < chain'[j].frame
    <3>1. chain'[j] = chain[j + 1] /\ j + 1 \in 1..Len(chain) BY <1>1
    <3>2. i + 1 < j + 1 BY <1>1, <2>2
    <3> QED BY <2>1, <2>2, <3>1, <3>2 DEF InInv
  <2>3. chain'[i].frame <= arrived /\ \A j \in 1..Len(wsDelivered) : wsDelivered[j] < chain'[i].frame
    BY <2>1 DEF InInv
  <2> QED BY <2>2, <2>3
<1>3. chain' # << >> => chained' BY DEF InInv
<1>4. CASE wsDelivered' = wsDelivered BY <1>2, <1>3, <1>4 DEF InInv
<1>5. CASE Head(chain).what = "frame" /\ wsDelivered' = Append(wsDelivered, Head(chain).frame)
  <2> DEFINE n == Head(chain).frame
             d == Append(wsDelivered, n)
  <2>1. n = chain[1].frame /\ n \in Nat /\ chain[1].what = "frame" BY <1>1, <1>5 DEF WsSteps
  <2>2. n <= arrived /\ \A j \in 1..Len(wsDelivered) : wsDelivered[j] < n BY <1>1, <2>1 DEF InInv
  <2>3. wsDelivered \in Seq(Nat) BY DEF InInv
  <2>4. /\ d \in Seq(Nat) /\ Len(d) = Len(wsDelivered) + 1
        /\ \A i \in 1..Len(d) : d[i] = IF i <= Len(wsDelivered) THEN wsDelivered[i] ELSE n
        /\ \A i \in 1..Len(d) : IF i <= Len(wsDelivered) THEN i \in 1..Len(wsDelivered) ELSE i = Len(wsDelivered) + 1
    BY <2>1, <2>3
  <2>5. \A i \in 1..Len(chain') : chain'[i].what = "frame" => n < chain'[i].frame
    <3> TAKE i \in 1..Len(chain')
    <3>1. chain'[i] = chain[i + 1] /\ i + 1 \in 1..Len(chain) /\ 1 < i + 1 BY <1>1
    <3> QED BY <1>1, <2>1, <3>1 DEF InInv
  <2>6. wsDelivered' = d BY <1>5
  <2> HIDE DEF n, d
  <2>7. \A i, j \in 1..Len(d) : i < j => d[i] < d[j]
    <3> SUFFICES ASSUME NEW i \in 1..Len(d), NEW j \in 1..Len(d), i < j PROVE d[i] < d[j]
      OBVIOUS
    <3>0. i \in 1..Len(wsDelivered) /\ d[i] = wsDelivered[i] BY <2>3, <2>4
    <3>1. CASE j <= Len(wsDelivered) BY <2>4, <3>0, <3>1 DEF InInv
    <3>2. CASE ~(j <= Len(wsDelivered)) BY <2>2, <2>4, <3>0, <3>2
    <3> QED BY <3>1, <3>2
  <2>8. \A i \in 1..Len(d) : d[i] <= arrived BY <2>2, <2>4 DEF InInv
  <2>9. \A i \in 1..Len(chain') : chain'[i].what = "frame" => \A j \in 1..Len(d) : d[j] < chain'[i].frame
    BY <1>2, <2>4, <2>5
  <2> QED BY <1>2, <1>3, <2>4, <2>6, <2>7, <2>8, <2>9 DEF InInv
<1> QED BY <1>4, <1>5

(* A frame comes in: it is newer than all the others.                      *)
LEMMA InArrives ==
  ASSUME InInv, chain \in Seq(WsSteps), NEW blob \in BOOLEAN, Arrives(blob)
  PROVE  InInv' /\ chain' \in Seq(WsSteps)
<1> DEFINE n == arrived + 1
<1>1. arrived \in Nat /\ wsDelivered \in Seq(Nat) BY DEF InInv
<1>2. n \in Nat /\ arrived' = n /\ arrived < n BY <1>1 DEF Arrives
<1> HIDE DEF n
<1>3. CASE Joins(blob)
  <2> DEFINE c == Delivery(n)
  <2>1. c \in WsSteps /\ c.frame = n /\ c.what = "frame" BY <1>2 DEF Delivery, WsSteps
  <2>2. chain' = Append(chain, c) /\ chained' /\ wsDelivered' = wsDelivered BY <1>3 DEF Arrives, n
  <2> HIDE DEF c
  <2>3. /\ chain' \in Seq(WsSteps) /\ Len(chain') = Len(chain) + 1
        /\ \A i \in 1..Len(chain') : chain'[i] = IF i <= Len(chain) THEN chain[i] ELSE c
        /\ \A i \in 1..Len(chain') : IF i <= Len(chain) THEN i \in 1..Len(chain) ELSE i = Len(chain) + 1
        /\ Len(chain) \in Nat
    BY <2>1, <2>2, Appended
  <2>a. \A i \in 1..Len(chain) : chain[i].frame \in Nat
    <3> TAKE i \in 1..Len(chain)
    <3>1. chain[i] \in WsSteps OBVIOUS
    <3> QED BY <3>1 DEF WsSteps
  <2>4. \A i \in 1..Len(chain) : chain[i].what = "frame" => chain[i].frame < n BY <1>1, <1>2, <2>a DEF InInv
  <2>5. \A i \in 1..Len(wsDelivered) : wsDelivered[i] < n
    <3> TAKE i \in 1..Len(wsDelivered)
    <3>1. wsDelivered[i] \in Nat BY <1>1
    <3> QED BY <1>1, <1>2, <3>1 DEF InInv
  <2>6. ASSUME NEW i \in 1..Len(chain'), chain'[i].what = "frame"
        PROVE  /\ chain'[i].frame <= n
               /\ \A j \in 1..Len(wsDelivered) : wsDelivered[j] < chain'[i].frame
               /\ \A j \in 1..Len(chain') : i < j /\ chain'[j].what = "frame" => chain'[i].frame < chain'[j].frame
    <3>1. CASE i <= Len(chain)
      <4>1. i \in 1..Len(chain) /\ chain'[i] = chain[i] BY <2>3, <3>1
      <4>2. chain[i].frame < n /\ chain[i].frame \in Nat BY <2>a, <2>4, <2>6, <4>1
      <4>3. \A j \in 1..Len(wsDelivered) : wsDelivered[j] < chain[i].frame BY <2>6, <4>1 DEF InInv
      <4>4. ASSUME NEW j \in 1..Len(chain'), i < j, chain'[j].what = "frame" PROVE chain[i].frame < chain'[j].frame
        <5>1. CASE j <= Len(chain)
          <6>1. j \in 1..Len(chain) /\ chain'[j] = chain[j] BY <2>3, <5>1
          <6> QED BY <2>6, <4>1, <4>4, <6>1 DEF InInv
        <5>2. CASE ~(j <= Len(chain)) BY <2>1, <2>3, <4>2, <5>2
        <5> QED BY <5>1, <5>2
      <4> QED BY <1>2, <4>1, <4>2, <4>3, <4>4
    <3>2. CASE ~(i <= Len(chain))
      <4>1. chain'[i] = c /\ i = Len(chain) + 1 BY <2>3, <3>2
      <4>2. \A j \in 1..Len(chain') : ~(i < j) BY <2>3, <4>1
      <4> QED BY <1>2, <2>1, <2>5, <4>1, <4>2
    <3> QED BY <3>1, <3>2
  <2>7. \A i \in 1..Len(wsDelivered) : wsDelivered[i] <= n
    <3> TAKE i \in 1..Len(wsDelivered)
    <3>1. wsDelivered[i] \in Nat BY <1>1
    <3> QED BY <1>2, <2>5, <3>1
  <2> QED BY <1>1, <1>2, <2>2, <2>3, <2>6, <2>7 DEF InInv
<1>4. CASE ~Joins(blob)
  <2> DEFINE d == Append(wsDelivered, n)
  <2>1. wsDelivered' = d /\ chain' = chain /\ chained' = chained /\ chain = << >> BY <1>4 DEF Arrives, Joins, InInv, n
  <2>2. /\ d \in Seq(Nat) /\ Len(d) = Len(wsDelivered) + 1
        /\ \A i \in 1..Len(d) : d[i] = IF i <= Len(wsDelivered) THEN wsDelivered[i] ELSE n
        /\ \A i \in 1..Len(d) : IF i <= Len(wsDelivered) THEN i \in 1..Len(wsDelivered) ELSE i = Len(wsDelivered) + 1
    BY <1>1, <1>2
  <2> HIDE DEF d
  <2>3. \A i \in 1..Len(wsDelivered) : wsDelivered[i] < n /\ wsDelivered[i] \in Nat
    <3> TAKE i \in 1..Len(wsDelivered)
    <3>1. wsDelivered[i] \in Nat BY <1>1
    <3>2. wsDelivered[i] <= arrived BY DEF InInv
    <3> QED BY <1>1, <1>2, <3>1, <3>2
  <2>4. ASSUME NEW i \in 1..Len(d), NEW j \in 1..Len(d), i < j PROVE d[i] < d[j]
    <3>0. i \in 1..Len(wsDelivered) /\ d[i] = wsDelivered[i] BY <1>1, <2>2, <2>4
    <3>1. CASE j <= Len(wsDelivered) BY <2>2, <2>4, <3>0, <3>1 DEF InInv
    <3>2. CASE ~(j <= Len(wsDelivered)) BY <2>2, <2>3, <3>0, <3>2
    <3> QED BY <3>1, <3>2
  <2>5. \A i \in 1..Len(d) : d[i] <= n
    <3> TAKE i \in 1..Len(d)
    <3>1. CASE i <= Len(wsDelivered) BY <1>2, <2>2, <2>3, <3>1, SMTT(60)
    <3>2. CASE ~(i <= Len(wsDelivered)) BY <1>2, <2>2, <3>2
    <3> QED BY <3>1, <3>2
  <2>6. Len(chain) = 0 BY <2>1
  <2> QED BY <1>2, <2>1, <2>2, <2>4, <2>5, <2>6 DEF InInv
<1> QED BY <1>3, <1>4

(* The link.  A new socket, when no other is alive or to be retried.       *)
LEMMA LinkOpens ==
  ASSUME WsType, LinkParts, Open, state = "closed", ~CloseWaits, ~closedByUser', ~retryTimer', lostRetries' = 0,
         UNCHANGED << tier, chain, beat, deadline, paused, poll >>
  PROVE  LinkParts'
<1>a. ~CloseWaits' BY DEF CloseWaits
<1>b. CASE SocketThrows
  <2>1. /\ state' = "closed" /\ ~heard' /\ connectTimer' = 0 /\ wsThrew'
        /\ UNCHANGED << socket, peer, opening, lostTimers >>
    BY <1>b DEF SocketThrows
  <2>2. LinkAlive' /\ LinkUp' BY <2>1 DEF LinkParts, LinkAlive, LinkUp
  <2>3. LinkDue' BY <1>a, <2>1 DEF LinkParts, LinkDue
  <2>4. LinkTimers' /\ LinkByUser' BY <2>1 DEF LinkParts, LinkTimers, LinkByUser
  <2>5. LinkPulse' BY <2>1 DEF LinkParts, LinkPulse
  <2>6. KeepsTrying' BY <2>1 DEF KeepsTrying
  <2> QED BY <2>2, <2>3, <2>4, <2>5, <2>6 DEF LinkParts
<1> SUFFICES ASSUME SocketMade PROVE LinkParts'
  BY <1>b DEF Open
<1>1. PICK s \in Sockets :
        /\ state' = "connecting" /\ socket' = s /\ heard' = TRUE
        /\ peer' = [peer EXCEPT ![s] = "connecting"]
        /\ opening' = [opening EXCEPT ![s] = "pending"]
        /\ connectTimer' = s
        /\ lostTimers' = IF connectTimer = 0 THEN lostTimers ELSE lostTimers \cup {connectTimer}
  BY DEF SocketMade
<1>2. peer'[s] = "connecting" /\ opening'[s] = "pending" BY <1>1 DEF WsType
<1>3. LinkAlive' BY <1>1 DEF LinkParts, LinkAlive, WsType
<1>4. LinkUp' BY <1>1, <1>2 DEF LinkUp, Alive
<1>6. LinkDue' BY <1>1, <1>a DEF LinkParts, LinkDue
<1>7. LinkTimers' BY <1>1, <1>2 DEF LinkParts, LinkTimers
<1>8. LinkByUser' BY <1>1 DEF LinkByUser
<1>9. LinkPulse' BY <1>1 DEF LinkParts, LinkPulse
<1>10. KeepsTrying' BY <1>1 DEF KeepsTrying
<1> QED BY <1>3, <1>4, <1>6, <1>7, <1>8, <1>9, <1>10 DEF LinkParts

(* The types of a client that opens a socket.                              *)
LEMMA WsTypeOpens == ASSUME WsType, Open, UNCHANGED << tier, chain >> PROVE WsType'
<1>1. CASE SocketMade BY <1>1, ClientConstants DEF WsType, SocketMade
<1>2. CASE SocketThrows BY <1>2 DEF WsType, SocketThrows
<1> QED BY <1>1, <1>2 DEF Open

(* connect()                                                               *)
LEMMA LinkConnects == ASSUME WsType, LinkInv, Connect PROVE WsType' /\ LinkInv'
<1>1. UNCHANGED << tier, chain, beat, deadline, paused, poll >>
  BY DEF Connect, pulse, flowing, inbound
<1>2. WsType' BY <1>1, WsTypeOpens DEF Connect
<1> SUFFICES ASSUME ~raced' PROVE LinkParts'
  BY <1>2 DEF LinkInv
<1>3. ~raced /\ ~retryTimer /\ ~(lostRetries > 0) /\ chain = << >> BY DEF Connect
<1>4. LinkParts BY <1>3 DEF LinkInv
<1>5. ~CloseWaits BY <1>3 DEF CloseWaits
<1>6. ~closedByUser' /\ ~retryTimer' /\ lostRetries' = 0 BY <1>3, <1>4 DEF Connect, LinkParts, LinkTimers
<1> QED BY <1>1, <1>4, <1>5, <1>6, LinkOpens DEF Connect

(* A reconnect timer fires.                                                *)
LEMMA LinkRetries == ASSUME WsType, LinkInv, RetryFires PROVE WsType' /\ LinkInv'
<1>1. UNCHANGED << tier, chain, beat, deadline, paused, poll, closedByUser, raced >>
  BY DEF RetryFires, wire, pulse, flowing, inbound, calls
<1>2. WsType'
  <2>1. CASE closedByUser BY <1>1, <2>1 DEF RetryFires, WsType, wire
  <2>2. CASE ~closedByUser BY <1>1, <2>2, WsTypeOpens DEF RetryFires
  <2> QED BY <2>1, <2>2
<1> SUFFICES ASSUME ~raced' PROVE LinkParts'
  BY <1>2 DEF LinkInv
<1>4. LinkParts BY <1>1 DEF LinkInv
<1>5. lostRetries = 0 /\ retryTimer BY <1>4 DEF LinkParts, LinkTimers, RetryFires
<1>6. ~closedByUser /\ state = "closed" /\ ~CloseWaits BY <1>4, <1>5 DEF LinkParts, LinkByUser, LinkDue
<1>7. ~retryTimer' /\ lostRetries' = 0 BY <1>5 DEF RetryFires
<1>8. Open BY <1>6 DEF RetryFires
<1> QED BY <1>1, <1>4, <1>6, <1>7, <1>8, LinkOpens

(* A socket opens.                                                         *)
LEMMA LinkOpened == ASSUME WsType, LinkInv, NEW s \in Sockets, Opens(s) PROVE WsType' /\ LinkInv'
<1>1. UNCHANGED << tier, socket, heard, closedByUser, lostTimers, retryTimer, lostRetries, deadline, paused, chain,
                   connects, raced, wsThrew >>
  BY DEF Opens, inbound, calls
<1>2. peer[s] = "connecting" /\ peer' = [peer EXCEPT ![s] = "open"] BY DEF Opens
<1>3. WsType'
  <2>1. CASE Heard(s) BY <1>1, <1>2, <2>1 DEF Opens, Settle, WsType
  <2>2. CASE ~Heard(s) BY <1>1, <1>2, <2>2 DEF Opens, WsType
  <2> QED BY <2>1, <2>2
<1> SUFFICES ASSUME ~raced' PROVE LinkParts'
  BY <1>3 DEF LinkInv
<1>4. LinkParts BY <1>1 DEF LinkInv
<1>5. s = socket /\ heard /\ state = "connecting" BY <1>2, <1>4 DEF LinkParts, LinkAlive
<1>6. /\ Settle(s, "resolved") /\ state' = "open" /\ beat' = TRUE /\ poll' = (poll \/ tier = "events")
  BY <1>5 DEF Opens, Heard, IsOpen
<1>7. poll' <=> (poll \/ tier = "events") BY <1>6, Zenon
<1>8. peer'[s] = "open" /\ \A r \in Sockets : r # s => peer'[r] = peer[r] BY <1>2 DEF WsType
<1>9. connectTimer' = 0
  <2>1. connectTimer # 0 => opening[s] = "pending" BY <1>4, <1>5 DEF LinkParts, LinkTimers
  <2> QED BY <1>6, <2>1 DEF Settle
<1>10. LinkAlive' BY <1>1, <1>4, <1>5, <1>6, <1>8 DEF LinkParts, LinkAlive
<1>11. LinkUp' BY <1>1, <1>4, <1>5, <1>6, <1>8 DEF LinkParts, LinkUp, Alive
<1>12. ~retryTimer /\ ~CloseWaits BY <1>4, <1>5 DEF LinkParts, LinkDue
<1>13. ~CloseWaits' BY <1>1, <1>12 DEF CloseWaits
<1>14. LinkDue' BY <1>1, <1>4, <1>12, <1>13 DEF LinkParts, LinkDue
<1>15. LinkTimers' BY <1>1, <1>4, <1>9 DEF LinkParts, LinkTimers
<1>16. LinkByUser' BY <1>1, <1>4, <1>5 DEF LinkParts, LinkByUser
<1>17. LinkPulse' BY <1>1, <1>4, <1>6, <1>7 DEF LinkParts, LinkPulse
<1>18. KeepsTrying' BY <1>6 DEF KeepsTrying
<1> QED BY <1>10, <1>11, <1>14, <1>15, <1>16, <1>17, <1>18 DEF LinkParts

(* The connect timer fires.                                                *)
LEMMA LinkTimesOut == ASSUME WsType, LinkInv, NEW s \in Sockets, ConnectTimesOut(s) PROVE WsType' /\ LinkInv'
<1>0. s # 0 BY ClientConstants
<1>1. UNCHANGED << tier, socket, heard, closedByUser, retryTimer, lostRetries, beat, deadline, paused, poll, chain,
                   attempts, exhausted, connects, raced, wsThrew >>
  BY DEF ConnectTimesOut, pulse, flowing, inbound, calls
<1>2. WsType'
  <2>1. CASE IsOpen BY <1>1, <2>1 DEF ConnectTimesOut, WsType
  <2>2. CASE ~IsOpen BY <1>1, <2>2 DEF ConnectTimesOut, WsType
  <2> QED BY <2>1, <2>2
<1> SUFFICES ASSUME ~raced' PROVE LinkParts'
  BY <1>2 DEF LinkInv
<1>4. LinkParts BY <1>1 DEF LinkInv
<1>5. /\ s = connectTimer /\ connectTimer = socket /\ state = "connecting"
      /\ lostTimers' = {} /\ connectTimer' = 0
  BY <1>0, <1>4 DEF LinkParts, LinkTimers, ConnectTimesOut
<1>6. /\ state' = "closed"
      /\ peer' = [peer EXCEPT ![s] = IF @ \in Alive THEN "closing" ELSE @]
  BY <1>5 DEF ConnectTimesOut, IsOpen
<1>7. /\ peer'[s] = IF peer[s] \in Alive THEN "closing" ELSE peer[s]
      /\ \A r \in Sockets : r # s => peer'[r] = peer[r]
  BY <1>6 DEF WsType
<1>8. LinkAlive' BY <1>1, <1>4, <1>5, <1>7 DEF LinkParts, LinkAlive, Alive
<1>9. LinkUp' BY <1>6 DEF LinkUp
<1>10. ~retryTimer /\ ~CloseWaits BY <1>4, <1>5 DEF LinkParts, LinkDue
<1>11. ~CloseWaits' BY <1>1, <1>10 DEF CloseWaits
<1>12. LinkDue' BY <1>1, <1>4, <1>10, <1>11 DEF LinkParts, LinkDue
<1>13. LinkTimers' BY <1>1, <1>4, <1>5 DEF LinkParts, LinkTimers
<1>14. LinkByUser' BY <1>1, <1>4, <1>5 DEF LinkParts, LinkUp, LinkByUser
<1>15. LinkPulse' BY <1>1, <1>4, <1>5, <1>6 DEF LinkParts, LinkPulse
<1>16. KeepsTrying' BY <1>1, <1>4, <1>5, <1>7 DEF LinkParts, LinkUp, KeepsTrying, Alive
<1> QED BY <1>8, <1>9, <1>12, <1>13, <1>14, <1>15, <1>16 DEF LinkParts

(* close()                                                                 *)
LEMMA LinkCloses == ASSUME WsType, LinkInv, Close PROVE WsType' /\ LinkInv'
<1>1. /\ UNCHANGED << tier, socket, opening, lostTimers, lostRetries, chain, raced >>
      /\ closedByUser' = TRUE /\ heard' = FALSE /\ state' = "closed"
      /\ connectTimer' = 0 /\ retryTimer' = FALSE
      /\ beat' = FALSE /\ deadline' = FALSE /\ poll' = FALSE /\ paused' = FALSE
      /\ peer' = IF socket # 0 /\ peer[socket] \in Alive THEN [peer EXCEPT ![socket] = "closing"] ELSE peer
  BY DEF Close, inbound, calls
<1>2. WsType' BY <1>1 DEF WsType
<1> SUFFICES ASSUME ~raced' PROVE LinkParts'
  BY <1>2 DEF LinkInv
<1>4. LinkParts BY <1>1 DEF LinkInv
<1>5. \A r \in Sockets : peer'[r] \notin Alive
  <2> TAKE r \in Sockets
  <2>0. r # 0 BY ClientConstants
  <2>1. CASE peer[r] \in Alive
    <3>1. r = socket BY <1>4, <2>1 DEF LinkParts, LinkAlive, Alive
    <3> QED BY <1>1, <2>0, <2>1, <3>1 DEF WsType, Alive
  <2>2. CASE peer[r] \notin Alive BY <1>1, <2>2 DEF WsType, Alive
  <2> QED BY <2>1, <2>2
<1>8. LinkAlive' BY <1>5 DEF LinkAlive, Alive
<1>9. LinkUp' BY <1>1 DEF LinkUp
<1>12. LinkDue' BY <1>1, <1>4 DEF LinkParts, LinkDue
<1>13. LinkTimers' BY <1>1, <1>4 DEF LinkParts, LinkTimers
<1>14. LinkByUser' BY <1>1 DEF LinkByUser
<1>15. LinkPulse' BY <1>1 DEF LinkPulse
<1>16. KeepsTrying' BY <1>1 DEF KeepsTrying
<1> QED BY <1>8, <1>9, <1>12, <1>13, <1>14, <1>15, <1>16 DEF LinkParts

(* What a retry that is decided upon leaves.                               *)
LEMMA RetryPlanned ==
  ASSUME NEW retryable \in BOOLEAN, FinishClose(retryable), ~retryTimer
  PROVE  /\ lostRetries' = lostRetries
         /\ closedByUser => ~retryTimer'
         /\ ~closedByUser /\ exhausted' = "no" => retryTimer'
<1>1. CASE retryable \/ closedByUser BY <1>1 DEF FinishClose, ScheduleReconnect
<1>2. CASE ~(retryable \/ closedByUser) BY <1>2 DEF FinishClose
<1> QED BY <1>1, <1>2

(* One thing is due after a close: a retry, or the close that waits.       *)
LEMMA CloseIsDue ==
  ASSUME chain \in Seq(WsSteps), NEW retryable \in BOOLEAN, CloseBehindChain(retryable), ~retryTimer, ~CloseWaits
  PROVE  /\ lostRetries' = lostRetries
         /\ closedByUser => ~retryTimer'
         /\ ~closedByUser /\ exhausted' = "no" => retryTimer' \/ CloseWaits'
         /\ \A i, j \in DOMAIN chain' : chain'[i].what # "frame" /\ chain'[j].what # "frame" => i = j
         /\ retryTimer' => ~CloseWaits'
<1>0. \A i \in 1..Len(chain) : chain[i].what = "frame" BY DEF CloseWaits
<1>1. CASE chained
  <2> DEFINE c == Closing(retryable)
  <2>1. c \in WsSteps /\ c.what # "frame" BY DEF Closing, WsSteps
  <2>2. chain' = Append(chain, c) /\ UNCHANGED << attempts, exhausted, retryTimer, lostRetries >>
    BY <1>1 DEF CloseBehindChain
  <2> HIDE DEF c
  <2>3. /\ chain' \in Seq(WsSteps) /\ Len(chain') = Len(chain) + 1 /\ Len(chain) \in Nat
        /\ \A i \in 1..Len(chain') : chain'[i] = IF i <= Len(chain) THEN chain[i] ELSE c
        /\ \A i \in 1..Len(chain') : IF i <= Len(chain) THEN i \in 1..Len(chain) ELSE i = Len(chain) + 1
    BY <2>1, <2>2, Appended
  <2>4. DOMAIN chain' = 1..Len(chain') BY <2>3
  <2>5. \A i \in 1..Len(chain') : chain'[i].what # "frame" => i = Len(chain) + 1 BY <1>0, <2>3
  <2>6. Len(chain) + 1 \in 1..Len(chain') /\ ~(Len(chain) + 1 <= Len(chain)) BY <2>3
  <2>7. CloseWaits' BY <2>1, <2>3, <2>4, <2>6 DEF CloseWaits
  <2> QED BY <2>2, <2>4, <2>5, <2>7
<1>2. CASE ~chained
  <2>1. FinishClose(retryable) /\ chain' = chain BY <1>2 DEF CloseBehindChain
  <2>2. ~CloseWaits' BY <2>1 DEF CloseWaits
  <2>3. \A i, j \in DOMAIN chain' : chain'[i].what # "frame" /\ chain'[j].what # "frame" => i = j
    BY <1>0, <2>1
  <2> QED BY <2>1, <2>2, <2>3, RetryPlanned
<1> QED BY <1>1, <1>2

(* The end of the socket in use.                                           *)
LEMMA LinkEnds ==
  ASSUME WsType, LinkParts, NEW s \in Sockets, NEW retryable \in BOOLEAN, Heard(s), peer[s] # "closed",
         HandleClose(retryable), peer' = [peer EXCEPT ![s] = "closed"], connectTimer' = 0,
         UNCHANGED << tier, socket, closedByUser, lostTimers, connects >>, heard' \in {heard, FALSE}
  PROVE  LinkParts'
<1>1. s = socket /\ heard BY DEF Heard
<1>2. /\ state' = "closed" /\ beat' = FALSE /\ deadline' = FALSE /\ poll' = FALSE /\ paused' = FALSE
      /\ CloseBehindChain(retryable)
  BY DEF HandleClose
<1>3. peer'[s] = "closed" /\ \A r \in Sockets : r # s => peer'[r] = peer[r] BY DEF WsType
<1>4. ~retryTimer /\ ~CloseWaits BY <1>1 DEF LinkParts, LinkDue
<1>5. ~closedByUser BY <1>1 DEF LinkParts, LinkByUser
<1>6. /\ lostRetries' = lostRetries
      /\ exhausted' = "no" => retryTimer' \/ CloseWaits'
      /\ \A i, j \in DOMAIN chain' : chain'[i].what # "frame" /\ chain'[j].what # "frame" => i = j
      /\ retryTimer' => ~CloseWaits'
  BY <1>2, <1>4, <1>5, CloseIsDue DEF WsType
<1>8. LinkAlive' BY <1>1, <1>3 DEF LinkParts, LinkAlive
<1>9. LinkUp' BY <1>2 DEF LinkUp
<1>12. LinkDue' BY <1>1, <1>2, <1>3, <1>6 DEF LinkDue
<1>13. LinkTimers' BY <1>6 DEF LinkParts, LinkTimers
<1>14. LinkByUser' BY <1>5 DEF LinkByUser
<1>15. LinkPulse' BY <1>2 DEF LinkPulse
<1>16. KeepsTrying' BY <1>6 DEF KeepsTrying, CloseWaits
<1> QED BY <1>8, <1>9, <1>12, <1>13, <1>14, <1>15, <1>16 DEF LinkParts

(* What a close does to the types of the chain.                            *)
LEMMA ChainCanClose ==
  ASSUME chain \in Seq(WsSteps), NEW retryable \in BOOLEAN, CloseBehindChain(retryable)
  PROVE  chain' \in Seq(WsSteps)
<1>1. Closing(retryable) \in WsSteps BY DEF Closing, WsSteps
<1>2. CASE chained BY <1>1, <1>2, Appended DEF CloseBehindChain
<1>3. CASE ~chained BY <1>3 DEF CloseBehindChain
<1> QED BY <1>2, <1>3

(* The end of a socket that nobody listens to, or whose end is not told.   *)
LEMMA LinkDies ==
  ASSUME WsType, LinkParts, NEW s \in Sockets, peer' = [peer EXCEPT ![s] = "closed"],
         ~Heard(s) \/ tier # "events",
         connectTimer' # 0 => connectTimer' = connectTimer /\ (opening[socket] = "pending" => opening'[socket] = "pending"),
         UNCHANGED << tier, state, socket, heard, closedByUser, lostTimers, retryTimer, lostRetries, beat, deadline,
                      paused, poll, chain, connects, exhausted, raced, wsThrew >>
  PROVE  LinkParts'
<1>1. peer'[s] = "closed" /\ \A r \in Sockets : r # s => peer'[r] = peer[r] BY DEF WsType
<1>2. s # 0 BY ClientConstants
<1>3. LinkAlive' BY <1>1 DEF LinkParts, LinkAlive
<1>4. LinkUp' BY <1>1, <1>2 DEF LinkParts, LinkUp, Heard, WsType
<1>5. CloseWaits' = CloseWaits BY DEF CloseWaits
<1>6. LinkDue' BY <1>1, <1>5 DEF LinkParts, LinkDue, WsType
<1>7. LinkTimers' BY DEF LinkParts, LinkTimers
<1>8. LinkByUser' BY DEF LinkParts, LinkByUser
<1>9. LinkPulse'
  <2>1. peer'[socket] = "open" => peer[socket] = "open" BY <1>1 DEF WsType
  <2> QED BY <2>1 DEF LinkParts, LinkPulse
<1>10. KeepsTrying'
  <2>1. tier = "events" /\ state = "closed" /\ heard => peer'[socket] = peer[socket]
    BY <1>1 DEF Heard, WsType
  <2> QED BY <2>1 DEF LinkParts, KeepsTrying
<1> QED BY <1>3, <1>4, <1>6, <1>7, <1>8, <1>9, <1>10 DEF LinkParts

(* The close event of a socket.                                            *)
LEMMA LinkCloseEvent ==
  ASSUME WsType, LinkInv, NEW s \in Sockets, NEW retryable \in BOOLEAN, CloseEvent(s, retryable)
  PROVE  WsType' /\ LinkInv'
<1>1. /\ UNCHANGED << tier, socket, heard, closedByUser, lostTimers, connects, raced, wsThrew >>
      /\ peer[s] # "closed" /\ peer' = [peer EXCEPT ![s] = "closed"]
  BY DEF CloseEvent, calls
<1>2. CASE Heard(s)
  <2>1. HandleClose(retryable) /\ Settle(s, "rejected") BY <1>2 DEF CloseEvent
  <2>2. chain' \in Seq(WsSteps) BY <2>1, ChainCanClose DEF HandleClose, WsType
  <2>3. WsType' BY <1>1, <2>1, <2>2 DEF WsType, HandleClose, Settle
  <2> SUFFICES ASSUME ~raced' PROVE LinkParts'
    BY <2>3 DEF LinkInv
  <2>4. LinkParts BY <1>1 DEF LinkInv
  <2>5. connectTimer' = 0 BY <1>2, <2>1, <2>4 DEF Settle, Heard, LinkParts, LinkTimers
  <2> QED BY <1>1, <1>2, <2>1, <2>4, <2>5, LinkEnds
<1>3. CASE ~Heard(s)
  <2>1. UNCHANGED << state, opening, beat, deadline, poll, paused, attempts, exhausted, retryTimer, lostRetries, chain,
                     connectTimer >>
    BY <1>3 DEF CloseEvent
  <2>2. WsType' BY <1>1, <2>1 DEF WsType
  <2> SUFFICES ASSUME ~raced' PROVE LinkParts'
    BY <2>2 DEF LinkInv
  <2>3. LinkParts BY <1>1 DEF LinkInv
  <2> QED BY <1>1, <1>3, <2>1, <2>3, LinkDies
<1> QED BY <1>2, <1>3

(* A stream that is not opened, fails, or just ends.                       *)
LEMMA LinkStreamEnds ==
  ASSUME WsType, LinkInv, NEW s \in Sockets, OpenedRejects(s) \/ ReadFails(s) \/ ReadEnds(s)
  PROVE  WsType' /\ LinkInv'
<1>0. tier # "events" /\ peer[s] # "closed" BY DEF OpenedRejects, ReadFails, ReadEnds
<1>1. /\ UNCHANGED << tier, socket, closedByUser, lostTimers, connects, raced, wsThrew >>
      /\ peer' = [peer EXCEPT ![s] = "closed"]
  BY DEF OpenedRejects, ReadFails, ReadEnds, plan, calls
<1>2. CASE OpenedRejects(s)
  <2>1. UNCHANGED << state, heard, retryTimer, lostRetries, beat, deadline, paused, poll, chain, exhausted >>
    BY <1>2 DEF OpenedRejects, pulse, flowing, inbound
  <2>2. Settle(s, "rejected") \/ UNCHANGED << opening, connectTimer >> BY <1>2 DEF OpenedRejects
  <2>3. WsType' BY <1>1, <2>1, <2>2 DEF WsType, Settle
  <2> SUFFICES ASSUME ~raced' PROVE LinkParts'
    BY <2>3 DEF LinkInv
  <2>4. LinkParts BY <1>1 DEF LinkInv
  <2>5. connectTimer' # 0 => connectTimer' = connectTimer /\ (opening[socket] = "pending" => opening'[socket] = "pending")
    BY <2>2 DEF Settle, WsType
  <2> QED BY <1>0, <1>1, <2>1, <2>4, <2>5, LinkDies
<1>3. CASE ReadFails(s) /\ Heard(s) /\ IsOpen /\ ~closedByUser
  <2>1. heard' = FALSE /\ HandleClose(TRUE) /\ UNCHANGED << opening, connectTimer >> BY <1>3 DEF ReadFails
  <2>2. chain' \in Seq(WsSteps) BY <2>1, ChainCanClose DEF HandleClose, WsType
  <2>3. WsType' BY <1>1, <2>1, <2>2 DEF WsType, HandleClose
  <2> SUFFICES ASSUME ~raced' PROVE LinkParts'
    BY <2>3 DEF LinkInv
  <2>4. LinkParts BY <1>1 DEF LinkInv
  <2>5. connectTimer' = 0 BY <1>3, <2>1, <2>4 DEF LinkParts, LinkTimers, IsOpen
  <2> QED BY <1>0, <1>1, <1>3, <2>1, <2>4, <2>5, LinkEnds
<1>4. CASE (ReadFails(s) /\ ~(Heard(s) /\ IsOpen /\ ~closedByUser)) \/ ReadEnds(s)
  <2>1. UNCHANGED << state, heard, opening, connectTimer, retryTimer, lostRetries, beat, deadline, paused, poll, chain,
                     exhausted >>
    BY <1>4 DEF ReadFails, ReadEnds, plan, pulse, flowing, inbound
  <2>2. WsType' BY <1>1, <2>1 DEF WsType
  <2> SUFFICES ASSUME ~raced' PROVE LinkParts'
    BY <2>2 DEF LinkInv
  <2>3. LinkParts BY <1>1 DEF LinkInv
  <2> QED BY <1>0, <1>1, <2>1, <2>3, LinkDies
<1> QED BY <1>2, <1>3, <1>4

(* Timers and frames of the outbound side: no socket, and nothing due.     *)
LEMMA LinkSends ==
  ASSUME WsType, LinkInv, UNCHANGED << wire, plan, pulse, chain, calls >>,
         \/ poll' = poll /\ (paused' => paused \/ (state = "open" /\ tier = "events"))
         \/ PollFires
  PROVE  WsType' /\ LinkInv'
<1>1. /\ UNCHANGED << tier, state, socket, heard, peer, opening, closedByUser, attempts, exhausted, connectTimer >>
      /\ UNCHANGED << lostTimers, retryTimer, lostRetries, beat, deadline, chain, connects, raced, wsThrew >>
  BY DEF wire, plan, pulse, calls
<1>2. WsType' BY <1>1 DEF WsType
<1> SUFFICES ASSUME ~raced' PROVE LinkParts'
  BY <1>2 DEF LinkInv
<1>4. LinkParts BY <1>1 DEF LinkInv
<1>5. LinkAlive' /\ LinkUp' /\ LinkTimers' /\ LinkByUser'
  BY <1>1, <1>4 DEF LinkParts, LinkAlive, LinkUp, LinkTimers, LinkByUser
<1>6. CloseWaits' = CloseWaits BY <1>1 DEF CloseWaits
<1>7. LinkDue' BY <1>1, <1>4, <1>6 DEF LinkParts, LinkDue
<1>8. KeepsTrying' BY <1>1, <1>4 DEF LinkParts, KeepsTrying
<1>9. (beat \/ deadline => state = "open") /\ (poll => state = "open") /\ (paused => poll)
      /\ (state = "open" /\ tier = "events" => poll) /\ (state = "open" => beat \/ peer[socket] # "open")
  BY <1>4 DEF LinkParts, LinkPulse
<1>10. ASSUME PollFires PROVE LinkPulse'
  <2>1. state = "open" BY <1>9, <1>10 DEF PollFires
  <2>2. poll' = (state = "open") BY <1>10 DEF PollFires, PollsOn, IsOpen
  <2>3. poll' BY <2>1, <2>2, Zenon
  <2> QED BY <1>1, <1>9, <2>1, <2>3 DEF LinkPulse
<1>11. ASSUME poll' = poll, paused' => paused \/ (state = "open" /\ tier = "events") PROVE LinkPulse'
  BY <1>1, <1>9, <1>11 DEF LinkPulse
<1>12. LinkPulse' BY <1>10, <1>11
<1> QED BY <1>5, <1>7, <1>8, <1>12 DEF LinkParts

(* The heartbeat.                                                          *)
LEMMA LinkBeats ==
  ASSUME WsType, LinkInv, BeatFires \/ Pong \/ DeadlinePasses
  PROVE  WsType' /\ LinkInv'
<1>1. /\ UNCHANGED << tier, state, socket, heard, opening, closedByUser, attempts, exhausted, connectTimer >>
      /\ UNCHANGED << lostTimers, retryTimer, lostRetries, paused, poll, chain, connects, raced, wsThrew >>
  BY DEF BeatFires, Pong, DeadlinePasses, wire, plan, flowing, inbound, calls
<1>2. peer' = peer \/ (DeadlinePasses /\ ~closedByUser /\ peer[socket] \in Alive /\ peer' = [peer EXCEPT ![socket] = "closing"])
  BY DEF BeatFires, Pong, DeadlinePasses, wire
<1>3. WsType' BY <1>1, <1>2 DEF WsType
<1> SUFFICES ASSUME ~raced' PROVE LinkParts'
  BY <1>3 DEF LinkInv
<1>4. LinkParts BY <1>1 DEF LinkInv
<1>5. (beat \/ deadline => state = "open") /\ (poll => state = "open") /\ (paused => poll)
      /\ (state = "open" /\ tier = "events" => poll) /\ (state = "open" => beat \/ peer[socket] # "open")
      /\ (state = "open" => ~closedByUser /\ socket \in Sockets)
  BY <1>4 DEF LinkParts, LinkPulse, LinkUp, WsType
<1>6. LinkTimers' /\ LinkByUser' BY <1>1, <1>4 DEF LinkParts, LinkTimers, LinkByUser
<1>7. CloseWaits' = CloseWaits BY <1>1 DEF CloseWaits
<1>8. \A s \in Sockets : peer'[s] = peer[s] \/ (s = socket /\ peer'[s] = "closing" /\ peer[s] \in Alive)
  BY <1>2 DEF WsType
<1>9. LinkAlive' BY <1>1, <1>4, <1>8 DEF LinkParts, LinkAlive
<1>10. heard => socket \in Sockets BY DEF WsType
<1>11. LinkUp' BY <1>1, <1>4, <1>8, <1>10 DEF LinkParts, LinkUp
<1>12. LinkDue'
  <2>1. heard /\ peer[socket] = "closed" => peer'[socket] = "closed" BY <1>8, <1>10 DEF Alive
  <2> QED BY <1>1, <1>4, <1>7, <2>1 DEF LinkParts, LinkDue
<1>13. KeepsTrying' BY <1>1, <1>4, <1>8, <1>10 DEF LinkParts, KeepsTrying
<1>14. LinkPulse'
  <2>1. CASE BeatFires
    <3>1. state = "open" BY <1>5, <2>1 DEF BeatFires
    <3>2. beat' = (state = "open") BY <2>1 DEF BeatFires, IsOpen
    <3>3. beat' BY <3>1, <3>2, Zenon
    <3> QED BY <1>1, <1>5, <3>1, <3>3 DEF LinkPulse
  <2>2. CASE Pong
    <3>1. UNCHANGED << beat, peer >> /\ deadline' = FALSE BY <2>2 DEF Pong, wire
    <3> QED BY <1>1, <1>5, <3>1 DEF LinkPulse
  <2>3. CASE DeadlinePasses
    <3>1. beat' = FALSE /\ deadline' = FALSE /\ state = "open"
          /\ peer' = IF ~closedByUser /\ peer[socket] \in Alive THEN [peer EXCEPT ![socket] = "closing"] ELSE peer
      BY <1>5, <2>3 DEF DeadlinePasses
    <3>2. peer'[socket] # "open" BY <1>5, <3>1 DEF WsType, Alive
    <3> QED BY <1>1, <1>5, <3>1, <3>2 DEF LinkPulse
  <2> QED BY <2>1, <2>2, <2>3
<1> QED BY <1>6, <1>9, <1>11, <1>12, <1>13, <1>14 DEF LinkParts

(* A step of the chain that decides nothing: what waits to be closed waits *)
(* as before.                                                              *)
LEMMA LinkChain ==
  ASSUME WsType, LinkInv, chain' \in Seq(WsSteps), UNCHANGED << wire, plan, pulse, flowing, calls >>,
         CloseWaits' <=> CloseWaits,
         \A i, j \in DOMAIN chain' : chain'[i].what # "frame" /\ chain'[j].what # "frame" =>
           i = j \/ \E k, l \in DOMAIN chain : chain[k].what # "frame" /\ chain[l].what # "frame" /\ k # l
  PROVE  WsType' /\ LinkInv'
<1>1. /\ UNCHANGED << tier, state, socket, heard, peer, opening, closedByUser, attempts, exhausted, connectTimer >>
      /\ UNCHANGED << lostTimers, retryTimer, lostRetries, beat, deadline, paused, poll, connects, raced, wsThrew >>
  BY DEF wire, plan, pulse, flowing, calls
<1>2. WsType' BY <1>1 DEF WsType
<1> SUFFICES ASSUME ~raced' PROVE LinkParts'
  BY <1>2 DEF LinkInv
<1>4. LinkParts BY <1>1 DEF LinkInv
<1>5. LinkAlive' /\ LinkUp' /\ LinkTimers' /\ LinkByUser' /\ LinkPulse'
  BY <1>1, <1>4 DEF LinkParts, LinkAlive, LinkUp, LinkTimers, LinkByUser, LinkPulse
<1>6. \A i, j \in DOMAIN chain' : chain'[i].what # "frame" /\ chain'[j].what # "frame" => i = j
  BY <1>4 DEF LinkParts, LinkDue
<1>7. LinkDue' BY <1>1, <1>4, <1>6 DEF LinkParts, LinkDue
<1>8. KeepsTrying' BY <1>1, <1>4 DEF LinkParts, KeepsTrying, CloseWaits
<1> QED BY <1>5, <1>7, <1>8 DEF LinkParts

(* A frame comes in.                                                       *)
LEMMA LinkArrives ==
  ASSUME WsType, LinkInv, InInv, NEW blob \in BOOLEAN, Arrives(blob)
  PROVE  WsType' /\ LinkInv'
<1>1. chain' \in Seq(WsSteps) BY InArrives DEF WsType
<1>2. UNCHANGED << wire, plan, pulse, flowing, calls >> BY DEF Arrives
<1>3. CASE Joins(blob)
  <2> DEFINE c == Delivery(arrived + 1)
  <2>1. c \in WsSteps /\ c.what = "frame" BY DEF Delivery, WsSteps, InInv
  <2>2. chain' = Append(chain, c) BY <1>3 DEF Arrives
  <2> HIDE DEF c
  <2>3. /\ Len(chain') = Len(chain) + 1 /\ Len(chain) \in Nat
        /\ \A i \in 1..Len(chain') : chain'[i] = IF i <= Len(chain) THEN chain[i] ELSE c
        /\ \A i \in 1..Len(chain') : IF i <= Len(chain) THEN i \in 1..Len(chain) ELSE i = Len(chain) + 1
    BY <2>1, <2>2, Appended DEF WsType
  <2>4. DOMAIN chain = 1..Len(chain) /\ DOMAIN chain' = 1..Len(chain') BY <1>1 DEF WsType
  <2>5. \A i \in 1..Len(chain') : chain'[i].what # "frame" => i \in 1..Len(chain) /\ chain[i].what # "frame"
    BY <2>1, <2>3
  <2>6. \A i \in 1..Len(chain) : i \in 1..Len(chain') /\ chain'[i] = chain[i] BY <2>3
  <2>7. CloseWaits' <=> CloseWaits BY <2>4, <2>5, <2>6 DEF CloseWaits
  <2>8. \A i, j \in DOMAIN chain' : chain'[i].what # "frame" /\ chain'[j].what # "frame" =>
          i = j \/ \E k, l \in DOMAIN chain : chain[k].what # "frame" /\ chain[l].what # "frame" /\ k # l
    BY <2>4, <2>5
  <2> QED BY <1>1, <1>2, <2>7, <2>8, LinkChain
<1>4. CASE ~Joins(blob)
  <2>1. chain' = chain BY <1>4 DEF Arrives
  <2>2. CloseWaits' <=> CloseWaits BY <2>1 DEF CloseWaits
  <2> QED BY <1>1, <1>2, <2>1, <2>2, LinkChain
<1> QED BY <1>3, <1>4

(* A frame of the chain is delivered or dropped.                           *)
LEMMA LinkDelivers ==
  ASSUME WsType, LinkInv, NEW fails \in BOOLEAN, ChainDelivers(fails)
  PROVE  WsType' /\ LinkInv'
<1>0. chain \in Seq(WsSteps) /\ chain # << >> /\ chain' = Tail(chain) /\ Head(chain).what = "frame"
  BY DEF WsType, ChainDelivers
<1>1. /\ chain' \in Seq(WsSteps) /\ Head(chain) = chain[1]
      /\ \A i \in 1..Len(chain') : chain'[i] = chain[i + 1] /\ i + 1 \in 1..Len(chain) /\ i \in Nat \ {0}
      /\ \A k \in 1..Len(chain) : k # 1 => k - 1 \in 1..Len(chain') /\ chain'[k - 1] = chain[k]
  BY <1>0, ChainMoves
<1>2. DOMAIN chain = 1..Len(chain) /\ DOMAIN chain' = 1..Len(chain') BY <1>0, <1>1
<1>3. UNCHANGED << wire, plan, pulse, flowing, calls >> BY DEF ChainDelivers
<1>4. CloseWaits' <=> CloseWaits
  <2>1. ASSUME NEW i \in 1..Len(chain'), chain'[i].what # "frame" PROVE \E k \in 1..Len(chain) : chain[k].what # "frame"
    BY <1>1, <2>1
  <2>2. ASSUME NEW k \in 1..Len(chain), chain[k].what # "frame" PROVE \E i \in 1..Len(chain') : chain'[i].what # "frame"
    <3>1. k # 1 BY <1>0, <1>1, <2>2
    <3> QED BY <1>1, <2>2, <3>1
  <2> QED BY <1>2, <2>1, <2>2 DEF CloseWaits
<1>5. \A i, j \in DOMAIN chain' : chain'[i].what # "frame" /\ chain'[j].what # "frame" =>
        i = j \/ \E k, l \in DOMAIN chain : chain[k].what # "frame" /\ chain[l].what # "frame" /\ k # l
  <2> SUFFICES ASSUME NEW i \in 1..Len(chain'), NEW j \in 1..Len(chain'), chain'[i].what # "frame",
                      chain'[j].what # "frame", i # j
               PROVE  \E k, l \in 1..Len(chain) : chain[k].what # "frame" /\ chain[l].what # "frame" /\ k # l
    BY <1>2
  <2>1. i + 1 # j + 1 BY <1>1
  <2>2. i + 1 \in 1..Len(chain) /\ chain[i + 1].what # "frame" BY <1>1
  <2>3. j + 1 \in 1..Len(chain) /\ chain[j + 1].what # "frame" BY <1>1
  <2> QED BY <2>1, <2>2, <2>3
<1> QED BY <1>1, <1>3, <1>4, <1>5, LinkChain

(* A close that waited is announced, and the retry decided upon.           *)
LEMMA LinkChainCloses == ASSUME WsType, LinkInv, ChainCloses PROVE WsType' /\ LinkInv'
<1>0. /\ chain \in Seq(WsSteps) /\ chain # << >> /\ chain' = Tail(chain) /\ Head(chain).what # "frame"
      /\ FinishClose(Head(chain).what = "close")
  BY DEF WsType, ChainCloses
<1>1. /\ chain' \in Seq(WsSteps) /\ Head(chain) = chain[1] /\ 1 \in 1..Len(chain)
      /\ \A i \in 1..Len(chain') : chain'[i] = chain[i + 1] /\ i + 1 \in 1..Len(chain) /\ i \in Nat \ {0}
  BY <1>0, ChainMoves
<1>2. DOMAIN chain = 1..Len(chain) /\ DOMAIN chain' = 1..Len(chain') BY <1>0, <1>1
<1>3. /\ UNCHANGED << tier, state, socket, heard, peer, opening, closedByUser, connectTimer >>
      /\ UNCHANGED << lostTimers, beat, deadline, paused, poll, connects, raced, wsThrew >>
  BY DEF ChainCloses, wire, pulse, flowing, calls
<1>4. WsType' BY <1>1, <1>3 DEF WsType
<1> SUFFICES ASSUME ~raced' PROVE LinkParts'
  BY <1>4 DEF LinkInv
<1>5. LinkParts BY <1>3 DEF LinkInv
<1>6. CloseWaits BY <1>0, <1>1, <1>2 DEF CloseWaits
<1>7. ~retryTimer /\ state = "closed" /\ (heard => peer[socket] = "closed") BY <1>5, <1>6 DEF LinkParts, LinkDue
<1>8. ~CloseWaits'
  <2> SUFFICES ASSUME NEW i \in 1..Len(chain'), chain'[i].what # "frame" PROVE FALSE
    BY <1>2 DEF CloseWaits
  <2>1. chain[i + 1].what # "frame" /\ i + 1 \in 1..Len(chain) /\ i + 1 # 1 BY <1>1
  <2> QED BY <1>0, <1>1, <1>2, <1>5, <2>1 DEF LinkParts, LinkDue
<1>9. (Head(chain).what = "close") \in BOOLEAN OBVIOUS
<1>10. /\ lostRetries' = lostRetries
       /\ closedByUser => ~retryTimer'
       /\ ~closedByUser /\ exhausted' = "no" => retryTimer'
  BY <1>0, <1>7, <1>9, RetryPlanned
<1>11. LinkAlive' /\ LinkUp' /\ LinkTimers' /\ LinkPulse'
  BY <1>3, <1>5, <1>10 DEF LinkParts, LinkAlive, LinkUp, LinkTimers, LinkPulse
<1>12. LinkDue' BY <1>3, <1>7, <1>8 DEF LinkDue, CloseWaits
<1>13. LinkByUser' BY <1>3, <1>5, <1>10 DEF LinkParts, LinkByUser
<1>14. KeepsTrying' BY <1>3, <1>10 DEF KeepsTrying
<1> QED BY <1>11, <1>12, <1>13, <1>14 DEF LinkParts

(* A close that is told, or that waits, keeps the frames in their order.   *)
LEMMA InCloses ==
  ASSUME InInv, chain \in Seq(WsSteps), UNCHANGED << chained, arrived, wsDelivered >>,
         \/ chain' = chain
         \/ \E retryable \in BOOLEAN : CloseBehindChain(retryable)
  PROVE  InInv'
<1>1. ASSUME chain' = chain PROVE InInv' BY <1>1 DEF InInv
<1>2. ASSUME NEW retryable \in BOOLEAN, CloseBehindChain(retryable) PROVE InInv'
  <2>1. CASE chained BY <1>2, <2>1, InCloseJoins DEF CloseBehindChain
  <2>2. CASE ~chained BY <1>1, <1>2, <2>2 DEF CloseBehindChain
  <2> QED BY <2>1, <2>2
<1> QED BY <1>1, <1>2

(* Each call, timer and event of the link.                                 *)
LEMMA WsLinkStep == ASSUME WsInv, LinkNext PROVE WsInv'
<1>0. WsType /\ LinkInv /\ OutInv /\ InInv /\ chain \in Seq(WsSteps) BY DEF WsInv, WsType
<1>1. CASE Connect
  <2>1. UNCHANGED << outbound, inbound >> BY <1>1 DEF Connect
  <2> QED BY <1>0, <1>1, <2>1, LinkConnects, OutStands, InStands DEF WsInv
<1>2. CASE RetryFires
  <2>1. UNCHANGED << outbound, inbound >> BY <1>2 DEF RetryFires
  <2> QED BY <1>0, <1>2, <2>1, LinkRetries, OutStands, InStands DEF WsInv
<1>3. CASE Close
  <2>1. UNCHANGED inbound BY <1>3 DEF Close
  <2>2. OutInv' BY <1>0, <1>3, OutCloses DEF Close
  <2> QED BY <1>0, <1>3, <2>1, <2>2, LinkCloses, InStands DEF WsInv
<1>4. ASSUME NEW s \in Sockets, Opens(s) PROVE WsInv'
  <2>1. UNCHANGED inbound BY <1>4 DEF Opens
  <2>2. UNCHANGED frame /\ (FlushQueue \/ UNCHANGED << queue, flushing >>) BY <1>4 DEF Opens
  <2>3. OutInv' BY <1>0, <2>2, OutFlushes, OutStands DEF outbound
  <2> QED BY <1>0, <1>4, <2>1, <2>3, LinkOpened, InStands DEF WsInv
<1>5. ASSUME NEW s \in Sockets, ConnectTimesOut(s) PROVE WsInv'
  <2>1. UNCHANGED << outbound, inbound >> BY <1>5 DEF ConnectTimesOut
  <2> QED BY <1>0, <1>5, <2>1, LinkTimesOut, OutStands, InStands DEF WsInv
<1>6. ASSUME NEW s \in Sockets, OpenedRejects(s) \/ ReadFails(s) \/ ReadEnds(s) PROVE WsInv'
  <2>1. UNCHANGED outbound /\ UNCHANGED << chained, arrived, wsDelivered >>
    BY <1>6 DEF OpenedRejects, ReadFails, ReadEnds, inbound
  <2>2. chain' = chain \/ CloseBehindChain(TRUE)
    BY <1>6 DEF OpenedRejects, ReadFails, ReadEnds, inbound, HandleClose
  <2>3. InInv' BY <1>0, <2>1, <2>2, InCloses
  <2> QED BY <1>0, <1>6, <2>1, <2>3, LinkStreamEnds, OutStands DEF WsInv
<1>7. ASSUME NEW s \in Sockets, NEW retryable \in BOOLEAN, CloseEvent(s, retryable) PROVE WsInv'
  <2>1. UNCHANGED outbound /\ UNCHANGED << chained, arrived, wsDelivered >> BY <1>7 DEF CloseEvent
  <2>2. chain' = chain \/ CloseBehindChain(retryable) BY <1>7 DEF CloseEvent, HandleClose
  <2>3. InInv' BY <1>0, <2>1, <2>2, InCloses
  <2> QED BY <1>0, <1>7, <2>1, <2>3, LinkCloseEvent, OutStands DEF WsInv
<1> QED BY <1>1, <1>2, <1>3, <1>4, <1>5, <1>6, <1>7 DEF LinkNext

(* Sending.                                                                *)
LEMMA WsSendingStep == ASSUME WsInv, SendingNext PROVE WsInv'
<1>0. WsType /\ LinkInv /\ OutInv /\ InInv BY DEF WsInv
<1>1. ASSUME NEW f \in Frames, NEW fails \in BOOLEAN, Transmit(f, fails)
      PROVE  paused' => paused \/ (state = "open" /\ tier = "events")
  <2>1. CASE paused' = paused BY <2>1
  <2>2. CASE paused' = (paused \/ (tier = "events" /\ buffered = "high")) /\ IsOpen
    <3>1. paused' <=> (paused \/ (tier = "events" /\ buffered = "high")) BY <2>2, Zenon
    <3> QED BY <2>2, <3>1 DEF IsOpen
  <2> QED BY <1>1, <2>1, <2>2 DEF Transmit
<1>2. ASSUME NEW f \in Frames, NEW fails \in BOOLEAN, Send(f, fails) PROVE WsInv'
  <2>1. UNCHANGED << wire, plan, pulse, poll, inbound, calls >> /\ Transmit(f, fails) BY <1>2 DEF Send
  <2>2. UNCHANGED chain BY <2>1 DEF inbound
  <2> QED BY <1>0, <1>1, <1>2, <2>1, <2>2, LinkSends, OutSends, InStands DEF WsInv
<1>3. ASSUME NEW fails \in BOOLEAN, FlushNext(fails) PROVE WsInv'
  <2>1. UNCHANGED << wire, plan, pulse, poll, inbound, calls >> /\ Transmit(Head(flushing), fails)
    BY <1>3 DEF FlushNext
  <2>2. UNCHANGED chain BY <2>1 DEF inbound
  <2>3. Head(flushing) \in Frames BY <1>0, <1>3 DEF OutInv, FlushNext
  <2> QED BY <1>0, <1>1, <1>3, <2>1, <2>2, <2>3, LinkSends, OutFlushesNext, InStands DEF WsInv
<1>4. ASSUME NEW b \in {"low", "middle", "high"}, Buffers(b) PROVE WsInv'
  <2>1. UNCHANGED << wire, plan, pulse, poll, paused, outbound, inbound, calls >> BY <1>4 DEF Buffers
  <2>2. UNCHANGED chain BY <2>1 DEF inbound
  <2> QED BY <1>0, <2>1, <2>2, LinkSends, OutStands, InStands DEF WsInv
<1>5. CASE PollFires
  <2>1. UNCHANGED << wire, plan, pulse, outbound, inbound, calls >> BY <1>5 DEF PollFires
  <2>2. UNCHANGED chain BY <2>1 DEF inbound
  <2> QED BY <1>0, <1>5, <2>1, <2>2, LinkSends, OutStands, InStands DEF WsInv
<1> QED BY <1>2, <1>3, <1>4, <1>5 DEF SendingNext

(* Receiving, and the heartbeat.                                           *)
LEMMA WsReceivingStep == ASSUME WsInv, ReceivingNext PROVE WsInv'
<1>0. WsType /\ LinkInv /\ OutInv /\ InInv /\ chain \in Seq(WsSteps) BY DEF WsInv, WsType
<1>1. CASE BeatFires \/ Pong \/ DeadlinePasses
  <2>1. UNCHANGED << outbound, inbound >> BY <1>1 DEF BeatFires, Pong, DeadlinePasses
  <2> QED BY <1>0, <1>1, <2>1, LinkBeats, OutStands, InStands DEF WsInv
<1>2. ASSUME NEW blob \in BOOLEAN, Arrives(blob) PROVE WsInv'
  <2>1. UNCHANGED outbound BY <1>2 DEF Arrives
  <2> QED BY <1>0, <1>2, <2>1, LinkArrives, InArrives, OutStands DEF WsInv
<1>3. ASSUME NEW fails \in BOOLEAN, ChainDelivers(fails) PROVE WsInv'
  <2>1. UNCHANGED outbound BY <1>3 DEF ChainDelivers
  <2>2. InInv' BY <1>0, <1>3, InChainMoves DEF ChainDelivers
  <2> QED BY <1>0, <1>3, <2>1, <2>2, LinkDelivers, OutStands DEF WsInv
<1>4. CASE ChainCloses
  <2>1. UNCHANGED outbound BY <1>4 DEF ChainCloses
  <2>2. InInv' BY <1>0, <1>4, InChainMoves DEF ChainCloses
  <2> QED BY <1>0, <1>4, <2>1, <2>2, LinkChainCloses, OutStands DEF WsInv
<1> QED BY <1>1, <1>2, <1>3, <1>4 DEF ReceivingNext

-----------------------------------------------------------------------------
(* Of every client and of the adapter: one live socket or session, a way   *)
(* back to a link until told to stop or out of attempts, a fate for each   *)
(* frame, the frames in the order they came in, an end told once and a     *)
(* drain that completes (powerWebSocketClient.js,                          *)
(* powerWebTransportClient.js, powerSocketAdapter.js).  A connect() while  *)
(* a reconnect is due (raced) is excused, and from the way back so are the *)
(* streams tier, a constructor that threw, and a session that ended before *)
(* it was open (broken, ghost).                                            *)
THEOREM LinksAlwaysSound == Spec => []LinksAreSound
<1> DEFINE I == /\ part \in {"sending", "receiving"} => WsInv
                /\ part = "transport" => WtInv
                /\ part = "adapter" => AdInv
<1>1. Init => I BY WsStarts, WtStarts, AdStarts DEF Init
<1>2. I /\ [Next]_realtimeVars => I'
  <2> SUFFICES ASSUME I, [Next]_realtimeVars PROVE I'
    OBVIOUS
  <2>1. CASE Next
    <3>1. /\ part' = part
          /\ part = "sending" => LinkNext \/ SendingNext
          /\ part = "receiving" => LinkNext \/ ReceivingNext
          /\ part = "transport" => WtNext
          /\ part = "adapter" => AdNext
      BY <2>1 DEF Next, ClientNext, ChannelNext
    <3> QED BY <3>1, WsLinkStep, WsSendingStep, WsReceivingStep, WtStep, AdStep
  <2>2. CASE UNCHANGED realtimeVars
    <3>1. part' = part /\ UNCHANGED wsVars /\ UNCHANGED wtVars /\ UNCHANGED adVars
      BY <2>2 DEF realtimeVars, linkVars
    <3> QED BY <3>1, WsStands, WtStands, AdStands
  <2> QED BY <2>1, <2>2
<1>3. I => LinksAreSound BY WsKeepsPromises, WtKeepsPromises, AdKeepsPromises DEF LinksAreSound
<1> QED BY <1>1, <1>2, <1>3, PTL DEF Spec

-----------------------------------------------------------------------------
(***************************************************************************)
(* The broadcast bus.  The frames are numbered as they are sent, and a     *)
(* frame that waits is one of them.                                        *)
(***************************************************************************)
Awaited(r) == {seq \in unacked : sentTo[seq] = r}

BcType ==
  /\ sentTo \in Seq(Receivers) /\ unacked \subseteq 1..Len(sentTo)
  /\ counts \in [Receivers -> Nat]

BcInv == BcType /\ BroadcastIsSound

(* Before the first frame.                                                 *)
LEMMA BcStarts == BcInit => BcInv
<1> SUFFICES ASSUME BcInit PROVE BcInv OBVIOUS
<1>1. \A r \in Receivers : {seq \in unacked : sentTo[seq] = r} = {} BY DEF BcInit
<1>2. \A r \in Receivers : counts[r] = Cardinality({seq \in unacked : sentTo[seq] = r})
  BY <1>1, FS_EmptySet DEF BcInit
<1> QED BY <1>2 DEF BcInit, BcInv, BcType, BroadcastIsSound

(* A receiver's count goes with its frames.                                *)
LEMMA BcCounts ==
  ASSUME BcInv
  PROVE  \A r \in Receivers : /\ IsFiniteSet(Awaited(r)) /\ counts[r] = Cardinality(Awaited(r))
                              /\ counts[r] \in Nat
<1>1. IsFiniteSet(1..Len(sentTo)) BY FS_Interval DEF BcInv, BcType
<1>2. \A r \in Receivers : Awaited(r) \subseteq 1..Len(sentTo) BY DEF BcInv, BcType, Awaited
<1>3. \A r \in Receivers : IsFiniteSet(Awaited(r)) BY <1>1, <1>2, FS_Subset
<1> QED BY <1>3 DEF BcInv, BcType, BroadcastIsSound, Awaited

(* A frame that was settled, by its receiver or by the clock.              *)
LEMMA BcSettles ==
  ASSUME BcInv, NEW seq \in unacked, NEW r \in Receivers, sentTo[seq] = r,
         unacked' = unacked \ {seq}, counts' = OneLess(r), UNCHANGED sentTo, slow' = silent', told' = slow'
  PROVE  BcInv'
<1>1. r \in Receivers /\ seq \in Awaited(r) BY DEF Awaited
<1>2. Awaited(r)' = Awaited(r) \ {seq} /\ \A q \in Receivers : q # r => Awaited(q)' = Awaited(q)
  BY DEF Awaited
<1>3. /\ counts' \in [Receivers -> Nat] /\ counts'[r] = (IF counts[r] <= 1 THEN 0 ELSE counts[r] - 1)
      /\ \A q \in Receivers : q # r => counts'[q] = counts[q]
  BY <1>1, BcCounts DEF BcInv, BcType, OneLess
<1>4. IsFiniteSet(Awaited(r)) /\ counts[r] = Cardinality(Awaited(r)) /\ counts[r] \in Nat BY <1>1, BcCounts
<1>5. Cardinality(Awaited(r) \ {seq}) = counts[r] - 1 BY <1>1, <1>4, FS_RemoveElement
<1>6. counts[r] # 0 BY <1>1, <1>4, FS_EmptySet
<1>7. counts'[r] = counts[r] - 1 BY <1>3, <1>4, <1>6
<1>8. \A q \in Receivers : counts'[q] = Cardinality(Awaited(q)')
  <2> TAKE q \in Receivers
  <2>1. CASE q = r BY <1>2, <1>5, <1>7, <2>1
  <2>2. CASE q # r BY <1>2, <1>3, <2>2, BcCounts
  <2> QED BY <2>1, <2>2
<1> QED BY <1>3, <1>8 DEF BcInv, BcType, BroadcastIsSound, Awaited

(* Each frame, acknowledgement, timer and end of the bus.                  *)
LEMMA BcStep == ASSUME BcInv, BcNext PROVE BcInv'
<1>0. /\ sentTo \in Seq(Receivers) /\ unacked \subseteq 1..Len(sentTo)
      /\ counts \in [Receivers -> Nat] /\ slow = silent /\ told = slow
  BY DEF BcInv, BcType, BroadcastIsSound
<1>1. ASSUME NEW r \in Receivers, Broadcast(r) PROVE BcInv'
  <2> DEFINE n == Len(sentTo)
  <2>0. DOMAIN sentTo = 1..n /\ n \in Nat BY <1>0
  <2>1. DOMAIN sentTo = 1..n /\ n \in Nat /\ Cardinality(1..n) = n
    <3> HIDE DEF n
    <3>1. n = 0 \/ n >= 1 BY <2>0
    <3> QED BY <2>0, <3>1, FS_Interval, FS_EmptySet
  <2>2. sentTo' = [s \in 1..(n + 1) |-> IF s = n + 1 THEN r ELSE sentTo[s]] /\ unacked' = unacked \cup {n + 1}
    BY <1>1, <2>1 DEF Broadcast
  <2> HIDE DEF n
  <2>3. \A s \in 1..(n + 1) : sentTo'[s] \in Receivers BY <1>0, <2>1, <2>2
  <2>4. sentTo' \in Seq(Receivers) /\ Len(sentTo') = n + 1 BY <2>1, <2>2, <2>3
  <2>5. unacked \subseteq 1..n BY <1>0 DEF n
  <2>6. unacked' \subseteq 1..Len(sentTo') BY <2>1, <2>2, <2>4, <2>5
  <2>7. n + 1 \notin unacked /\ \A s \in unacked : sentTo'[s] = sentTo[s] BY <2>1, <2>2, <2>5
  <2>8. sentTo'[n + 1] = r BY <2>1, <2>2
  <2>9. Awaited(r)' = Awaited(r) \cup {n + 1} /\ n + 1 \notin Awaited(r)
        /\ \A q \in Receivers : q # r => Awaited(q)' = Awaited(q)
    BY <2>2, <2>7, <2>8 DEF Awaited
  <2>10. /\ counts' \in [Receivers -> Nat] /\ counts'[r] = counts[r] + 1
         /\ \A q \in Receivers : q # r => counts'[q] = counts[q]
    BY <1>0, <1>1 DEF Broadcast
  <2>11. Cardinality(Awaited(r) \cup {n + 1}) = counts[r] + 1 BY <2>9, BcCounts, FS_AddElement
  <2>12. \A q \in Receivers : counts'[q] = Cardinality(Awaited(q)')
    <3> TAKE q \in Receivers
    <3>1. CASE q = r BY <2>9, <2>10, <2>11, <3>1
    <3>2. CASE q # r BY <2>9, <2>10, <3>2, BcCounts
    <3> QED BY <3>1, <3>2
  <2> QED BY <1>0, <1>1, <2>4, <2>6, <2>10, <2>12 DEF Broadcast, BcInv, BcType, BroadcastIsSound, Awaited
<1>2. ASSUME NEW seq \in 1..MaxFrames, AckTimesOut(seq) PROVE BcInv'
  <2>1. seq \in unacked /\ unacked' = unacked \ {seq} /\ counts' = OneLess(sentTo[seq]) /\ UNCHANGED sentTo
    BY <1>2 DEF AckTimesOut
  <2>2. slow' = silent' /\ told' = slow' BY <1>0, <1>2 DEF AckTimesOut
  <2>3. sentTo[seq] \in Receivers BY <1>0, <2>1
  <2> QED BY <2>1, <2>2, <2>3, BcSettles
<1>3. ASSUME NEW seq \in 1..MaxFrames, NEW r \in Receivers, Acknowledged(seq, r) PROVE BcInv'
  <2>1. CASE Settles(seq, r)
    <3>1. seq \in unacked /\ sentTo[seq] = r BY <2>1 DEF Settles
    <3>2. unacked' = unacked \ {seq} /\ counts' = OneLess(sentTo[seq]) /\ UNCHANGED sentTo
      BY <1>3, <2>1 DEF Acknowledged
    <3>3. slow' = silent' /\ told' = slow' BY <1>0, <1>3, <2>1, <3>1 DEF Acknowledged
    <3> QED BY <3>1, <3>2, <3>3, BcSettles
  <2>2. CASE ~Settles(seq, r)
    <3>1. UNCHANGED << unacked, counts, sentTo >> /\ slow' = silent' /\ told' = slow'
      BY <1>0, <1>3, <2>2 DEF Acknowledged
    <3> QED BY <3>1 DEF BcInv, BcType, BroadcastIsSound
  <2> QED BY <2>1, <2>2
<1>4. ASSUME NEW r \in Receivers, CloseReceiver(r) PROVE BcInv'
  <2>1. unacked' = unacked \ Awaited(r) /\ counts' = [counts EXCEPT ![r] = 0] /\ UNCHANGED sentTo
    BY <1>4 DEF CloseReceiver, Forgotten, Awaited
  <2>2. Awaited(r)' = {} /\ \A q \in Receivers : q # r => Awaited(q)' = Awaited(q) BY <2>1 DEF Awaited
  <2>3. \A q \in Receivers : counts'[q] = Cardinality(Awaited(q)')
    BY <1>0, <2>1, <2>2, BcCounts, FS_EmptySet
  <2>4. slow' = silent' /\ told' = slow' BY <1>0, <1>4 DEF CloseReceiver
  <2> QED BY <1>0, <2>1, <2>3, <2>4 DEF BcInv, BcType, BroadcastIsSound, Awaited
<1>5. CASE DisposeBroadcast
  <2>1. \A q \in Receivers : Awaited(q)' = {} BY <1>5 DEF DisposeBroadcast, Awaited
  <2>2. \A q \in Receivers : counts'[q] = Cardinality(Awaited(q)') BY <1>5, <2>1, FS_EmptySet DEF DisposeBroadcast
  <2> QED BY <1>0, <1>5, <2>2 DEF DisposeBroadcast, BcInv, BcType, BroadcastIsSound, Awaited
<1> QED BY <1>1, <1>2, <1>3, <1>4, <1>5 DEF BcNext

(* While other parts move.                                                 *)
LEMMA BcStands == ASSUME BcInv, UNCHANGED bcVars PROVE BcInv'
BY DEF bcVars, BcInv, BcType, BroadcastIsSound

-----------------------------------------------------------------------------
(* Recursion over the places of a sequence.                                *)

(* A non-empty set of numbers has a least element.                         *)
LEMMA LeastExists ==
  ASSUME NEW T, T \subseteq Nat, T # {}
  PROVE  \E c \in T : \A d \in T : c <= d
<1> DEFINE R == OpToRel(<, Nat)
<1>1. R = {ss \in Nat \X Nat : ss[1] < ss[2]} BY DEF OpToRel
<1>2. PICK c \in T : \A d \in T : ~(<< d, c >> \in R)
  <2> HIDE DEF R
  <2>1. IsWellFoundedOn(R, Nat) BY NatLessThanWellFounded DEF R
  <2> QED BY <2>1, WFMin
<1>3. ASSUME NEW d \in T, ~(c <= d) PROVE FALSE
  <2>1. c \in Nat /\ d \in Nat /\ d < c BY <1>3
  <2>2. << d, c >> \in R BY <1>1, <2>1
  <2> QED BY <1>2, <2>2
<1> HIDE DEF R
<1> QED BY <1>3

(* What holds at the beginning, and after each step, holds on the way.     *)
LEMMA UpTo ==
  ASSUME NEW n \in Nat, NEW T, 0 \in T, \A i \in 1..n : i - 1 \in T => i \in T
  PROVE  \A i \in 0..n : i \in T
<1> DEFINE C == {i \in 0..n : i \notin T}
<1>1. ASSUME C # {} PROVE FALSE
  <2>1. C \subseteq Nat OBVIOUS
  <2>2. PICK c \in C : \A d \in C : c <= d
    <3> HIDE DEF C
    <3> QED BY <1>1, <2>1, LeastExists
  <2>3. c \in 1..n /\ c - 1 \in 0..n BY <2>2
  <2>4. c - 1 \notin C BY <2>2, <2>3
  <2> QED BY <2>2, <2>3, <2>4
<1> QED BY <1>1

(* A recursion over the places of a sequence has a result.                 *)
Recursion(f, n, V, b, G) ==
  f \in [0..n -> V] /\ f[0] = b /\ \A i \in 1..n : f[i] = G[<< i, f[i - 1] >>]

LEMMA StepwiseExists ==
  ASSUME NEW n \in Nat, NEW V, NEW b \in V, NEW G \in [(1..n) \X V -> V]
  PROVE  \E f : Recursion(f, n, V, b, G)
<1> DEFINE Upto(m, f) == f \in [0..m -> V] /\ f[0] = b /\ \A i \in 1..m : f[i] = G[<< i, f[i - 1] >>]
           T == {m \in 0..n : \E f : Upto(m, f)}
<1>1. 0 \in T
  <2>1. Upto(0, [i \in 0..0 |-> b]) OBVIOUS
  <2>2. 0 \in 0..n OBVIOUS
  <2> HIDE DEF Upto
  <2> QED BY <2>1, <2>2
<1>2. ASSUME NEW m \in 1..n, m - 1 \in T PROVE m \in T
  <2>1. PICK f : Upto(m - 1, f) BY <1>2
  <2> DEFINE g == [i \in 0..m |-> IF i = m THEN G[<< m, f[m - 1] >>] ELSE f[i]]
  <2>2. f[m - 1] \in V BY <2>1
  <2>3. G[<< m, f[m - 1] >>] \in V BY <2>2
  <2>4. g \in [0..m -> V]
    <3> SUFFICES ASSUME NEW i \in 0..m PROVE g[i] \in V BY Zenon
    <3>1. CASE i = m BY <2>3, <3>1
    <3>2. CASE i # m
      <4>1. i \in 0..(m - 1) BY <3>2
      <4> QED BY <2>1, <3>2, <4>1
    <3> QED BY <3>1, <3>2
  <2>5. g[0] = b BY <2>1
  <2>6. ASSUME NEW i \in 1..m PROVE g[i] = G[<< i, g[i - 1] >>]
    <3>1. g[i - 1] = f[i - 1] BY <2>6
    <3>2. CASE i = m BY <3>1, <3>2
    <3>3. CASE i # m
      <4>1. i \in 1..(m - 1) /\ i \in 0..m BY <3>3
      <4>2. g[i] = f[i] BY <3>3, <4>1
      <4> QED BY <2>1, <3>1, <4>1, <4>2
    <3> QED BY <3>2, <3>3
  <2>7. Upto(m, g)
    <3> HIDE DEF g
    <3> QED BY <2>4, <2>5, <2>6
  <2> HIDE DEF g, Upto
  <2> QED BY <2>7
<1>3. \A i \in 0..n : i \in T
  <2> HIDE DEF T
  <2> QED BY <1>1, <1>2, UpTo
<1>4. PICK f : Upto(n, f) BY <1>3
<1> QED BY <1>4 DEF Recursion

(* A sequence without some of its members keeps the others in their order. *)
Sifts(F, s, T) ==
  F[0] = << >> /\ \A i \in 1..Len(s) : F[i] = IF s[i] \in T THEN Append(F[i - 1], s[i]) ELSE F[i - 1]

Sieved(q, s, S, T) ==
  /\ q \in Seq(S) /\ Len(q) <= Len(s)
  /\ \A x : (\E k \in 1..Len(q) : q[k] = x) <=> x \in T /\ \E j \in 1..Len(s) : s[j] = x
  /\ S \subseteq Int /\ (\A i, j \in 1..Len(s) : i < j => s[i] < s[j]) =>
       \A i, j \in 1..Len(q) : i < j => q[i] < q[j]
  /\ (\A i, j \in 1..Len(s) : s[i] = s[j] => i = j) => \A i, j \in 1..Len(q) : q[i] = q[j] => i = j

LEMMA FilterKeeps ==
  ASSUME NEW S, NEW s \in Seq(S), NEW T, NEW F, Sifts(F, s, T)
  PROVE  Sieved(F[Len(s)], s, S, T)
<1> DEFINE n == Len(s)
           Typed(i) == F[i] \in Seq(S) /\ Len(F[i]) <= i
           From(i) == \A x : (\E k \in 1..Len(F[i]) : F[i][k] = x) <=> x \in T /\ \E j \in 1..i : s[j] = x
           Up(i) == \A k, m \in 1..Len(F[i]) : k < m => F[i][k] < F[i][m]
           Once(i) == \A k, m \in 1..Len(F[i]) : F[i][k] = F[i][m] => k = m
           rises == S \subseteq Int /\ \A i, j \in 1..n : i < j => s[i] < s[j]
           single == \A i, j \in 1..n : s[i] = s[j] => i = j
           A == {i \in 0..n : Typed(i) /\ From(i) /\ (rises => Up(i)) /\ (single => Once(i))}
<1>0. /\ n \in Nat /\ \A i \in 1..n : s[i] \in S
      /\ F[0] = << >> /\ \A i \in 1..n : F[i] = IF s[i] \in T THEN Append(F[i - 1], s[i]) ELSE F[i - 1]
  BY DEF Sifts
<1>1. 0 \in A
  <2>1. F[0] = << >> /\ Len(F[0]) = 0 /\ 1..0 = {} /\ 0 \in 0..n BY <1>0
  <2>2. Typed(0) BY <2>1
  <2>3. From(0) /\ Up(0) /\ Once(0) BY <2>1
  <2> QED BY <2>1, <2>2, <2>3
<1>2. ASSUME NEW i \in 1..n, i - 1 \in A PROVE i \in A
  <2>0. /\ i \in 0..n /\ i - 1 \in 0..n /\ s[i] \in S
        /\ 1..i = 1..(i - 1) \cup {i} /\ i \notin 1..(i - 1) /\ \A j \in 1..(i - 1) : j \in 1..n /\ j < i
    BY <1>0
  <2>1. Typed(i - 1) /\ From(i - 1) /\ (rises => Up(i - 1)) /\ (single => Once(i - 1)) BY <1>2
  <2>2. CASE s[i] \notin T
    <3>1. F[i] = F[i - 1] BY <1>0, <2>2
    <3>2. Typed(i) BY <2>0, <2>1, <3>1
    <3>3. \A x : (\E j \in 1..i : s[j] = x) <=> x = s[i] \/ \E j \in 1..(i - 1) : s[j] = x BY <2>0
    <3>4. From(i) BY <2>1, <2>2, <3>1, <3>3
    <3>5. (rises => Up(i)) /\ (single => Once(i)) BY <2>1, <3>1
    <3> QED BY <2>0, <3>2, <3>4, <3>5
  <2>3. CASE s[i] \in T
    <3> DEFINE p == F[i - 1]
               l == Len(p)
    <3>0. F[i] = Append(p, s[i]) BY <1>0, <2>3
    <3>a. p \in Seq(S) /\ l <= i - 1 BY <2>1
    <3>1. F[i] = Append(p, s[i]) /\ p \in Seq(S) /\ l \in Nat /\ l <= i - 1 BY <3>0, <3>a
    <3> HIDE DEF p
    <3>2. /\ F[i] \in Seq(S) /\ Len(F[i]) = l + 1 /\ F[i][l + 1] = s[i]
          /\ \A k \in 1..l : F[i][k] = p[k]
      BY <2>0, <3>1
    <3>3. Typed(i) BY <2>0, <3>1, <3>2
    <3>4. 1..Len(F[i]) = 1..l \cup {l + 1} BY <3>1, <3>2
    <3>5. \A x : (\E k \in 1..Len(F[i]) : F[i][k] = x) <=> x = s[i] \/ \E k \in 1..l : p[k] = x
      <4> HIDE DEF l
      <4> QED BY <3>2, <3>4
    <3>6. \A x : (\E j \in 1..i : s[j] = x) <=> x = s[i] \/ \E j \in 1..(i - 1) : s[j] = x BY <2>0
    <3>7. \A x : (\E k \in 1..l : p[k] = x) <=> x \in T /\ \E j \in 1..(i - 1) : s[j] = x BY <2>1 DEF p
    <3>8. From(i)
      <4> HIDE DEF l
      <4> QED BY <2>3, <3>5, <3>6, <3>7
    <3>9. \A k \in 1..l : \E j \in 1..(i - 1) : s[j] = p[k] BY <3>7
    <3>10. ASSUME rises PROVE Up(i)
      <4>1. \A k \in 1..l : p[k] < s[i] /\ p[k] \in Int BY <1>0, <2>0, <3>9, <3>10
      <4>2. \A k, m \in 1..l : k < m => p[k] < p[m] BY <2>1, <3>10 DEF p
      <4> SUFFICES ASSUME NEW k \in 1..Len(F[i]), NEW m \in 1..Len(F[i]), k < m PROVE F[i][k] < F[i][m]
        OBVIOUS
      <4>3. k \in 1..l BY <3>1, <3>2
      <4>4. CASE m = l + 1 BY <3>2, <4>1, <4>3, <4>4
      <4>5. CASE m # l + 1
        <5>1. m \in 1..l BY <3>1, <3>2, <4>5
        <5> QED BY <3>2, <4>2, <4>3, <5>1
      <4> QED BY <4>4, <4>5
    <3>11. ASSUME single PROVE Once(i)
      <4>1. \A k \in 1..l : p[k] # s[i] BY <1>0, <2>0, <3>9, <3>11
      <4>2. \A k, m \in 1..l : p[k] = p[m] => k = m BY <2>1, <3>11 DEF p
      <4> SUFFICES ASSUME NEW k \in 1..Len(F[i]), NEW m \in 1..Len(F[i]), F[i][k] = F[i][m] PROVE k = m
        OBVIOUS
      <4>3. k \in 1..l \/ k = l + 1 BY <3>4
      <4>4. m \in 1..l \/ m = l + 1 BY <3>4
      <4> HIDE DEF l
      <4> QED BY <3>2, <4>1, <4>2, <4>3, <4>4
    <3> QED BY <2>0, <3>3, <3>8, <3>10, <3>11
  <2> QED BY <2>2, <2>3
<1>3. \A i \in 0..n : i \in A
  <2> HIDE DEF A, n
  <2> QED BY <1>0, <1>1, <1>2, UpTo
<1>4. n \in A
  <2> HIDE DEF A, n
  <2> QED BY <1>0, <1>3
<1> QED BY <1>4 DEF Sieved

LEMMA SiftExists ==
  ASSUME NEW S, NEW s \in Seq(S), NEW T
  PROVE  \E f : f \in [0..Len(s) -> Seq(S)] /\ Sifts(f, s, T)
<1> DEFINE n == Len(s)
           V == Seq(S)
           G == [p \in (1..n) \X V |-> IF s[p[1]] \in T THEN Append(p[2], s[p[1]]) ELSE p[2]]
<1>1. n \in Nat /\ << >> \in V /\ \A i \in 1..n : s[i] \in S OBVIOUS
<1>2. G \in [(1..n) \X V -> V] BY <1>1
<1>3. PICK f : Recursion(f, n, V, << >>, G)
  <2> HIDE DEF G, n, V
  <2> QED BY <1>1, <1>2, StepwiseExists
<1>4. f \in [0..n -> V] /\ f[0] = << >> /\ \A i \in 1..n : f[i] = G[<< i, f[i - 1] >>]
  <2> HIDE DEF G, n, V
  <2> QED BY <1>3 DEF Recursion
<1>5. ASSUME NEW i \in 1..n
      PROVE  f[i] = IF s[i] \in T THEN Append(f[i - 1], s[i]) ELSE f[i - 1]
  <2>1. i - 1 \in 0..n BY <1>1
  <2>2. f[i - 1] \in V
    <3> HIDE DEF G, n, V
    <3> QED BY <1>4, <2>1
  <2>3. << i, f[i - 1] >> \in (1..n) \X V BY <2>2
  <2>4. f[i] = G[<< i, f[i - 1] >>] BY <1>4
  <2> QED BY <2>3, <2>4
<1> HIDE DEF G
<1>6. Sifts(f, s, T) BY <1>4, <1>5 DEF Sifts
<1> QED BY <1>4, <1>6

-----------------------------------------------------------------------------
(***************************************************************************)
(* The datagram channel, the sequencer and the heartbeat.  A datagram is   *)
(* in the queue once; what the sequencer holds back is behind a hole.      *)
(***************************************************************************)

(* What is left of a queue.                                                *)
LEMMA OnlyKeeps ==
  ASSUME NEW S, NEW s \in Seq(S), NEW T
  PROVE  /\ Only(s, T) \in Seq(S) /\ Len(Only(s, T)) <= Len(s)
         /\ ToSet(Only(s, T)) = ToSet(s) \cap T
         /\ IsInjective(s) => IsInjective(Only(s, T))
<1> DEFINE Step(f) == [i \in 0..Len(s) |-> IF i = 0 THEN << >> ELSE
                                           IF s[i] \in T THEN Append(f[i - 1], s[i]) ELSE f[i - 1]]
           only == CHOOSE f : f = Step(f)
<1>1. Len(s) \in Nat /\ 0 \in 0..Len(s) /\ \A i \in 1..Len(s) : i \in 0..Len(s) /\ i # 0 OBVIOUS
<1>2. PICK f : f \in [0..Len(s) -> Seq(S)] /\ Sifts(f, s, T) BY SiftExists
<1>3. f = Step(f)
  <2>1. \A i \in 0..Len(s) : i = 0 \/ i \in 1..Len(s) BY <1>1
  <2> QED BY <1>2, <2>1 DEF Sifts
<1>4. only = Step(only)
  <2> HIDE DEF Step
  <2> QED BY <1>3
<1>5. Only(s, T) = only[Len(s)] BY DEF Only
<1> HIDE DEF only
<1>6. Sifts(only, s, T)
  <2>1. only[0] = << >> BY <1>1, <1>4
  <2>2. \A i \in 1..Len(s) : only[i] = IF s[i] \in T THEN Append(only[i - 1], s[i]) ELSE only[i - 1]
    BY <1>1, <1>4
  <2> QED BY <2>1, <2>2 DEF Sifts
<1>7. Sieved(Only(s, T), s, S, T) BY <1>5, <1>6, FilterKeeps
<1> DEFINE q == Only(s, T)
<1>8. /\ q \in Seq(S) /\ Len(q) <= Len(s)
      /\ \A x : (\E k \in 1..Len(q) : q[k] = x) <=> x \in T /\ \E j \in 1..Len(s) : s[j] = x
      /\ (\A i, j \in 1..Len(s) : s[i] = s[j] => i = j) => \A i, j \in 1..Len(q) : q[i] = q[j] => i = j
  BY <1>7 DEF Sieved
<1> HIDE DEF q
<1>9. DOMAIN s = 1..Len(s) /\ DOMAIN q = 1..Len(q) BY <1>8
<1>10. ToSet(q) = ToSet(s) \cap T
  <2>1. \A x : x \in ToSet(q) <=> \E k \in 1..Len(q) : q[k] = x BY <1>9 DEF ToSet
  <2>2. \A x : x \in ToSet(s) <=> \E k \in 1..Len(s) : s[k] = x BY <1>9 DEF ToSet
  <2> QED BY <1>8, <2>1, <2>2
<1>11. IsInjective(s) => IsInjective(q) BY <1>8, <1>9 DEF IsInjective
<1> QED BY <1>8, <1>10, <1>11 DEF q

DgFates == {"new", "queued", "dropped", "failed", "fragments", "sent", "oversize"}

DgType ==
  /\ fate \in [Datagrams -> DgFates]
  /\ dq \in Seq(Datagrams) /\ flying \subseteq Datagrams
  /\ nextSeq \in Nat /\ held \subseteq Nat /\ gaps \in Nat /\ waited \subseteq Nat

DgInv == DgType /\ DatagramsAreSound

(* What a set of small numbers has at its end.                             *)
LEMMA MaxOfUpTo ==
  ASSUME NEW w \in Nat, NEW T, T \subseteq 0..w, 0 \in T
  PROVE  Max(T) \in T /\ \A j \in T : j <= Max(T)
<1> DEFINE U == {w - j : j \in T}
<1>1. U \subseteq Nat /\ U # {} OBVIOUS
<1>2. PICK c \in U : \A d \in U : c <= d
  <2> HIDE DEF U
  <2> QED BY <1>1, LeastExists
<1>3. PICK m \in T : c = w - m BY <1>2
<1>4. \A j \in T : m >= j
  <2> TAKE j \in T
  <2>1. w - j \in U OBVIOUS
  <2>2. c <= w - j BY <1>2, <2>1
  <2>3. j \in Int /\ m \in Int OBVIOUS
  <2> QED BY <1>3, <2>2, <2>3
<1>5. Max(T) \in T /\ \A j \in T : Max(T) >= j BY <1>3, <1>4 DEF Max
<1> QED BY <1>5

(* The numbers that are released are all there were without a hole.        *)
LEMMA ReleasedUpTo ==
  ASSUME NEW h, h \subseteq Nat, nextSeq \in Nat
  PROVE  \E k \in 0..WindowSize :
           /\ Released(h) = [i \in 1..k |-> nextSeq + i - 1]
           /\ nextSeq..(nextSeq + k - 1) \subseteq h
           /\ k < WindowSize => nextSeq + k \notin h
<1> DEFINE T == {j \in 0..WindowSize : nextSeq..(nextSeq + j - 1) \subseteq h}
           k == Max(T)
<1>0. WindowSize \in Nat BY DatagramConstants
<1>1. T \subseteq 0..WindowSize /\ 0 \in T BY <1>0
<1>2. k \in T /\ \A j \in T : j <= k
  <2> HIDE DEF T
  <2> QED BY <1>0, <1>1, MaxOfUpTo
<1>3. Released(h) = [i \in 1..k |-> nextSeq + i - 1] BY DEF Released
<1> HIDE DEF k
<1>4. ASSUME k < WindowSize, nextSeq + k \in h PROVE FALSE
  <2>1. k \in 0..WindowSize /\ k + 1 \in 0..WindowSize BY <1>0, <1>2, <1>4
  <2>2. nextSeq..(nextSeq + (k + 1) - 1) = nextSeq..(nextSeq + k - 1) \cup {nextSeq + k} BY <2>1
  <2>3. k + 1 \in T BY <1>2, <1>4, <2>1, <2>2
  <2> QED BY <1>2, <2>1, <2>3
<1> QED BY <1>2, <1>3, <1>4

(* A number that comes in, whichever it is.                                *)
LEMMA PushKeeps ==
  ASSUME DgInv, NEW n \in Nat, Push(n)
  PROVE  InOrderOnce' /\ nextSeq' \in Nat /\ held' \subseteq Nat /\ gaps' \in Nat /\ waited' \subseteq Nat
<1>0. /\ nextSeq \in Nat /\ held \subseteq Nat /\ gaps \in Nat /\ waited \subseteq Nat /\ WindowSize \in Nat
      /\ handed = [i \in 1..nextSeq |-> i - 1]
      /\ \A m \in held : nextSeq < m /\ m < nextSeq + WindowSize
      /\ held # {} => gaps > 0 /\ \E m \in waited : m <= nextSeq
  BY DatagramConstants DEF DgInv, DgType, DatagramsAreSound, InOrderOnce
<1>1. CASE ~Accepts(n) BY <1>0, <1>1 DEF Push, sequencer, InOrderOnce
<1>2. CASE Accepts(n)
  <2> DEFINE h == held \cup {n}
             out == Released(h)
             opens == n # nextSeq /\ ~Waiting(held)
  <2>1. n >= nextSeq /\ n < nextSeq + WindowSize /\ n \notin held BY <1>2 DEF Accepts
  <2>2. /\ handed' = handed \o out /\ nextSeq' = nextSeq + Len(out) /\ held' = h \ ToSet(out)
        /\ gaps' = IF opens THEN gaps + 1 ELSE gaps
        /\ waited' = IF opens THEN waited \cup {nextSeq} ELSE waited
    BY <1>2 DEF Push
  <2>3. h \subseteq Nat BY <1>0
  <2>4. PICK k \in 0..WindowSize :
           /\ out = [i \in 1..k |-> nextSeq + i - 1]
           /\ nextSeq..(nextSeq + k - 1) \subseteq h
           /\ k < WindowSize => nextSeq + k \notin h
    BY <1>0, <2>3, ReleasedUpTo
  <2> HIDE DEF out
  <2>5. k \in Nat /\ Len(out) = k /\ DOMAIN out = 1..k /\ out \in Seq(Nat) BY <1>0, <2>4
  <2>6. ToSet(out) = nextSeq..(nextSeq + k - 1)
    <3>1. ToSet(out) = {out[i] : i \in 1..k} BY <2>5 DEF ToSet
    <3>2. \A i \in 1..k : out[i] \in nextSeq..(nextSeq + k - 1) BY <1>0, <2>4, <2>5
    <3>3. ASSUME NEW m \in nextSeq..(nextSeq + k - 1) PROVE \E i \in 1..k : out[i] = m
      <4>1. m - nextSeq + 1 \in 1..k BY <1>0, <2>5
      <4>2. out[m - nextSeq + 1] = m BY <1>0, <2>4, <4>1
      <4> QED BY <4>1, <4>2
    <3> QED BY <3>1, <3>2, <3>3
  <2>7. handed' = [i \in 1..nextSeq' |-> i - 1]
    <3>1. Len(handed) = nextSeq /\ handed \in Seq(Int) BY <1>0
    <3>2. nextSeq' = nextSeq + k BY <2>2, <2>5
    <3>3. Len(handed') = nextSeq + k /\ handed' \in Seq(Int) BY <2>2, <2>5, <3>1
    <3>4. ASSUME NEW i \in 1..(nextSeq + k) PROVE handed'[i] = i - 1
      <4>1. CASE i <= nextSeq
        <5>1. i \in 1..nextSeq BY <1>0, <2>5, <4>1
        <5>2. handed'[i] = handed[i] BY <2>2, <2>5, <3>1, <5>1
        <5> QED BY <1>0, <5>1, <5>2
      <4>2. CASE i > nextSeq
        <5>1. i - nextSeq \in 1..k BY <1>0, <2>5, <4>2
        <5>2. handed'[i] = out[i - nextSeq] BY <1>0, <2>2, <2>5, <3>1, <4>2
        <5>3. out[i - nextSeq] = nextSeq + (i - nextSeq) - 1 BY <2>4, <5>1
        <5> QED BY <1>0, <2>5, <5>2, <5>3
      <4> QED BY <1>0, <2>5, <4>1, <4>2
    <3> QED BY <3>2, <3>3, <3>4
  <2>8. \A m \in held' : nextSeq' < m /\ m < nextSeq' + WindowSize
    <3> TAKE m \in held'
    <3>1. m \in h /\ m \notin nextSeq..(nextSeq + k - 1) /\ m \in Nat BY <2>2, <2>3, <2>6
    <3>2. nextSeq <= m /\ m < nextSeq + WindowSize BY <1>0, <2>1, <3>1
    <3>3. m >= nextSeq + k BY <1>0, <2>5, <3>1, <3>2
    <3>4. k < WindowSize BY <1>0, <2>5, <3>2, <3>3, <3>1
    <3>5. m # nextSeq + k BY <2>4, <3>1, <3>4
    <3> QED BY <1>0, <2>2, <2>5, <3>1, <3>2, <3>3, <3>5
  <2>9. nextSeq' \in Nat /\ held' \subseteq Nat /\ gaps' \in Nat /\ waited' \subseteq Nat
    <3> HIDE DEF opens
    <3>1. nextSeq' \in Nat BY <1>0, <2>2, <2>5
    <3>2. held' \subseteq Nat
      <4> HIDE DEF h
      <4> QED BY <2>2, <2>3
    <3>3. gaps' \in Nat BY <1>0, <2>2
    <3>4. waited' \subseteq Nat BY <1>0, <2>2
    <3> QED BY <3>1, <3>2, <3>3, <3>4
  <2>10. ASSUME held' # {} PROVE gaps' > 0 /\ \E m \in waited' : m <= nextSeq'
    <3>1. nextSeq <= nextSeq' BY <1>0, <2>2, <2>5
    <3>2. CASE held # {}
      <4>1. PICK m \in waited : m <= nextSeq BY <1>0, <3>2
      <4> HIDE DEF opens
      <4>2. m \in waited' BY <2>2, <4>1
      <4>3. m \in Nat /\ gaps > 0 BY <1>0, <3>2
      <4>4. m <= nextSeq' BY <1>0, <2>9, <3>1, <4>1, <4>3
      <4>5. gaps' > 0 BY <1>0, <2>2, <4>3
      <4> QED BY <4>2, <4>4, <4>5
    <3>3. CASE held = {} /\ n # nextSeq
      <4>1. opens BY <3>3 DEF Waiting
      <4> HIDE DEF opens
      <4>2. gaps' = gaps + 1 /\ nextSeq \in waited' BY <2>2, <4>1
      <4>3. gaps' > 0 BY <1>0, <4>2
      <4> QED BY <3>1, <4>2, <4>3
    <3>4. CASE held = {} /\ n = nextSeq
      <4>1. PICK m \in held' : TRUE BY <2>10
      <4>2. m = nextSeq BY <2>2, <3>4, <4>1
      <4>3. nextSeq' < m BY <2>8, <4>1
      <4> QED BY <1>0, <2>9, <3>1, <4>2, <4>3
    <3> QED BY <3>2, <3>3, <3>4
  <2> QED BY <2>7, <2>8, <2>9, <2>10 DEF InOrderOnce
<1> QED BY <1>1, <1>2

(* A datagram the transport is not given: the oldest one makes room.       *)
LEMMA EnqueueKeeps ==
  ASSUME DgInv, NEW d \in Datagrams, fate[d] = "new", Enqueue(d), UNCHANGED flying
  PROVE  DatagramsAreAccounted' /\ fate' \in [Datagrams -> DgFates] /\ dq' \in Seq(Datagrams)
<1>0. /\ fate \in [Datagrams -> DgFates]
      /\ dq \in Seq(Datagrams) /\ MaxUnsent \in Nat
      /\ Len(dq) <= MaxUnsent /\ \A i, j \in 1..Len(dq) : dq[i] = dq[j] => i = j
      /\ \A e \in Datagrams : (fate[e] = "queued") <=> (\E i \in 1..Len(dq) : dq[i] = e)
      /\ flying \subseteq Datagrams /\ \A e \in flying : fate[e] = "sent"
  <2>1. DOMAIN dq = 1..Len(dq) BY DEF DgInv, DgType
  <2>2. \A e : e \in ToSet(dq) <=> \E i \in 1..Len(dq) : dq[i] = e BY <2>1 DEF ToSet
  <2>3. \A i, j \in 1..Len(dq) : dq[i] = dq[j] => i = j
    BY <2>1 DEF DgInv, DatagramsAreSound, DatagramsAreAccounted, IsInjective
  <2> QED BY <2>2, <2>3, DatagramConstants
    DEF DgInv, DgType, DatagramsAreSound, DatagramsAreAccounted
<1>1. SUFFICES /\ fate' \in [Datagrams -> DgFates]
               /\ dq' \in Seq(Datagrams) /\ Len(dq') <= MaxUnsent
               /\ \A i, j \in 1..Len(dq') : dq'[i] = dq'[j] => i = j
               /\ \A e \in Datagrams : (fate'[e] = "queued") <=> (\E i \in 1..Len(dq') : dq'[i] = e)
               /\ \A e \in flying : fate'[e] = "sent"
  <2>1. DOMAIN dq' = 1..Len(dq') BY <1>1
  <2>2. \A e : e \in ToSet(dq)' <=> \E i \in 1..Len(dq') : dq'[i] = e BY <2>1 DEF ToSet
  <2>3. IsInjective(dq)' BY <1>1, <2>1 DEF IsInjective
  <2> QED BY <1>0, <1>1, <2>2, <2>3 DEF DatagramsAreAccounted
<1>2. CASE MaxUnsent = 0
  <2>1. /\ dq' = dq /\ dq' = << >> /\ Len(dq') = 0 BY <1>0, <1>2 DEF Enqueue
  <2>2. \A e \in Datagrams : fate'[e] = IF e = d THEN "dropped" ELSE fate[e] BY <1>2 DEF Enqueue
  <2>3. fate' \in [Datagrams -> DgFates]
    BY <1>0, <1>2 DEF Enqueue, DgFates
  <2> QED BY <1>0, <2>1, <2>2, <2>3
<1>3. CASE MaxUnsent # 0
  <2> DEFINE full == Len(dq) >= MaxUnsent
             kept == IF full THEN Tail(dq) ELSE dq
  <2>1. dq' = Append(kept, d) BY <1>3 DEF Enqueue
  <2>2. \A e \in Datagrams : fate'[e] = IF e = d THEN "queued" ELSE
                                        IF full /\ e = Head(dq) THEN "dropped" ELSE fate[e]
    BY <1>0, <1>3 DEF Enqueue
  <2>3. fate' \in [Datagrams -> DgFates]
    <3>1. fate' = [e \in Datagrams |-> fate'[e]] BY DEF Enqueue
    <3>2. \A e \in Datagrams : fate'[e] \in DgFates
      BY <1>0, <2>2 DEF DgFates
    <3> QED BY <3>1, <3>2
  <2>4. \A i \in 1..Len(dq) : dq[i] \in Datagrams /\ dq[i] # d BY <1>0
  <2>5. /\ kept \in Seq(Datagrams) /\ Len(kept) < MaxUnsent /\ Len(kept) \in Nat
        /\ \A i, j \in 1..Len(kept) : kept[i] = kept[j] => i = j
        /\ \A e \in Datagrams : (\E i \in 1..Len(kept) : kept[i] = e)
             <=> (\E i \in 1..Len(dq) : dq[i] = e) /\ ~(full /\ e = Head(dq))
    <3>1. CASE ~full BY <1>0, <3>1
    <3>2. CASE full
      <4>0. Len(dq) \in Nat /\ Len(dq) = MaxUnsent /\ Len(dq) > 0 BY <1>0, <1>3, <3>2
      <4>1. /\ kept \in Seq(Datagrams) /\ Len(kept) = Len(dq) - 1
            /\ \A i \in 1..Len(kept) : kept[i] = dq[i + 1]
        BY <1>0, <3>2, <4>0
      <4> HIDE DEF kept
      <4>2. Head(dq) = dq[1] BY <1>0, <4>0
      <4>3. \A i, j \in 1..Len(kept) : kept[i] = kept[j] => i = j
        <5>1. \A i \in 1..Len(kept) : i + 1 \in 1..Len(dq) BY <4>0, <4>1
        <5> QED BY <1>0, <4>0, <4>1, <5>1
      <4>4. \A e \in Datagrams : (\E i \in 1..Len(kept) : kept[i] = e)
              <=> (\E i \in 1..Len(dq) : dq[i] = e) /\ e # dq[1]
        <5>1. \A i \in 1..Len(kept) : i + 1 \in 1..Len(dq) /\ i + 1 # 1 BY <4>0, <4>1
        <5>2. \A i \in 1..Len(dq) : i = 1 \/ (i - 1 \in 1..Len(kept) /\ (i - 1) + 1 = i) BY <4>0, <4>1
        <5>3. 1 \in 1..Len(dq) BY <4>0
        <5> TAKE e \in Datagrams
        <5>4. ASSUME NEW i \in 1..Len(kept), kept[i] = e
              PROVE  (\E m \in 1..Len(dq) : dq[m] = e) /\ e # dq[1]
          BY <1>0, <4>1, <5>1, <5>3, <5>4
        <5>5. ASSUME NEW i \in 1..Len(dq), dq[i] = e, e # dq[1]
              PROVE  \E m \in 1..Len(kept) : kept[m] = e
          BY <4>1, <5>2, <5>5
        <5> QED BY <5>4, <5>5
      <4> QED BY <3>2, <4>0, <4>1, <4>2, <4>3, <4>4
    <3> QED BY <3>1, <3>2
  <2> HIDE DEF kept
  <2>6. /\ dq' \in Seq(Datagrams) /\ Len(dq') = Len(kept) + 1
        /\ dq'[Len(kept) + 1] = d /\ \A i \in 1..Len(kept) : dq'[i] = kept[i]
    BY <2>1, <2>5
  <2>7. Len(dq') <= MaxUnsent BY <1>0, <2>5, <2>6
  <2>8. \A i \in 1..Len(dq') : i \in 1..Len(kept) \/ i = Len(kept) + 1 BY <2>5, <2>6
  <2>9. \A i \in 1..Len(kept) : i \in 1..Len(dq') BY <2>5, <2>6
  <2>10. Len(kept) + 1 \in 1..Len(dq') BY <2>5, <2>6
  <2>11. ~\E i \in 1..Len(kept) : kept[i] = d BY <2>4, <2>5
  <2>12. \A i, j \in 1..Len(dq') : dq'[i] = dq'[j] => i = j BY <2>5, <2>6, <2>8, <2>11
  <2>13. \A e \in Datagrams : (\E i \in 1..Len(dq') : dq'[i] = e) <=> e = d \/ \E i \in 1..Len(kept) : kept[i] = e
    BY <2>6, <2>8, <2>9, <2>10
  <2>14. \A e \in Datagrams : (fate'[e] = "queued") <=> (\E i \in 1..Len(dq') : dq'[i] = e)
    <3> HIDE DEF full
    <3> QED BY <1>0, <2>2, <2>5, <2>13
  <2>15. full => Head(dq) \in Datagrams /\ fate[Head(dq)] = "queued"
    <3>1. ASSUME full PROVE 1 \in 1..Len(dq) /\ Head(dq) = dq[1] BY <1>0, <1>3, <3>1
    <3> QED BY <1>0, <3>1
  <2>16. \A e \in flying : fate'[e] = "sent"
    <3> HIDE DEF full
    <3> QED BY <1>0, <2>2, <2>15
  <2> QED BY <2>3, <2>6, <2>7, <2>12, <2>14, <2>16
<1> QED BY <1>2, <1>3

(* A flush, the last one of close() too.                                   *)
LEMMA FlushKeeps ==
  ASSUME DgInv, NEW large, NEW stays, Refusable(large, stays), FlushQueued(large, stays),
         UNCHANGED sequencer
  PROVE  DatagramsAreAccounted' /\ DgType'
<1>0. /\ fate \in [Datagrams -> DgFates]
      /\ dq \in Seq(Datagrams) /\ MaxUnsent \in Nat /\ Len(dq) <= MaxUnsent /\ IsInjective(dq)
      /\ \A e \in Datagrams : (fate[e] = "queued") <=> e \in ToSet(dq)
      /\ flying \subseteq Datagrams /\ \A e \in flying : fate[e] = "sent"
  BY DatagramConstants DEF DgInv, DgType, DatagramsAreSound, DatagramsAreAccounted
<1>1. ToSet(dq) \subseteq Datagrams BY <1>0 DEF ToSet
<1>2. large \subseteq ToSet(dq) /\ stays \subseteq ToSet(dq) \ large BY DEF Refusable
<1>3. /\ dq' \in Seq(Datagrams) /\ Len(dq') <= Len(dq) /\ ToSet(dq') = ToSet(dq) \cap stays
      /\ IsInjective(dq')
  BY <1>0, OnlyKeeps DEF FlushQueued
<1>4. ToSet(dq') = stays BY <1>2, <1>3
<1>5. /\ \A e \in Datagrams : fate'[e] = IF e \in large THEN "oversize" ELSE
                                         IF e \in ToSet(dq) \ (large \cup stays) THEN "sent" ELSE fate[e]
      /\ flying' = flying \cup (ToSet(dq) \ (large \cup stays))
  BY DEF FlushQueued
<1>6. fate' \in [Datagrams -> DgFates]
  <2>1. fate' = [e \in Datagrams |-> fate'[e]] BY DEF FlushQueued
  <2>2. \A e \in Datagrams : fate'[e] \in DgFates
    BY <1>0, <1>5 DEF DgFates
  <2> QED BY <2>1, <2>2
<1>7. \A e \in Datagrams : (fate'[e] = "queued") <=> e \in ToSet(dq') BY <1>0, <1>2, <1>4, <1>5
<1>8. Len(dq') <= MaxUnsent
  <2>1. Len(dq') \in Nat /\ Len(dq) \in Nat BY <1>0, <1>3
  <2> QED BY <1>0, <1>3, <2>1
<1>9. flying' \subseteq {e \in Datagrams : fate'[e] = "sent"} BY <1>0, <1>1, <1>2, <1>5
<1>10. IsInjective(dq)' /\ ToSet(dq)' = ToSet(dq') BY <1>3
<1> QED BY <1>3, <1>6, <1>7, <1>8, <1>9, <1>10 DEF DatagramsAreAccounted, DgInv, DgType, sequencer

(* Before the first datagram.                                              *)
LEMMA DgStarts == DgInit => DgInv
<1> SUFFICES ASSUME DgInit PROVE DgInv OBVIOUS
<1>1. DgType BY DEF DgInit, DgType, DgFates
<1>2. handed = [i \in 1..nextSeq |-> i - 1] BY DEF DgInit
<1>3. InOrderOnce BY <1>2 DEF DgInit, InOrderOnce
<1>4. Len(dq) = 0 /\ DOMAIN dq = {} /\ ToSet(dq) = {} /\ IsInjective(dq)
  BY DEF DgInit, ToSet, IsInjective
<1>5. DatagramsAreAccounted BY <1>4, DatagramConstants DEF DgInit, DatagramsAreAccounted
<1>6. HeartIsWatched BY DEF DgInit, HeartIsWatched
<1> QED BY <1>1, <1>3, <1>5, <1>6 DEF DgInv, DatagramsAreSound

(* Each datagram, flush, arrival, loss, reset and beat.                    *)
LEMMA DgStep == ASSUME DgInv, DgNext PROVE DgInv'
<1>0. DgType /\ InOrderOnce /\ DatagramsAreAccounted /\ HeartIsWatched BY DEF DgInv, DatagramsAreSound
<1>a. ASSUME UNCHANGED sequencer PROVE InOrderOnce' BY <1>0, <1>a DEF sequencer, InOrderOnce
<1>b. ASSUME UNCHANGED << dq, fate, flying >> PROVE DatagramsAreAccounted'
  BY <1>0, <1>b DEF DatagramsAreAccounted
<1>c. ASSUME UNCHANGED heart PROVE HeartIsWatched' BY <1>0, <1>c DEF heart, HeartIsWatched
<1>d. ASSUME UNCHANGED << dq, fate, flying, sequencer >> PROVE DgType'
  BY <1>0, <1>d DEF DgType, sequencer
<1>1. CASE TransportChanges
  BY <1>1, <1>a, <1>b, <1>c, <1>d DEF TransportChanges, DgInv, DatagramsAreSound
<1>2. CASE ResetSequencer
  <2>1. nextSeq' = 0 /\ held' = {} /\ handed' = << >> /\ gaps' = 0 /\ waited' = {} /\ UNCHANGED << dq, fate, flying >>
    BY <1>2 DEF ResetSequencer, sender
  <2>2. handed' = [i \in 1..nextSeq' |-> i - 1] BY <2>1
  <2>3. InOrderOnce' BY <2>1, <2>2 DEF InOrderOnce
  <2>4. DgType' BY <1>0, <2>1 DEF DgType
  <2> QED BY <1>2, <1>b, <1>c, <2>1, <2>3, <2>4 DEF ResetSequencer, DgInv, DatagramsAreSound
<1>3. CASE StartHeart \/ StopHeart \/ BeatAges
  <2>1. UNCHANGED << dq, fate, flying, sequencer >> BY <1>3 DEF StartHeart, StopHeart, BeatAges, sender
  <2>2. HeartIsWatched' BY <1>0, <1>3 DEF StartHeart, StopHeart, BeatAges, HeartIsWatched
  <2> QED BY <1>a, <1>b, <1>d, <2>1, <2>2 DEF DgInv, DatagramsAreSound
<1>4. ASSUME NEW stops \in BOOLEAN, CheckHeart(stops) PROVE DgInv'
  <2>1. UNCHANGED << dq, fate, flying, sequencer >> BY <1>4 DEF CheckHeart, sender
  <2>2. HeartIsWatched' BY <1>0, <1>4 DEF CheckHeart, Reschedules, HeartIsWatched
  <2> QED BY <1>a, <1>b, <1>d, <2>1, <2>2 DEF DgInv, DatagramsAreSound
<1>5. ASSUME NEW d \in Datagrams, NEW large \in BOOLEAN, NEW fails \in BOOLEAN, SendDatagram(d, large, fails)
      PROVE  DgInv'
  <2>1. fate[d] = "new" /\ UNCHANGED << sequencer, heart >> BY <1>5 DEF SendDatagram, InOrder
  <2>2. CASE ~up
    <3>1. Enqueue(d) /\ UNCHANGED flying BY <1>5, <2>2 DEF SendDatagram
    <3>2. DatagramsAreAccounted' /\ fate' \in [Datagrams -> DgFates] /\ dq' \in Seq(Datagrams)
      BY <2>1, <3>1, EnqueueKeeps
    <3>3. DgType' BY <1>0, <2>1, <3>1, <3>2 DEF DgType, sequencer
    <3> QED BY <1>a, <1>c, <2>1, <3>2, <3>3 DEF DgInv, DatagramsAreSound
  <2>3. CASE up
    <3> DEFINE what == CASE fails -> "failed" [] ~fails /\ large -> "fragments" [] OTHER -> "sent"
    <3>1. /\ fate' = [fate EXCEPT ![d] = what] /\ dq' = dq
          /\ flying' = IF fails \/ large THEN flying ELSE flying \cup {d}
      BY <1>5, <2>3 DEF SendDatagram
    <3>2. what \in {"failed", "fragments", "sent"} /\ (~fails /\ ~large => what = "sent") OBVIOUS
    <3> HIDE DEF what
    <3>3. fate' \in [Datagrams -> DgFates] /\ fate'[d] = what /\ \A e \in Datagrams : e # d => fate'[e] = fate[e]
      BY <1>0, <3>1, <3>2 DEF DgType, DgFates
    <3>4. DgType' BY <1>0, <2>1, <3>1, <3>3 DEF DgType, sequencer
    <3>5. \A e \in Datagrams : (fate'[e] = "queued") <=> e \in ToSet(dq)'
      BY <1>0, <2>1, <3>1, <3>2, <3>3 DEF DatagramsAreAccounted
    <3>6. flying' \subseteq {e \in Datagrams : fate'[e] = "sent"}
      BY <1>0, <2>1, <3>1, <3>2, <3>3 DEF DatagramsAreAccounted
    <3>7. DatagramsAreAccounted' BY <1>0, <3>1, <3>5, <3>6 DEF DatagramsAreAccounted
    <3> QED BY <1>a, <1>c, <2>1, <3>4, <3>7 DEF DgInv, DatagramsAreSound
  <2> QED BY <2>2, <2>3
<1>6. ASSUME NEW n \in Datagrams, NEW again \in BOOLEAN, DatagramArrives(n, again) PROVE DgInv'
  <2>1. n \in Nat BY DatagramConstants
  <2>2. InOrderOnce' /\ nextSeq' \in Nat /\ held' \subseteq Nat /\ gaps' \in Nat /\ waited' \subseteq Nat
    BY <1>6, <2>1, PushKeeps DEF DatagramArrives
  <2>3. flying' \subseteq flying /\ UNCHANGED << dq, fate >> BY <1>6 DEF DatagramArrives, sender
  <2>4. DgType' BY <1>0, <2>2, <2>3 DEF DgType
  <2>5. DatagramsAreAccounted' BY <1>0, <2>3 DEF DatagramsAreAccounted
  <2>6. HeartIsWatched' BY <1>0, <1>6 DEF DatagramArrives, HeartIsWatched
  <2> QED BY <2>2, <2>4, <2>5, <2>6 DEF DgInv, DatagramsAreSound
<1>7. ASSUME NEW n \in Datagrams, Loses(n) PROVE DgInv'
  <2>1. flying' \subseteq flying /\ UNCHANGED << dq, fate, sequencer, heart >> BY <1>7 DEF Loses, sender
  <2>2. DgType' BY <1>0, <2>1 DEF DgType, sequencer
  <2>3. DatagramsAreAccounted' BY <1>0, <2>1 DEF DatagramsAreAccounted
  <2> QED BY <1>a, <1>c, <2>1, <2>2, <2>3 DEF DgInv, DatagramsAreSound
<1>8. ASSUME NEW large, NEW stays, Flush(large, stays) \/ CloseChannel(large, stays) PROVE DgInv'
  <2>1. Refusable(large, stays) /\ FlushQueued(large, stays) /\ UNCHANGED << sequencer, heart >>
    BY <1>8 DEF Flush, CloseChannel
  <2>2. UNCHANGED sequencer BY <2>1
  <2>3. DatagramsAreAccounted' /\ DgType' BY <2>1, <2>2, FlushKeeps
  <2> QED BY <1>a, <1>c, <2>1, <2>3 DEF DgInv, DatagramsAreSound
<1> QED BY <1>1, <1>2, <1>3, <1>4, <1>5, <1>6, <1>7, <1>8 DEF DgNext

(* While other parts move.                                                 *)
LEMMA DgStands == ASSUME DgInv, UNCHANGED dgVars PROVE DgInv'
BY DEF dgVars, sender, sequencer, heart, DgInv, DgType, DatagramsAreSound, InOrderOnce,
       DatagramsAreAccounted, HeartIsWatched

-----------------------------------------------------------------------------
(***************************************************************************)
(* The data channel.  What went out and what waits is one rising sequence; *)
(* its weight is that of its parts.                                        *)
(***************************************************************************)
Rises(s) == \A i, j \in 1..Len(s) : i < j => s[i] < s[j]
Before(S, T) == \A x \in S : \A y \in T : x < y

LEMMA PlacesAre ==
  ASSUME NEW S, NEW s \in Seq(S)
  PROVE  /\ \A x : x \in ToSet(s) <=> \E i \in 1..Len(s) : s[i] = x
         /\ ToSet(s) \subseteq S
<1>1. DOMAIN s = 1..Len(s) OBVIOUS
<1>2. \A x : x \in ToSet(s) <=> \E i \in 1..Len(s) : s[i] = x BY <1>1 DEF ToSet
<1> QED BY <1>2

(* One sequence after the other.                                           *)
LEMMA RisesJoined ==
  ASSUME NEW S, S \subseteq Int, NEW p \in Seq(S), NEW q \in Seq(S)
  PROVE  /\ p \o q \in Seq(S) /\ Len(p \o q) = Len(p) + Len(q) /\ ToSet(p \o q) = ToSet(p) \cup ToSet(q)
         /\ Rises(p \o q) <=> Rises(p) /\ Rises(q) /\ Before(ToSet(p), ToSet(q))
<1> DEFINE a == p \o q
           m == Len(p)
           n == Len(q)
<1>1. /\ a \in Seq(S) /\ m \in Nat /\ n \in Nat /\ Len(a) = m + n
      /\ \A i \in 1..m : a[i] = p[i]
      /\ \A i \in 1..n : a[m + i] = q[i]
  OBVIOUS
<1> HIDE DEF a
<1>2. /\ \A i \in 1..m : i \in 1..Len(a)
      /\ \A i \in 1..n : m + i \in 1..Len(a)
      /\ \A i \in 1..Len(a) : i \in 1..m \/ (i - m \in 1..n /\ m + (i - m) = i)
  BY <1>1
<1>3. /\ \A x : x \in ToSet(a) <=> \E i \in 1..Len(a) : a[i] = x
      /\ \A x : x \in ToSet(p) <=> \E i \in 1..m : p[i] = x
      /\ \A x : x \in ToSet(q) <=> \E i \in 1..n : q[i] = x
  BY <1>1, PlacesAre
<1>4. ToSet(a) = ToSet(p) \cup ToSet(q)
  <2>1. ASSUME NEW x \in ToSet(a) PROVE x \in ToSet(p) \cup ToSet(q)
    <3>1. PICK i \in 1..Len(a) : a[i] = x BY <1>3
    <3>2. CASE i \in 1..m BY <1>1, <1>3, <3>1, <3>2
    <3>3. CASE i - m \in 1..n /\ m + (i - m) = i
      <4>1. a[m + (i - m)] = q[i - m] BY <1>1, <3>3
      <4> QED BY <1>3, <3>1, <3>3, <4>1
    <3> QED BY <1>2, <3>2, <3>3
  <2>2. ASSUME NEW x \in ToSet(p) \cup ToSet(q) PROVE x \in ToSet(a) BY <1>1, <1>2, <1>3
  <2> QED BY <2>1, <2>2
<1>5. ASSUME Rises(a) PROVE Rises(p) /\ Rises(q) /\ Before(ToSet(p), ToSet(q))
  <2>0. \A i, j \in 1..Len(a) : i < j => a[i] < a[j] BY <1>5 DEF Rises
  <2>1. Rises(p) BY <1>1, <1>2, <2>0 DEF Rises
  <2>2. Rises(q)
    <3> SUFFICES ASSUME NEW i \in 1..n, NEW j \in 1..n, i < j PROVE q[i] < q[j] BY DEF Rises
    <3>1. m + i \in 1..Len(a) /\ m + j \in 1..Len(a) /\ m + i < m + j BY <1>1, <1>2
    <3> QED BY <1>1, <2>0, <3>1
  <2>3. ASSUME NEW x \in ToSet(p), NEW y \in ToSet(q) PROVE x < y
    <3>1. PICK i \in 1..m : p[i] = x BY <1>3
    <3>2. PICK j \in 1..n : q[j] = y BY <1>3
    <3>3. i \in 1..Len(a) /\ m + j \in 1..Len(a) /\ i < m + j BY <1>1, <1>2
    <3>4. a[i] < a[m + j] BY <2>0, <3>3
    <3> QED BY <1>1, <3>1, <3>2, <3>4
  <2> QED BY <2>1, <2>2, <2>3 DEF Before
<1>6. ASSUME Rises(p), Rises(q), Before(ToSet(p), ToSet(q)) PROVE Rises(a)
  <2> SUFFICES ASSUME NEW i \in 1..Len(a), NEW j \in 1..Len(a), i < j PROVE a[i] < a[j] BY DEF Rises
  <2>1. CASE j \in 1..m
    <3>1. i \in 1..m BY <1>1, <2>1
    <3> QED BY <1>1, <1>6, <2>1, <3>1 DEF Rises
  <2>2. CASE i \in 1..m /\ j - m \in 1..n /\ m + (j - m) = j
    <3>1. a[i] = p[i] /\ a[m + (j - m)] = q[j - m] BY <1>1, <2>2
    <3>2. a[i] \in ToSet(p) /\ a[j] \in ToSet(q) BY <1>3, <2>2, <3>1
    <3> QED BY <1>6, <3>2 DEF Before
  <2>3. CASE i - m \in 1..n /\ m + (i - m) = i /\ j - m \in 1..n /\ m + (j - m) = j
    <3>1. a[m + (i - m)] = q[i - m] /\ a[m + (j - m)] = q[j - m] BY <1>1, <2>3
    <3>2. i - m < j - m BY <1>1
    <3>3. q[i - m] < q[j - m] BY <1>6, <2>3, <3>2 DEF Rises
    <3> QED BY <2>3, <3>1, <3>3
  <2>4. ~(i \in 1..m) => ~(j \in 1..m) BY <1>1
  <2> QED BY <1>2, <2>1, <2>2, <2>3, <2>4
<1> QED BY <1>1, <1>4, <1>5, <1>6 DEF a

(* A sequence is its beginning and its rest.                               *)
LEMMA CutAnywhere ==
  ASSUME NEW S, NEW s \in Seq(S), NEW n \in 0..Len(s)
  PROVE  /\ SubSeq(s, 1, n) \in Seq(S) /\ Len(SubSeq(s, 1, n)) = n
         /\ SubSeq(s, n + 1, Len(s)) \in Seq(S) /\ Len(SubSeq(s, n + 1, Len(s))) = Len(s) - n
         /\ s = SubSeq(s, 1, n) \o SubSeq(s, n + 1, Len(s))
         /\ \A i \in 1..n : SubSeq(s, 1, n)[i] = s[i]
<1> DEFINE p == SubSeq(s, 1, n)
           q == SubSeq(s, n + 1, Len(s))
<1>1. Len(s) \in Nat /\ \A i \in 1..Len(s) : s[i] \in S OBVIOUS
<1>2. p \in Seq(S) /\ Len(p) = n /\ \A i \in 1..n : p[i] = s[i] BY <1>1
<1>3. q \in Seq(S) /\ Len(q) = Len(s) - n /\ \A i \in 1..(Len(s) - n) : q[i] = s[n + i]
  BY <1>1
<1> HIDE DEF p, q
<1>4. /\ Len(p \o q) = Len(s) /\ p \o q \in Seq(S)
      /\ \A i \in 1..n : (p \o q)[i] = p[i]
      /\ \A i \in 1..(Len(s) - n) : (p \o q)[n + i] = q[i]
  BY <1>1, <1>2, <1>3
<1>5. ASSUME NEW i \in 1..Len(s) PROVE (p \o q)[i] = s[i]
  <2>1. CASE i \in 1..n BY <1>2, <1>4, <2>1
  <2>2. CASE i \notin 1..n
    <3>1. i - n \in 1..(Len(s) - n) /\ n + (i - n) = i BY <1>1, <2>2
    <3>2. (p \o q)[n + (i - n)] = q[i - n] /\ q[i - n] = s[n + (i - n)] BY <1>3, <1>4, <3>1
    <3> QED BY <3>1, <3>2
  <2> QED BY <2>1, <2>2
<1>6. s = p \o q
  <2> DEFINE a == p \o q
  <2>1. a \in Seq(S) /\ Len(a) = Len(s) /\ \A i \in 1..Len(s) : a[i] = s[i] BY <1>4, <1>5
  <2> HIDE DEF a
  <2>2. /\ s = [i \in 1..Len(s) |-> s[i]] /\ a = [i \in 1..Len(a) |-> a[i]] BY <1>1, <2>1
  <2>3. s = a BY <2>1, <2>2
  <2> QED BY <2>3 DEF a
<1> QED BY <1>2, <1>3, <1>6 DEF p, q

(* What the frames weigh, one after the other.                             *)
Sums(F, s) ==
  F \in [0..Len(s) -> Nat] /\ F[0] = 0 /\ \A i \in 1..Len(s) : F[i] = F[i - 1] + Size[s[i]]

LEMMA BytesSteps ==
  ASSUME NEW s \in Seq(RtcFrames)
  PROVE  \E F : Sums(F, s) /\ Bytes(s) = F[Len(s)]
<1> DEFINE n == Len(s)
           V == Nat
           G == [p \in (1..n) \X V |-> p[2] + Size[s[p[1]]]]
           Step(f) == [i \in 0..Len(s) |-> IF i = 0 THEN 0 ELSE f[i - 1] + Size[s[i]]]
           sum == CHOOSE f : f = Step(f)
<1>0. n \in Nat /\ \A i \in 1..n : s[i] \in RtcFrames OBVIOUS
<1>1. n \in Nat /\ 0 \in V /\ \A i \in 1..n : Size[s[i]] \in Nat
  <2>1. Size \in [RtcFrames -> Nat \ {0}] BY RtcConstants
  <2>2. \A f \in RtcFrames : Size[f] \in Nat BY <2>1
  <2> QED BY <1>0, <2>2
<1>2. G \in [(1..n) \X V -> V] BY <1>1
<1>3. PICK f : Recursion(f, n, V, 0, G)
  <2> HIDE DEF G, n, V
  <2> QED BY <1>1, <1>2, StepwiseExists
<1>4. f \in [0..n -> V] /\ f[0] = 0 /\ \A i \in 1..n : f[i] = G[<< i, f[i - 1] >>]
  <2> HIDE DEF G, n, V
  <2> QED BY <1>3 DEF Recursion
<1>5. ASSUME NEW i \in 1..n PROVE f[i] = f[i - 1] + Size[s[i]]
  <2>1. f[i - 1] \in V BY <1>1, <1>4
  <2>2. << i, f[i - 1] >> \in (1..n) \X V BY <2>1
  <2> QED BY <1>4, <2>2
<1> HIDE DEF G
<1>6. f = Step(f)
  <2>1. \A i \in 0..n : i = 0 \/ i \in 1..n BY <1>1
  <2> QED BY <1>4, <1>5, <2>1
<1>7. sum = Step(sum)
  <2> HIDE DEF Step
  <2> QED BY <1>6
<1>8. Bytes(s) = sum[Len(s)] BY DEF Bytes
<1> HIDE DEF sum
<1>9. \A i \in 0..n : sum[i] = f[i]
  <2> DEFINE T == {i \in 0..n : sum[i] = f[i]}
  <2>1. 0 \in T BY <1>1, <1>4, <1>7
  <2>2. ASSUME NEW i \in 1..n, i - 1 \in T PROVE i \in T
    <3>1. i \in 0..n /\ i # 0 BY <1>1
    <3>2. sum[i] = sum[i - 1] + Size[s[i]] BY <1>7, <3>1
    <3> QED BY <1>5, <2>2, <3>1, <3>2
  <2>3. \A i \in 0..n : i \in T
    <3> HIDE DEF T
    <3> QED BY <1>1, <2>1, <2>2, UpTo
  <2> QED BY <2>3
<1>10. Bytes(s) = f[Len(s)] BY <1>1, <1>8, <1>9
<1>11. Sums(f, s) BY <1>4, <1>5 DEF Sums
<1> QED BY <1>10, <1>11

LEMMA BytesOfNone == Bytes(<< >>) = 0
<1>1. << >> \in Seq(RtcFrames) /\ Len(<< >>) = 0 OBVIOUS
<1>2. PICK F : Sums(F, << >>) /\ Bytes(<< >>) = F[Len(<< >>)] BY <1>1, BytesSteps
<1> QED BY <1>1, <1>2 DEF Sums

LEMMA BytesOfOne == \A f \in RtcFrames : Bytes(<< f >>) = Size[f]
<1> TAKE f \in RtcFrames
<1>1. << f >> \in Seq(RtcFrames) /\ Len(<< f >>) = 1 /\ << f >>[1] = f OBVIOUS
<1>2. PICK F : Sums(F, << f >>) /\ Bytes(<< f >>) = F[Len(<< f >>)] BY <1>1, BytesSteps
<1>3. F[0] = 0 /\ F[1] = F[1 - 1] + Size[<< f >>[1]] /\ Bytes(<< f >>) = F[1] BY <1>1, <1>2 DEF Sums
<1>4. Size[f] \in Nat BY RtcConstants
<1>5. F[1 - 1] = 0 BY <1>3
<1> QED BY <1>1, <1>3, <1>4, <1>5

LEMMA BytesJoined ==
  ASSUME NEW p \in Seq(RtcFrames), NEW q \in Seq(RtcFrames)
  PROVE  Bytes(p \o q) = Bytes(p) + Bytes(q) /\ Bytes(p) \in Nat /\ Bytes(q) \in Nat
<1> DEFINE a == p \o q
           m == Len(p)
           n == Len(q)
<1>1. /\ a \in Seq(RtcFrames) /\ m \in Nat /\ n \in Nat /\ Len(a) = m + n
      /\ \A i \in 1..m : a[i] = p[i]
      /\ \A i \in 1..n : a[m + i] = q[i]
  OBVIOUS
<1> HIDE DEF a
<1>2. PICK F : Sums(F, p) /\ Bytes(p) = F[Len(p)] BY BytesSteps
<1>3. PICK G : Sums(G, q) /\ Bytes(q) = G[Len(q)] BY BytesSteps
<1>4. PICK H : Sums(H, a) /\ Bytes(a) = H[Len(a)] BY <1>1, BytesSteps
<1>5. /\ F \in [0..m -> Nat] /\ F[0] = 0 /\ \A i \in 1..m : F[i] = F[i - 1] + Size[p[i]]
      /\ G \in [0..n -> Nat] /\ G[0] = 0 /\ \A i \in 1..n : G[i] = G[i - 1] + Size[q[i]]
      /\ H \in [0..Len(a) -> Nat] /\ H[0] = 0 /\ \A i \in 1..Len(a) : H[i] = H[i - 1] + Size[a[i]]
  BY <1>2, <1>3, <1>4 DEF Sums
<1>6. \A i \in 0..m : H[i] = F[i]
  <2> DEFINE T == {i \in 0..m : H[i] = F[i]}
  <2>1. 0 \in T BY <1>1, <1>5
  <2>2. ASSUME NEW i \in 1..m, i - 1 \in T PROVE i \in T
    <3>1. i \in 0..m /\ i \in 1..Len(a) BY <1>1
    <3>2. H[i] = H[i - 1] + Size[a[i]] /\ F[i] = F[i - 1] + Size[p[i]] /\ a[i] = p[i] BY <1>1, <1>5, <3>1
    <3> QED BY <2>2, <3>1, <3>2
  <2>3. \A i \in 0..m : i \in T
    <3> HIDE DEF T
    <3> QED BY <1>1, <2>1, <2>2, UpTo
  <2> QED BY <2>3
<1>7. \A i \in 0..n : H[m + i] = F[m] + G[i]
  <2> DEFINE T == {i \in 0..n : H[m + i] = F[m] + G[i]}
  <2>0. F[m] \in Nat /\ \A i \in 0..n : G[i] \in Nat
    <3>1. m \in 0..m BY <1>1
    <3>2. F \in [0..m -> Nat] /\ G \in [0..n -> Nat] BY <1>5
    <3> HIDE DEF m, n
    <3> QED BY <3>1, <3>2
  <2>1. 0 \in T
    <3>1. m + 0 = m /\ m \in 0..m /\ 0 \in 0..n BY <1>1
    <3> QED BY <1>5, <1>6, <2>0, <3>1
  <2>2. ASSUME NEW i \in 1..n, i - 1 \in T PROVE i \in T
    <3>1. i \in 0..n /\ i - 1 \in 0..n /\ m + i \in 1..Len(a) /\ (m + i) - 1 = m + (i - 1) BY <1>1
    <3>2. H[m + i] = H[(m + i) - 1] + Size[a[m + i]] /\ G[i] = G[i - 1] + Size[q[i]] /\ a[m + i] = q[i]
      BY <1>1, <1>5, <3>1
    <3>3. H[m + (i - 1)] = F[m] + G[i - 1] BY <2>2
    <3>4. q[i] \in RtcFrames /\ Size[q[i]] \in Nat
      <4>1. q[i] \in RtcFrames OBVIOUS
      <4>2. \A f \in RtcFrames : Size[f] \in Nat BY RtcConstants
      <4> QED BY <4>1, <4>2
    <3>5. F[m] \in Nat /\ G[i - 1] \in Nat BY <2>0, <3>1
    <3>6. H[m + i] = F[m] + G[i] BY <3>1, <3>2, <3>3, <3>4, <3>5
    <3> QED BY <3>1, <3>6
  <2>3. \A i \in 0..n : i \in T
    <3> HIDE DEF T
    <3> QED BY <1>1, <2>1, <2>2, UpTo
  <2> QED BY <2>3
<1>8. n \in 0..n /\ m \in 0..m BY <1>1
<1>9. H[m + n] = F[m] + G[n] /\ F[m] \in Nat /\ G[n] \in Nat BY <1>5, <1>7, <1>8
<1> QED BY <1>1, <1>2, <1>3, <1>4, <1>9 DEF a

(* What the channel took of the frames that left the queue.                *)
LEMMA AcceptedKeeps ==
  ASSUME NEW s \in Seq(RtcFrames), NEW lost
  PROVE  /\ Accepted(s, lost) \in Seq(RtcFrames) /\ ToSet(Accepted(s, lost)) = ToSet(s) \ lost
         /\ Rises(s) => Rises(Accepted(s, lost))
<1> DEFINE T == RtcFrames \ lost
           Step(f) == [i \in 0..Len(s) |-> IF i = 0 THEN << >> ELSE
                                           IF s[i] \in lost THEN f[i - 1] ELSE Append(f[i - 1], s[i])]
           took == CHOOSE f : f = Step(f)
<1>1. /\ Len(s) \in Nat /\ 0 \in 0..Len(s) /\ \A i \in 1..Len(s) : i \in 0..Len(s) /\ i # 0
      /\ \A i \in 1..Len(s) : s[i] \in RtcFrames
  OBVIOUS
<1>2. PICK f : f \in [0..Len(s) -> Seq(RtcFrames)] /\ Sifts(f, s, T) BY SiftExists
<1>3. f = Step(f)
  <2>1. \A i \in 0..Len(s) : i = 0 \/ i \in 1..Len(s) BY <1>1
  <2>2. \A i \in 1..Len(s) : f[i] = IF s[i] \in lost THEN f[i - 1] ELSE Append(f[i - 1], s[i])
    BY <1>1, <1>2 DEF Sifts
  <2>3. f[0] = << >> BY <1>2 DEF Sifts
  <2> QED BY <1>2, <2>1, <2>2, <2>3
<1>4. took = Step(took)
  <2> HIDE DEF Step
  <2> QED BY <1>3
<1>5. Accepted(s, lost) = took[Len(s)] BY DEF Accepted
<1> HIDE DEF took
<1>6. Sifts(took, s, T)
  <2>1. took[0] = << >> BY <1>1, <1>4
  <2>2. \A i \in 1..Len(s) : took[i] = IF s[i] \in lost THEN took[i - 1] ELSE Append(took[i - 1], s[i])
    BY <1>1, <1>4
  <2>3. \A i \in 1..Len(s) : took[i] = IF s[i] \in T THEN Append(took[i - 1], s[i]) ELSE took[i - 1]
    BY <1>1, <2>2
  <2> QED BY <2>1, <2>3 DEF Sifts
<1> HIDE DEF T
<1>7. Sieved(Accepted(s, lost), s, RtcFrames, T) BY <1>5, <1>6, FilterKeeps
<1> DEFINE q == Accepted(s, lost)
<1>8. /\ q \in Seq(RtcFrames)
      /\ \A x : (\E k \in 1..Len(q) : q[k] = x) <=> x \in T /\ \E j \in 1..Len(s) : s[j] = x
      /\ RtcFrames \subseteq Int /\ (\A i, j \in 1..Len(s) : i < j => s[i] < s[j]) =>
           \A i, j \in 1..Len(q) : i < j => q[i] < q[j]
  BY <1>7 DEF Sieved
<1> HIDE DEF q
<1>9. ToSet(q) = ToSet(s) \cap T
  <2>1. \A x : x \in ToSet(q) <=> \E k \in 1..Len(q) : q[k] = x BY <1>8, PlacesAre
  <2>2. \A x : x \in ToSet(s) <=> \E k \in 1..Len(s) : s[k] = x BY PlacesAre
  <2> QED BY <1>8, <2>1, <2>2
<1>10. ToSet(s) \subseteq RtcFrames BY PlacesAre
<1>11. ToSet(q) = ToSet(s) \ lost BY <1>9, <1>10 DEF T
<1>12. RtcFrames \subseteq Int BY RtcConstants
<1>13. Rises(s) => Rises(q) BY <1>8, <1>12 DEF Rises
<1> QED BY <1>8, <1>11, <1>13 DEF q

RtcPhases == {"connecting", "open", "closing", "closed"}
RtcFates == {"new", "refused", "dropped", "queued", "failed", "sent", "discarded"}

RtcType ==
  /\ rtcState \in RtcPhases /\ channel \in RtcPhases /\ inChannel \in Nat /\ lowEvents \in Nat
  /\ backpressured \in BOOLEAN
  /\ rtcQueue \in Seq(RtcFrames) /\ rtcWire \in Seq(RtcFrames) /\ outcome \in [RtcFrames -> RtcFates]
  /\ rtcCloses \in Nat

(* The frames are given out in their order, and none is old that was not.  *)
GoesOut ==
  /\ \A f, g \in RtcFrames : outcome[g] # "new" /\ f < g => outcome[f] # "new"
  /\ \A f \in ToSet(rtcWire) : outcome[f] # "new"
  /\ Rises(rtcWire) /\ Rises(rtcQueue) /\ Before(ToSet(rtcWire), ToSet(rtcQueue))

QueueIsKnown ==
  /\ queuedBytes = Bytes(rtcQueue) /\ Bytes(rtcQueue) <= QueueBudget
  /\ \A f \in RtcFrames : outcome[f] = "queued" <=> f \in ToSet(rtcQueue)

(* A channel that is not there yet has nothing to wait for.                *)
PhasesAgree ==
  /\ channel = "connecting" <=> rtcState = "connecting"
  /\ rtcState = "connecting" => rtcQueue = << >> /\ ~backpressured
  /\ rtcCloses = IF rtcState = "closed" THEN 1 ELSE 0

RtcInv == RtcType /\ GoesOut /\ QueueIsKnown /\ PhasesAgree /\ RtcUnblocks

LEMMA RtcHolds == RtcInv => RtcIsSound
<1> SUFFICES ASSUME RtcInv PROVE RtcIsSound OBVIOUS
<1>0. /\ rtcQueue \in Seq(RtcFrames) /\ rtcWire \in Seq(RtcFrames) /\ RtcFrames \subseteq Int
  BY RtcConstants DEF RtcInv, RtcType
<1>1. Rises(rtcWire \o rtcQueue) BY <1>0, RisesJoined DEF RtcInv, GoesOut
<1>2. DOMAIN (rtcWire \o rtcQueue) = 1..Len(rtcWire \o rtcQueue)
  <2>1. rtcWire \o rtcQueue \in Seq(RtcFrames) BY <1>0, RisesJoined
  <2> QED BY <2>1
<1>3. LET all == rtcWire \o rtcQueue IN \A i, j \in DOMAIN all : i < j => all[i] < all[j]
  BY <1>1, <1>2 DEF Rises
<1>4. RtcKeepsOrder BY <1>3 DEF RtcInv, QueueIsKnown, RtcKeepsOrder
<1>5. rtcCloses <= 1 BY DEF RtcInv, PhasesAgree
<1> QED BY <1>4, <1>5 DEF RtcInv, RtcIsSound

LEMMA RtcStarts == RtcInit => RtcInv
<1> SUFFICES ASSUME RtcInit PROVE RtcInv OBVIOUS
<1>1. rtcQueue = << >> /\ rtcWire = << >> /\ Len(<< >>) = 0 /\ DOMAIN << >> = {} BY DEF RtcInit
<1>2. ToSet(rtcQueue) = {} /\ ToSet(rtcWire) = {} BY <1>1 DEF ToSet
<1>3. RtcType
  <2>1. rtcState \in RtcPhases /\ channel \in RtcPhases BY DEF RtcInit, RtcPhases
  <2>2. outcome \in [RtcFrames -> RtcFates] BY DEF RtcInit, RtcFates
  <2>3. inChannel \in Nat /\ lowEvents \in Nat /\ rtcCloses \in Nat /\ backpressured \in BOOLEAN
    BY DEF RtcInit
  <2>4. rtcQueue \in Seq(RtcFrames) /\ rtcWire \in Seq(RtcFrames) BY <1>1
  <2> QED BY <2>1, <2>2, <2>3, <2>4 DEF RtcType
<1>4. GoesOut BY <1>1, <1>2 DEF RtcInit, GoesOut, Rises, Before
<1>5. QueueIsKnown BY <1>1, <1>2, BytesOfNone, RtcConstants DEF RtcInit, QueueIsKnown
<1>6. PhasesAgree /\ RtcUnblocks BY <1>1 DEF RtcInit, PhasesAgree, RtcUnblocks, RtcIsOpen
<1> QED BY <1>3, <1>4, <1>5, <1>6 DEF RtcInv

(* A frame that is sent when it is its turn.                               *)
LEMMA SendRtcKeeps ==
  ASSUME RtcInv, NEW f \in RtcFrames, NEW throws \in BOOLEAN, SendRtc(f, throws)
  PROVE  RtcInv'
<1>0. /\ RtcType /\ GoesOut /\ QueueIsKnown /\ PhasesAgree /\ RtcUnblocks /\ RtcFrames \subseteq Int
      /\ Size[f] \in Nat /\ HighWater \in Nat /\ LowWater \in Nat /\ LowWater <= HighWater
      /\ QueueBudget \in Nat
  BY RtcConstants DEF RtcInv
<1>1. /\ outcome[f] = "new" /\ \A g \in RtcFrames : g < f => outcome[g] # "new"
      /\ UNCHANGED << rtcState, channel, lowEvents, rtcCloses >>
  BY DEF SendRtc
<1>2. /\ rtcQueue \in Seq(RtcFrames) /\ rtcWire \in Seq(RtcFrames) /\ outcome \in [RtcFrames -> RtcFates]
      /\ ToSet(rtcQueue) \subseteq RtcFrames /\ ToSet(rtcWire) \subseteq RtcFrames
      /\ inChannel \in Nat /\ lowEvents \in Nat
  BY <1>0, PlacesAre DEF RtcType
<1>3. \A g \in RtcFrames : outcome[g] # "new" => g < f
  <2> SUFFICES ASSUME NEW g \in RtcFrames, outcome[g] # "new", ~(g < f) PROVE FALSE OBVIOUS
  <2>1. g # f /\ f < g BY <1>0, <1>1
  <2> QED BY <1>0, <1>1, <2>1 DEF GoesOut
<1>4. \A g \in ToSet(rtcQueue) \cup ToSet(rtcWire) : g < f
  BY <1>0, <1>2, <1>3 DEF GoesOut, QueueIsKnown
<1>5. f \notin ToSet(rtcQueue) BY <1>0, <1>1 DEF QueueIsKnown
<1>6. << f >> \in Seq(RtcFrames) /\ ToSet(<< f >>) = {f} /\ Rises(<< f >>)
  <2>1. << f >> \in Seq(RtcFrames) /\ Len(<< f >>) = 1 /\ << f >>[1] = f OBVIOUS
  <2>2. DOMAIN << f >> = {1} OBVIOUS
  <2>3. ToSet(<< f >>) = {f} BY <2>1, <2>2 DEF ToSet
  <2> QED BY <2>1, <2>3 DEF Rises
<1> DEFINE one == << f >>
<1>b. one \in Seq(RtcFrames) /\ ToSet(one) = {f} /\ Rises(one) /\ Bytes(one) = Size[f] BY <1>6, BytesOfOne
<1> HIDE DEF one
<1>c. ASSUME NEW s \in Seq(RtcFrames)
      PROVE  /\ s \o one \in Seq(RtcFrames) /\ ToSet(s \o one) = ToSet(s) \cup {f}
             /\ Rises(s \o one) <=> Rises(s) /\ Before(ToSet(s), {f})
             /\ Bytes(s \o one) = Bytes(s) + Size[f]
  <2>1. Bytes(s \o one) = Bytes(s) + Bytes(one) BY <1>b, BytesJoined
  <2>2. /\ s \o one \in Seq(RtcFrames) /\ ToSet(s \o one) = ToSet(s) \cup ToSet(one)
        /\ Rises(s \o one) <=> Rises(s) /\ Rises(one) /\ Before(ToSet(s), ToSet(one))
    BY <1>0, <1>b, RisesJoined
  <2> QED BY <1>b, <2>1, <2>2
<1>7. ASSUME NEW w \in RtcFates, w # "new", outcome' = [outcome EXCEPT ![f] = w]
      PROVE  /\ outcome' \in [RtcFrames -> RtcFates] /\ outcome'[f] = w
             /\ \A g \in RtcFrames : g # f => outcome'[g] = outcome[g]
             /\ \A g, h \in RtcFrames : outcome'[h] # "new" /\ g < h => outcome'[g] # "new"
  <2>1. /\ outcome' \in [RtcFrames -> RtcFates] /\ outcome'[f] = w
        /\ \A g \in RtcFrames : g # f => outcome'[g] = outcome[g]
    BY <1>2, <1>7
  <2>2. ASSUME NEW g \in RtcFrames, NEW h \in RtcFrames, outcome'[h] # "new", g < h PROVE outcome'[g] # "new"
    <3>1. CASE g = f BY <1>7, <2>1, <3>1
    <3>2. CASE g # f /\ h = f BY <1>1, <2>1, <2>2, <3>2
    <3>3. CASE g # f /\ h # f BY <1>0, <2>1, <2>2, <3>3 DEF GoesOut
    <3> QED BY <3>1, <3>2, <3>3
  <2> QED BY <2>1, <2>2
<1>8. ASSUME NEW w \in {"refused", "dropped", "failed"}, outcome' = [outcome EXCEPT ![f] = w],
             UNCHANGED << inChannel, backpressured, rtcQueue, queuedBytes, rtcWire >>
      PROVE  RtcInv'
  <2>0. w \in RtcFates /\ w # "new" /\ w # "queued" BY <1>8 DEF RtcFates
  <2>1. /\ outcome' \in [RtcFrames -> RtcFates] /\ outcome'[f] = w
        /\ \A g \in RtcFrames : g # f => outcome'[g] = outcome[g]
        /\ \A g, h \in RtcFrames : outcome'[h] # "new" /\ g < h => outcome'[g] # "new"
    BY <1>7, <1>8, <2>0
  <2>2. RtcType' BY <1>0, <1>1, <1>8, <2>1 DEF RtcType
  <2>3. \A g \in ToSet(rtcWire) : outcome'[g] # "new"
    BY <1>0, <1>2, <2>0, <2>1 DEF GoesOut
  <2>4. GoesOut' BY <1>0, <1>8, <2>1, <2>3 DEF GoesOut
  <2>5. \A g \in RtcFrames : outcome'[g] = "queued" <=> g \in ToSet(rtcQueue)
    BY <1>0, <1>5, <2>0, <2>1 DEF QueueIsKnown
  <2>6. QueueIsKnown' BY <1>0, <1>8, <2>5 DEF QueueIsKnown
  <2>7. PhasesAgree' /\ RtcUnblocks' BY <1>0, <1>1, <1>8 DEF PhasesAgree, RtcUnblocks, RtcIsOpen
  <2> QED BY <2>2, <2>4, <2>6, <2>7 DEF RtcInv
<1>9. ASSUME RtcIsOpen, backpressured, queuedBytes + Size[f] <= QueueBudget,
             outcome' = [outcome EXCEPT ![f] = "queued"],
             rtcQueue' = Append(rtcQueue, f), queuedBytes' = queuedBytes + Size[f],
             UNCHANGED << inChannel, backpressured, rtcWire >>
      PROVE  RtcInv'
  <2>1. /\ outcome' \in [RtcFrames -> RtcFates] /\ outcome'[f] = "queued"
        /\ \A g \in RtcFrames : g # f => outcome'[g] = outcome[g]
        /\ \A g, h \in RtcFrames : outcome'[h] # "new" /\ g < h => outcome'[g] # "new"
    <3>1. "queued" \in RtcFates BY DEF RtcFates
    <3> QED BY <1>7, <1>9, <3>1
  <2>2. rtcQueue' = rtcQueue \o one BY <1>2, <1>9 DEF one
  <2>3. /\ rtcQueue' \in Seq(RtcFrames) /\ ToSet(rtcQueue') = ToSet(rtcQueue) \cup {f}
        /\ Rises(rtcQueue') <=> Rises(rtcQueue) /\ Before(ToSet(rtcQueue), {f})
    BY <1>2, <1>c, <2>2
  <2>4. Rises(rtcQueue') /\ Before(ToSet(rtcWire), ToSet(rtcQueue'))
    BY <1>0, <1>4, <2>3 DEF GoesOut, Before
  <2>5. Bytes(rtcQueue') = Bytes(rtcQueue) + Size[f] BY <1>2, <1>c, <2>2
  <2>6. RtcType' BY <1>0, <1>1, <1>9, <2>1, <2>3 DEF RtcType
  <2>7. \A g \in ToSet(rtcWire) : outcome'[g] # "new" BY <1>0, <1>2, <2>1 DEF GoesOut
  <2>8. GoesOut'
    <3>1. Rises(rtcWire) /\ ToSet(rtcWire)' = ToSet(rtcWire) /\ rtcWire' = rtcWire BY <1>0, <1>9 DEF GoesOut
    <3>2. ToSet(rtcQueue)' = ToSet(rtcQueue') /\ Rises(rtcQueue)' BY <2>4 DEF Rises
    <3>3. Rises(rtcWire)' BY <3>1 DEF Rises
    <3>4. Before(ToSet(rtcWire), ToSet(rtcQueue))' BY <2>4, <3>1, <3>2 DEF Before
    <3> QED BY <2>1, <2>7, <3>1, <3>2, <3>3, <3>4 DEF GoesOut
  <2>9. \A g \in RtcFrames : outcome'[g] = "queued" <=> g \in ToSet(rtcQueue')
    BY <1>0, <2>1, <2>3 DEF QueueIsKnown
  <2>10. Bytes(rtcQueue)' = Bytes(rtcQueue') BY DEF Bytes
  <2>11. QueueIsKnown' BY <1>0, <1>9, <2>5, <2>9, <2>10 DEF QueueIsKnown
  <2>12. PhasesAgree' BY <1>0, <1>1, <1>9 DEF PhasesAgree, RtcIsOpen
  <2>13. RtcUnblocks' BY <1>0, <1>1, <1>9 DEF RtcUnblocks, RtcIsOpen
  <2> QED BY <2>6, <2>8, <2>11, <2>12, <2>13 DEF RtcInv
<1>10. ASSUME RtcIsOpen, ~backpressured, outcome' = [outcome EXCEPT ![f] = "sent"],
              rtcWire' = Append(rtcWire, f), inChannel' = inChannel + Size[f],
              backpressured' = Pressed(inChannel + Size[f]), UNCHANGED << rtcQueue, queuedBytes >>
       PROVE  RtcInv'
  <2>1. /\ outcome' \in [RtcFrames -> RtcFates] /\ outcome'[f] = "sent"
        /\ \A g \in RtcFrames : g # f => outcome'[g] = outcome[g]
        /\ \A g, h \in RtcFrames : outcome'[h] # "new" /\ g < h => outcome'[g] # "new"
    <3>1. "sent" \in RtcFates BY DEF RtcFates
    <3> QED BY <1>7, <1>10, <3>1
  <2>2. rtcWire' = rtcWire \o one BY <1>2, <1>10 DEF one
  <2>3. rtcQueue = << >> /\ rtcQueue' = << >> BY <1>0, <1>10 DEF RtcUnblocks
  <2>4. /\ rtcWire' \in Seq(RtcFrames) /\ ToSet(rtcWire') = ToSet(rtcWire) \cup {f}
        /\ Rises(rtcWire') <=> Rises(rtcWire) /\ Before(ToSet(rtcWire), {f})
    BY <1>2, <1>c, <2>2
  <2>5. Rises(rtcWire') BY <1>0, <1>4, <2>4 DEF GoesOut, Before
  <2>6. RtcType' BY <1>0, <1>1, <1>10, <2>1, <2>4 DEF RtcType, Pressed
  <2>7. \A g \in ToSet(rtcWire') : outcome'[g] # "new" BY <1>0, <1>2, <2>1, <2>4 DEF GoesOut
  <2>8. GoesOut'
    <3>1. Rises(rtcWire)' /\ ToSet(rtcWire)' = ToSet(rtcWire') BY <2>5 DEF Rises
    <3>2. ToSet(rtcQueue)' = {} /\ Rises(rtcQueue)'
      <4>1. Len(rtcQueue') = 0 /\ DOMAIN rtcQueue' = {} BY <2>3
      <4> QED BY <4>1 DEF ToSet, Rises
    <3>3. Before(ToSet(rtcWire), ToSet(rtcQueue))' BY <3>2 DEF Before
    <3> QED BY <2>1, <2>7, <3>1, <3>2, <3>3 DEF GoesOut
  <2>9. \A g \in RtcFrames : outcome'[g] = "queued" <=> g \in ToSet(rtcQueue)
    BY <1>0, <1>5, <2>1 DEF QueueIsKnown
  <2>10. QueueIsKnown' BY <1>0, <1>10, <2>9 DEF QueueIsKnown
  <2>11. PhasesAgree' BY <1>0, <1>1, <1>10 DEF PhasesAgree, RtcIsOpen
  <2>12. RtcUnblocks'
    <3>1. inChannel' \in Nat BY <1>0, <1>2, <1>10
    <3>2. ASSUME backpressured' PROVE inChannel' > LowWater
      <4>1. inChannel' > HighWater BY <1>10, <3>2 DEF Pressed
      <4> QED BY <1>0, <3>1, <4>1
    <3> QED BY <1>1, <2>3, <3>2 DEF RtcUnblocks, RtcIsOpen
  <2> QED BY <2>6, <2>8, <2>10, <2>11, <2>12 DEF RtcInv
<1>d. queuedBytes \in Nat
  <2>1. Bytes(rtcQueue) \in Nat BY <1>2, BytesJoined
  <2> QED BY <1>0, <2>1 DEF QueueIsKnown
<1>11. CASE ~RtcIsOpen
  <2>1. /\ outcome' = [outcome EXCEPT ![f] = "refused"]
        /\ UNCHANGED << inChannel, backpressured, rtcQueue, queuedBytes, rtcWire >>
    BY <1>11 DEF SendRtc
  <2> QED BY <1>8, <2>1
<1>12. CASE RtcIsOpen /\ backpressured /\ queuedBytes + Size[f] > QueueBudget
  <2>0. ~(queuedBytes + Size[f] <= QueueBudget) BY <1>0, <1>12, <1>d
  <2>1. /\ outcome' = [outcome EXCEPT ![f] = "dropped"]
        /\ UNCHANGED << inChannel, backpressured, rtcQueue, queuedBytes, rtcWire >>
    BY <1>12, <2>0 DEF SendRtc
  <2> QED BY <1>8, <2>1
<1>13. CASE RtcIsOpen /\ backpressured /\ queuedBytes + Size[f] <= QueueBudget
  <2>0. ~(queuedBytes + Size[f] > QueueBudget) BY <1>0, <1>13, <1>d
  <2>1. /\ outcome' = [outcome EXCEPT ![f] = "queued"]
        /\ rtcQueue' = Append(rtcQueue, f) /\ queuedBytes' = queuedBytes + Size[f]
        /\ UNCHANGED << inChannel, backpressured, rtcWire >>
    BY <1>13, <2>0 DEF SendRtc
  <2> QED BY <1>9, <1>13, <2>1
<1>14. CASE RtcIsOpen /\ ~backpressured /\ throws
  <2>1. /\ outcome' = [outcome EXCEPT ![f] = "failed"]
        /\ UNCHANGED << inChannel, backpressured, rtcQueue, queuedBytes, rtcWire >>
    BY <1>14 DEF SendRtc
  <2> QED BY <1>8, <2>1
<1>15. CASE RtcIsOpen /\ ~backpressured /\ ~throws
  <2>1. /\ outcome' = [outcome EXCEPT ![f] = "sent"] /\ rtcWire' = Append(rtcWire, f)
        /\ inChannel' = inChannel + Size[f]
        /\ backpressured' = Pressed(inChannel + Size[f])
        /\ UNCHANGED << rtcQueue, queuedBytes >>
    BY <1>15 DEF SendRtc
  <2> QED BY <1>10, <1>15, <2>1
<1>16. queuedBytes + Size[f] > QueueBudget \/ queuedBytes + Size[f] <= QueueBudget BY <1>0, <1>d
<1> QED BY <1>11, <1>12, <1>13, <1>14, <1>15, <1>16

(* A set of places has a first one.                                        *)
LEMMA MinOf ==
  ASSUME NEW T, T \subseteq Nat, T # {}
  PROVE  Min(T) \in T /\ \A j \in T : Min(T) <= j
<1>1. PICK c \in T : \A d \in T : c <= d BY LeastExists
<1> QED BY <1>1 DEF Min

(* How far the drain loop gets: to the end, or to the frame that fills the channel.  *)
LEMMA DrainsFar ==
  ASSUME NEW lost, rtcQueue \in Seq(RtcFrames)
  PROVE  /\ Drains(lost) \in 0..Len(rtcQueue)
         /\ Drains(lost) = Len(rtcQueue)
            \/ /\ Drains(lost) \in 1..Len(rtcQueue)
               /\ rtcQueue[Drains(lost)] \notin lost
               /\ Pressed(inChannel + Bytes(Accepted(SubSeq(rtcQueue, 1, Drains(lost)), lost)))
<1> DEFINE total(i) == inChannel + Bytes(Accepted(SubSeq(rtcQueue, 1, i), lost))
           filling == {i \in 1..Len(rtcQueue) : rtcQueue[i] \notin lost /\ Pressed(total(i))}
<1>1. Drains(lost) = IF filling = {} THEN Len(rtcQueue) ELSE Min(filling) BY DEF Drains
<1>2. Len(rtcQueue) \in Nat /\ filling \subseteq Nat OBVIOUS
<1>3. CASE filling = {} BY <1>1, <1>2, <1>3
<1>4. CASE filling # {}
  <2>1. Min(filling) \in filling
    <3> HIDE DEF filling
    <3> QED BY <1>2, <1>4, MinOf
  <2>2. Drains(lost) = Min(filling) BY <1>1, <1>4
  <2>3. Drains(lost) \in filling BY <2>1, <2>2
  <2> HIDE DEF total
  <2>4. Drains(lost) \in 1..Len(rtcQueue) /\ rtcQueue[Drains(lost)] \notin lost /\ Pressed(total(Drains(lost)))
    BY <2>3
  <2>5. Drains(lost) \in 0..Len(rtcQueue) BY <1>2, <2>4
  <2> QED BY <2>4, <2>5 DEF total
<1> QED BY <1>3, <1>4

(* The event is heard: the frames leave in their order, until it is enough. *)
LEMMA LowEventKeeps ==
  ASSUME RtcInv, NEW lost, LowEvent(lost)
  PROVE  RtcInv'
<1>0. /\ RtcType /\ GoesOut /\ QueueIsKnown /\ PhasesAgree /\ RtcUnblocks /\ RtcFrames \subseteq Int
      /\ HighWater \in Nat /\ LowWater \in Nat /\ LowWater <= HighWater /\ QueueBudget \in Nat
  BY RtcConstants DEF RtcInv
<1>1. /\ rtcQueue \in Seq(RtcFrames) /\ rtcWire \in Seq(RtcFrames) /\ outcome \in [RtcFrames -> RtcFates]
      /\ ToSet(rtcQueue) \subseteq RtcFrames /\ ToSet(rtcWire) \subseteq RtcFrames
      /\ inChannel \in Nat /\ lowEvents \in Nat
  BY <1>0, PlacesAre DEF RtcType
<1> DEFINE n == IF RtcIsOpen THEN Drains(lost) ELSE 0
           out == SubSeq(rtcQueue, 1, n)
           rest == SubSeq(rtcQueue, n + 1, Len(rtcQueue))
           took == Accepted(out, lost)
<1>2. /\ lowEvents > 0 /\ lowEvents' = lowEvents - 1 /\ UNCHANGED << rtcState, channel, rtcCloses >>
      /\ rtcQueue' = rest /\ queuedBytes' = queuedBytes - Bytes(out)
      /\ inChannel' = inChannel + Bytes(took) /\ rtcWire' = rtcWire \o took
      /\ outcome' = [f \in RtcFrames |-> IF f \in ToSet(out) THEN (IF f \in lost THEN "failed" ELSE "sent")
                                         ELSE outcome[f]]
      /\ backpressured' = (took # << >> /\ Pressed(inChannel'))
  BY DEF LowEvent
<1>3. /\ n \in 0..Len(rtcQueue)
      /\ RtcIsOpen => \/ n = Len(rtcQueue)
                      \/ n \in 1..Len(rtcQueue) /\ rtcQueue[n] \notin lost /\ Pressed(inChannel + Bytes(took))
  <2>1. Len(rtcQueue) \in Nat BY <1>1
  <2>2. CASE ~RtcIsOpen BY <2>1, <2>2
  <2>3. CASE RtcIsOpen BY <1>1, <2>3, DrainsFar
  <2> QED BY <2>2, <2>3
<1> HIDE DEF n
<1>4. /\ out \in Seq(RtcFrames) /\ Len(out) = n /\ rest \in Seq(RtcFrames) /\ Len(rest) = Len(rtcQueue) - n
      /\ rtcQueue = out \o rest /\ \A i \in 1..n : out[i] = rtcQueue[i]
  BY <1>1, <1>3, CutAnywhere, ZenonT(60)
<1> HIDE DEF out, rest
<1>5. took \in Seq(RtcFrames) /\ ToSet(took) = ToSet(out) \ lost /\ (Rises(out) => Rises(took))
  BY <1>4, AcceptedKeeps
<1> HIDE DEF took
<1>6. /\ ToSet(rtcQueue) = ToSet(out) \cup ToSet(rest)
      /\ Rises(out) /\ Rises(rest) /\ Before(ToSet(out), ToSet(rest))
  BY <1>0, <1>4, RisesJoined, ZenonT(60) DEF GoesOut
<1>7. ToSet(out) \subseteq RtcFrames /\ ToSet(rest) \subseteq RtcFrames /\ ToSet(took) \subseteq ToSet(out)
  BY <1>1, <1>5, <1>6
<1>8. ToSet(out) \cap ToSet(rest) = {}
  <2> SUFFICES ASSUME NEW f \in ToSet(out), f \in ToSet(rest) PROVE FALSE OBVIOUS
  <2>1. f < f /\ f \in Int BY <1>0, <1>6, <1>7 DEF Before
  <2> QED BY <2>1
<1>9. /\ Bytes(rtcQueue) = Bytes(out) + Bytes(rest) /\ Bytes(out) \in Nat /\ Bytes(rest) \in Nat
      /\ Bytes(took) \in Nat
  BY <1>4, <1>5, BytesJoined
<1>10. /\ rtcWire' \in Seq(RtcFrames) /\ ToSet(rtcWire') = ToSet(rtcWire) \cup ToSet(took)
       /\ Rises(rtcWire') <=> Rises(rtcWire) /\ Rises(took) /\ Before(ToSet(rtcWire), ToSet(took))
  <2> DEFINE all == rtcWire \o took
  <2>0. RtcFrames \subseteq Int /\ rtcWire \in Seq(RtcFrames) /\ took \in Seq(RtcFrames) BY <1>0, <1>1, <1>5
  <2>1. /\ all \in Seq(RtcFrames) /\ ToSet(all) = ToSet(rtcWire) \cup ToSet(took)
        /\ Rises(all) <=> Rises(rtcWire) /\ Rises(took) /\ Before(ToSet(rtcWire), ToSet(took))
    BY <2>0, RisesJoined
  <2>2. rtcWire' = all BY <1>2
  <2> HIDE DEF all
  <2> QED BY <2>1, <2>2
<1>11. Rises(rtcWire') /\ Before(ToSet(rtcWire'), ToSet(rest))
  <2>1. Before(ToSet(rtcWire), ToSet(took)) /\ Before(ToSet(rtcWire), ToSet(rest))
    BY <1>0, <1>6, <1>7 DEF GoesOut, Before
  <2>2. Before(ToSet(took), ToSet(rest)) BY <1>6, <1>7 DEF Before
  <2>3. Rises(rtcWire') BY <1>0, <1>5, <1>6, <1>10, <2>1 DEF GoesOut
  <2>4. Before(ToSet(rtcWire'), ToSet(rest)) BY <1>10, <2>1, <2>2 DEF Before
  <2> QED BY <2>3, <2>4
<1>12. /\ outcome' \in [RtcFrames -> RtcFates]
       /\ \A f \in RtcFrames : f \in ToSet(out) => outcome'[f] \in {"failed", "sent"}
       /\ \A f \in RtcFrames : f \notin ToSet(out) => outcome'[f] = outcome[f]
  <2>1. \A f \in RtcFrames : f \in ToSet(out) => outcome'[f] \in {"failed", "sent"} BY <1>2
  <2>2. \A f \in RtcFrames : f \notin ToSet(out) => outcome'[f] = outcome[f] BY <1>2
  <2>3. \A f \in RtcFrames : outcome'[f] \in RtcFates BY <1>1, <2>1, <2>2 DEF RtcFates
  <2>4. outcome' = [f \in RtcFrames |-> outcome'[f]] BY <1>2
  <2> QED BY <2>1, <2>2, <2>3, <2>4
<1>13. \A f \in RtcFrames : outcome'[f] = "new" <=> outcome[f] = "new"
  <2> TAKE f \in RtcFrames
  <2>1. CASE f \in ToSet(out)
    <3>1. outcome[f] = "queued" BY <1>0, <1>6, <2>1 DEF QueueIsKnown
    <3> QED BY <1>12, <2>1, <3>1
  <2>2. CASE f \notin ToSet(out) BY <1>12, <2>2
  <2> QED BY <2>1, <2>2
<1>14. RtcType'
  <2>1. inChannel' \in Nat /\ lowEvents' \in Nat BY <1>1, <1>2, <1>9
  <2>2. backpressured' \in BOOLEAN BY <1>2 DEF Pressed
  <2> QED BY <1>0, <1>2, <1>4, <1>10, <1>12, <2>1, <2>2 DEF RtcType
<1>15. GoesOut'
  <2>1. \A f, g \in RtcFrames : outcome'[g] # "new" /\ f < g => outcome'[f] # "new" BY <1>0, <1>13 DEF GoesOut
  <2>2. \A f \in ToSet(rtcWire') : outcome'[f] # "new"
    <3> TAKE f \in ToSet(rtcWire')
    <3>1. CASE f \in ToSet(rtcWire) BY <1>0, <1>1, <1>13, <3>1 DEF GoesOut
    <3>2. CASE f \in ToSet(took) BY <1>7, <1>12, <3>2
    <3> QED BY <1>10, <3>1, <3>2
  <2>3. ToSet(rtcWire)' = ToSet(rtcWire') /\ ToSet(rtcQueue)' = ToSet(rest) BY <1>2
  <2>4. Rises(rtcWire)' BY <1>11 DEF Rises
  <2>5. Rises(rtcQueue)' BY <1>2, <1>6 DEF Rises
  <2>6. Before(ToSet(rtcWire), ToSet(rtcQueue))' BY <1>11, <2>3 DEF Before
  <2> QED BY <2>1, <2>2, <2>3, <2>4, <2>5, <2>6 DEF GoesOut
<1>16. QueueIsKnown'
  <2>1. \A f \in RtcFrames : outcome'[f] = "queued" <=> f \in ToSet(rest)
    BY <1>0, <1>6, <1>8, <1>12 DEF QueueIsKnown
  <2>2. Bytes(rtcQueue)' = Bytes(rest) /\ ToSet(rtcQueue)' = ToSet(rest) BY <1>2 DEF Bytes
  <2>3. queuedBytes' = Bytes(rest) /\ Bytes(rest) <= QueueBudget BY <1>0, <1>2, <1>9 DEF QueueIsKnown
  <2> QED BY <2>1, <2>2, <2>3 DEF QueueIsKnown
<1>17. ASSUME RtcIsOpen PROVE /\ rest # << >> => backpressured'
                              /\ backpressured' => inChannel' > LowWater
  <2>1. ASSUME rest # << >> PROVE backpressured'
    <3>1. n # Len(rtcQueue) BY <1>1, <1>4, <2>1
    <3>2. n \in 1..Len(rtcQueue) /\ rtcQueue[n] \notin lost /\ Pressed(inChannel + Bytes(took)) BY <1>3, <1>17, <3>1
    <3>3. n \in 1..n BY <3>2
    <3>4. out[n] \in ToSet(out) /\ out[n] = rtcQueue[n] BY <1>4, <3>3, PlacesAre
    <3>5. ToSet(took) # {} BY <1>5, <3>2, <3>4
    <3>6. took # << >>
      <4> SUFFICES ASSUME took = << >> PROVE FALSE OBVIOUS
      <4>1. DOMAIN took = {} BY <1>5
      <4> QED BY <3>5, <4>1 DEF ToSet
    <3> QED BY <1>2, <3>2, <3>6
  <2>2. ASSUME backpressured' PROVE inChannel' > LowWater
    <3>1. inChannel' > HighWater BY <1>2, <2>2 DEF Pressed
    <3>2. inChannel' \in Nat BY <1>14 DEF RtcType
    <3> QED BY <1>0, <3>1, <3>2
  <2> QED BY <2>1, <2>2
<1>18. RtcUnblocks' BY <1>2, <1>17 DEF RtcUnblocks, RtcIsOpen
<1>19. PhasesAgree'
  <2>1. ASSUME rtcState = "connecting" PROVE rtcQueue' = << >> /\ ~backpressured'
    <3>1. rtcQueue = << >> /\ ~RtcIsOpen BY <1>0, <2>1 DEF PhasesAgree, RtcIsOpen
    <3>2. n = 0 /\ Len(rest) = 0 /\ Len(out) = 0 BY <1>1, <1>4, <3>1 DEF n
    <3>3. ToSet(took) = {}
      <4>1. DOMAIN out = {} BY <1>4, <3>2
      <4> QED BY <1>5, <4>1 DEF ToSet
    <3>4. took = << >>
      <4> SUFFICES ASSUME took # << >> PROVE FALSE OBVIOUS
      <4>1. 1 \in 1..Len(took) BY <1>5
      <4> QED BY <1>5, <3>3, <4>1, PlacesAre
    <3>5. rest = << >>
      <4> SUFFICES ASSUME rest # << >> PROVE FALSE OBVIOUS
      <4> QED BY <1>4, <3>2
    <3> QED BY <1>2, <3>4, <3>5
  <2> QED BY <1>0, <1>2, <2>1 DEF PhasesAgree
<1> QED BY <1>14, <1>15, <1>16, <1>18, <1>19 DEF RtcInv

(* What leaves the frames alone.                                           *)
LEMMA FramesStand ==
  ASSUME RtcInv, UNCHANGED << rtcQueue, queuedBytes, outcome, rtcWire >>
  PROVE  GoesOut' /\ QueueIsKnown'
BY DEF RtcInv, GoesOut, QueueIsKnown, Rises, Before, Bytes

LEMMA RtcStep == ASSUME RtcInv, RtcNext PROVE RtcInv'
<1>0. /\ RtcType /\ GoesOut /\ QueueIsKnown /\ PhasesAgree /\ RtcUnblocks
      /\ LowWater \in Nat /\ QueueBudget \in Nat
  BY RtcConstants DEF RtcInv
<1>1. ASSUME NEW f \in RtcFrames, NEW throws \in BOOLEAN, SendRtc(f, throws) PROVE RtcInv'
  BY <1>1, SendRtcKeeps
<1>2. ASSUME NEW lost, LowEvent(lost) PROVE RtcInv' BY <1>2, LowEventKeeps
<1>3. CASE NetworkDrains
  <2>1. PICK n \in 1..inChannel :
          /\ channel = "open" /\ inChannel' = inChannel - n
          /\ lowEvents' = IF inChannel > LowWater /\ inChannel - n <= LowWater THEN lowEvents + 1 ELSE lowEvents
          /\ UNCHANGED << rtcState, channel, backpressured, rtcQueue, queuedBytes, outcome, rtcWire, rtcCloses >>
    BY <1>3 DEF NetworkDrains
  <2>2. inChannel \in Nat /\ lowEvents \in Nat /\ inChannel' \in Nat /\ lowEvents' \in Nat
    BY <1>0, <2>1 DEF RtcType
  <2>3. RtcType' BY <1>0, <2>1, <2>2 DEF RtcType
  <2>4. PhasesAgree' BY <1>0, <2>1 DEF PhasesAgree
  <2>5. inChannel > LowWater \/ lowEvents > 0 => inChannel' > LowWater \/ lowEvents' > 0
    BY <1>0, <2>1, <2>2
  <2>6. RtcUnblocks' BY <1>0, <2>1, <2>5 DEF RtcUnblocks, RtcIsOpen
  <2> QED BY <2>1, <2>3, <2>4, <2>6, FramesStand DEF RtcInv
<1>4. CASE RtcOpens
  <2>1. /\ channel = "connecting" /\ channel' = "open" /\ rtcState' = "open" /\ rtcState = "connecting"
        /\ UNCHANGED << inChannel, lowEvents, backpressured, rtcQueue, queuedBytes, outcome, rtcWire, rtcCloses >>
    BY <1>0, <1>4 DEF RtcOpens, PhasesAgree
  <2>2. RtcType' BY <1>0, <2>1 DEF RtcType, RtcPhases
  <2>3. PhasesAgree' BY <1>0, <2>1 DEF PhasesAgree
  <2>4. RtcUnblocks' BY <1>0, <2>1 DEF RtcUnblocks, PhasesAgree
  <2> QED BY <2>1, <2>2, <2>3, <2>4, FramesStand DEF RtcInv
<1>5. CASE RtcClosing
  <2>1. /\ channel = "open" /\ channel' = "closing"
        /\ rtcState' = IF RtcIsOpen THEN "closing" ELSE rtcState
        /\ UNCHANGED << inChannel, lowEvents, backpressured, rtcQueue, queuedBytes, outcome, rtcWire, rtcCloses >>
    BY <1>5 DEF RtcClosing
  <2>2. RtcType' BY <1>0, <2>1 DEF RtcType, RtcPhases
  <2>3. PhasesAgree' BY <1>0, <2>1 DEF PhasesAgree, RtcIsOpen
  <2>4. RtcUnblocks' BY <2>1 DEF RtcUnblocks, RtcIsOpen
  <2> QED BY <2>1, <2>2, <2>3, <2>4, FramesStand DEF RtcInv
<1>6. CASE RtcClosed
  <2>1. /\ channel' = "closed" /\ rtcState' = "closed"
        /\ UNCHANGED << inChannel, lowEvents, rtcQueue, queuedBytes, outcome, rtcWire >>
        /\ backpressured' \in BOOLEAN
        /\ rtcCloses' = IF rtcState = "closed" THEN rtcCloses ELSE rtcCloses + 1
    BY <1>0, <1>6 DEF RtcClosed, ClosedOnce, RtcType
  <2>2. RtcType' BY <1>0, <2>1 DEF RtcType, RtcPhases
  <2>3. PhasesAgree' BY <1>0, <2>1 DEF PhasesAgree
  <2>4. RtcUnblocks' BY <2>1 DEF RtcUnblocks, RtcIsOpen
  <2> QED BY <2>1, <2>2, <2>3, <2>4, FramesStand DEF RtcInv
<1>7. CASE CloseRtc
  <2>1. /\ channel' = (IF channel \in {"connecting", "open"} THEN "closing" ELSE channel)
        /\ rtcState # "closed" /\ rtcState' = "closed" /\ backpressured' = FALSE /\ rtcCloses' = rtcCloses + 1
        /\ UNCHANGED << inChannel, lowEvents, rtcQueue, queuedBytes, outcome, rtcWire >>
    BY <1>7 DEF CloseRtc, ClosedOnce
  <2>a. channel' \in RtcPhases /\ rtcState' \in RtcPhases BY <1>0, <2>1 DEF RtcType, RtcPhases
  <2>b. rtcCloses' \in Nat
    <3>1. rtcCloses \in Nat /\ rtcCloses' = rtcCloses + 1 BY <1>0, <2>1 DEF RtcType
    <3> QED BY <3>1
  <2>c. backpressured' \in BOOLEAN BY <2>1
  <2>2. RtcType' BY <1>0, <2>1, <2>a, <2>b, <2>c DEF RtcType
  <2>3. PhasesAgree' BY <1>0, <2>1 DEF PhasesAgree
  <2>4. RtcUnblocks' BY <2>1 DEF RtcUnblocks, RtcIsOpen
  <2> QED BY <2>1, <2>2, <2>3, <2>4, FramesStand DEF RtcInv
<1>8. CASE DisposeRtc
  <2>1. /\ channel' = (IF channel \in {"connecting", "open"} THEN "closing" ELSE channel)
        /\ rtcState' = "closed" /\ backpressured' \in BOOLEAN
        /\ rtcCloses' = IF rtcState = "closed" THEN rtcCloses ELSE rtcCloses + 1
        /\ rtcQueue' = << >> /\ queuedBytes' = 0 /\ lowEvents' = 0 /\ UNCHANGED << inChannel, rtcWire >>
        /\ outcome' = [f \in RtcFrames |-> IF f \in ToSet(rtcQueue) THEN "discarded" ELSE outcome[f]]
    BY <1>0, <1>8 DEF DisposeRtc, ClosedOnce, RtcType
  <2>2. outcome \in [RtcFrames -> RtcFates] /\ rtcWire \in Seq(RtcFrames) BY <1>0 DEF RtcType
  <2>3. outcome' \in [RtcFrames -> RtcFates] BY <2>1, <2>2 DEF RtcFates
  <2>4. RtcType' BY <1>0, <2>1, <2>3 DEF RtcType, RtcPhases
  <2>5. PhasesAgree' BY <1>0, <2>1 DEF PhasesAgree
  <2>6. RtcUnblocks' BY <2>1 DEF RtcUnblocks, RtcIsOpen
  <2>7. Len(rtcQueue') = 0 /\ ToSet(rtcQueue)' = {}
    <3>1. Len(rtcQueue') = 0 /\ DOMAIN rtcQueue' = {} BY <2>1
    <3> QED BY <3>1 DEF ToSet
  <2>8. \A f \in RtcFrames : outcome'[f] = "new" <=> outcome[f] = "new"
    BY <1>0, <2>1 DEF QueueIsKnown
  <2>9. \A f \in RtcFrames : outcome'[f] # "queued" BY <1>0, <2>1 DEF QueueIsKnown
  <2>10. Bytes(rtcQueue)' = 0 BY <2>1, BytesOfNone DEF Bytes
  <2>11. QueueIsKnown' BY <1>0, <2>1, <2>7, <2>9, <2>10 DEF QueueIsKnown
  <2>12. ToSet(rtcWire) \subseteq RtcFrames BY <2>2, PlacesAre
  <2>13. ToSet(rtcWire)' = ToSet(rtcWire) BY <2>1
  <2>14. /\ \A f, g \in RtcFrames : outcome'[g] # "new" /\ f < g => outcome'[f] # "new"
         /\ \A f \in ToSet(rtcWire) : outcome'[f] # "new"
    BY <1>0, <2>8, <2>12 DEF GoesOut
  <2>15. Rises(rtcWire)' /\ Rises(rtcQueue)' /\ Before(ToSet(rtcWire), ToSet(rtcQueue))'
    BY <1>0, <2>1, <2>7 DEF GoesOut, Rises, Before
  <2>16. GoesOut' BY <2>13, <2>14, <2>15 DEF GoesOut
  <2> QED BY <2>4, <2>5, <2>6, <2>11, <2>16 DEF RtcInv
<1> QED BY <1>1, <1>2, <1>3, <1>4, <1>5, <1>6, <1>7, <1>8 DEF RtcNext

(* While other parts move.                                                 *)
LEMMA RtcStands == ASSUME RtcInv, UNCHANGED rtcVars PROVE RtcInv'
<1>1. GoesOut' /\ QueueIsKnown' BY FramesStand DEF rtcVars
<1> QED BY <1>1 DEF rtcVars, RtcInv, RtcType, PhasesAgree, RtcUnblocks, RtcIsOpen

-----------------------------------------------------------------------------
(***************************************************************************)
(* The frame decoder.  What is live in its buffer is the stream from the   *)
(* next frame on, and each round of the loop takes that frame.             *)
(***************************************************************************)
StartIn(s, f) ==
  LET start[g \in 0..Len(s)] == IF g = 0 THEN 1 ELSE start[g - 1] + Header + s[g]
  IN  start[f - 1]

LEMMA StartIsIn ==
  /\ \A f : StartOf(f) = StartIn(stream, f)
  /\ StreamEnd = StartIn(stream, Len(stream) + 1) - 1
BY DEF StartOf, StartIn, StreamEnd

(* A frame begins where the one before it ends.                            *)
LEMMA StartSteps ==
  ASSUME NEW s \in Seq(Nat)
  PROVE  /\ StartIn(s, 1) = 1
         /\ \A g \in 1..(Len(s) + 1) : StartIn(s, g) \in Nat
         /\ \A g \in 1..Len(s) : StartIn(s, g + 1) = StartIn(s, g) + Header + s[g]
<1> DEFINE n == Len(s)
           V == Nat
           G == [p \in (1..n) \X V |-> p[2] + Header + s[p[1]]]
           Step(f) == [g \in 0..Len(s) |-> IF g = 0 THEN 1 ELSE f[g - 1] + Header + s[g]]
           start == CHOOSE f : f = Step(f)
<1>0. Header \in Nat BY FramingConstants
<1>1. n \in Nat /\ 1 \in V /\ \A g \in 1..n : s[g] \in Nat OBVIOUS
<1>2. G \in [(1..n) \X V -> V] BY <1>0, <1>1
<1>3. PICK f : Recursion(f, n, V, 1, G)
  <2> HIDE DEF G, n, V
  <2> QED BY <1>1, <1>2, StepwiseExists
<1>4. f \in [0..n -> V] /\ f[0] = 1 /\ \A i \in 1..n : f[i] = G[<< i, f[i - 1] >>]
  <2> HIDE DEF G, n, V
  <2> QED BY <1>3 DEF Recursion
<1>5. ASSUME NEW i \in 1..n PROVE f[i] = f[i - 1] + Header + s[i]
  <2>1. f[i - 1] \in V BY <1>1, <1>4, SMTT(60)
  <2>2. << i, f[i - 1] >> \in (1..n) \X V BY <2>1
  <2> QED BY <1>4, <2>2
<1> HIDE DEF G
<1>6. f = Step(f)
  <2>1. \A i \in 0..n : i = 0 \/ i \in 1..n BY <1>1
  <2> QED BY <1>4, <1>5, <2>1
<1>7. start = Step(start)
  <2> HIDE DEF Step
  <2> QED BY <1>6
<1>8. \A g : StartIn(s, g) = start[g - 1] BY DEF StartIn
<1> HIDE DEF start
<1>9. \A i \in 0..n : start[i] = f[i]
  <2> DEFINE T == {i \in 0..n : start[i] = f[i]}
  <2>1. 0 \in T BY <1>1, <1>4, <1>7
  <2>2. ASSUME NEW i \in 1..n, i - 1 \in T PROVE i \in T
    <3>1. i \in 0..n /\ i # 0 BY <1>1
    <3>2. start[i] = start[i - 1] + Header + s[i] BY <1>7, <3>1
    <3> QED BY <1>5, <2>2, <3>1, <3>2
  <2>3. \A i \in 0..n : i \in T
    <3> HIDE DEF T
    <3> QED BY <1>1, <2>1, <2>2, UpTo
  <2> QED BY <2>3
<1>10. \A g \in 1..(n + 1) : g - 1 \in 0..n /\ StartIn(s, g) = f[g - 1] BY <1>1, <1>8, <1>9
<1>11. \A g \in 1..(n + 1) : StartIn(s, g) \in Nat BY <1>4, <1>10
<1>12. ASSUME NEW g \in 1..n PROVE StartIn(s, g + 1) = StartIn(s, g) + Header + s[g]
  <2>1. g \in 1..(n + 1) /\ g + 1 \in 1..(n + 1) /\ (g + 1) - 1 = g BY <1>1
  <2>2. StartIn(s, g + 1) = f[g] /\ StartIn(s, g) = f[g - 1] BY <1>10, <2>1
  <2> QED BY <1>5, <2>2
<1>13. StartIn(s, 1) = 1
  <2>1. 1 \in 1..(n + 1) /\ 1 - 1 = 0 BY <1>1
  <2> QED BY <1>4, <1>10, <2>1
<1> QED BY <1>11, <1>12, <1>13

(* Two frames begin a header apart, at least.                              *)
LEMMA StartRises ==
  ASSUME NEW s \in Seq(Nat), NEW g \in 1..(Len(s) + 1), NEW h \in 1..(Len(s) + 1), g < h
  PROVE  StartIn(s, g) + Header <= StartIn(s, h)
<1> DEFINE n == Len(s) + 1 - g
           T == {i \in 0..n : i = 0 \/ StartIn(s, g) + Header <= StartIn(s, g + i)}
<1>0. Header \in Nat /\ Len(s) \in Nat /\ n \in Nat /\ \A i \in 1..Len(s) : s[i] \in Nat BY FramingConstants
<1>1. 0 \in T BY <1>0
<1>2. ASSUME NEW i \in 1..n, i - 1 \in T PROVE i \in T
  <2>1. g + (i - 1) \in 1..Len(s) /\ (g + (i - 1)) + 1 = g + i /\ g + i \in 1..(Len(s) + 1) BY <1>0
  <2>2. StartIn(s, g + i) = StartIn(s, g + (i - 1)) + Header + s[g + (i - 1)] BY <2>1, StartSteps
  <2>3. StartIn(s, g) \in Nat /\ StartIn(s, g + (i - 1)) \in Nat /\ s[g + (i - 1)] \in Nat
    <3>1. g + (i - 1) \in 1..(Len(s) + 1) BY <1>0, <2>1
    <3> QED BY <1>0, <2>1, <3>1, StartSteps
  <2>4. StartIn(s, g) <= StartIn(s, g + (i - 1))
    <3>1. CASE i - 1 = 0
      <4>1. g + (i - 1) = g BY <3>1
      <4> QED BY <2>3, <4>1
    <3>2. CASE i - 1 # 0 BY <1>0, <1>2, <2>3, <3>2
    <3> QED BY <3>1, <3>2
  <2>5. StartIn(s, g) + Header <= StartIn(s, g + i) BY <1>0, <2>2, <2>3, <2>4, SMTT(60)
  <2>6. i \in 0..n BY <1>0
  <2> QED BY <2>5, <2>6
<1>3. \A i \in 0..n : i \in T
  <2> HIDE DEF T, n
  <2> QED BY <1>0, <1>1, <1>2, UpTo
<1>4. h - g \in 0..n /\ h - g # 0 /\ g + (h - g) = h BY <1>0
<1>5. StartIn(s, g) + Header <= StartIn(s, g + (h - g)) BY <1>3, <1>4
<1> QED BY <1>4, <1>5

(* Doubling gets there.                                                    *)
LEMMA DoubledIsEnough ==
  ASSUME NEW capacity \in Nat \ {0}, NEW needed \in Nat
  PROVE  Doubled(capacity, needed) \in Nat /\ Doubled(capacity, needed) >= needed
<1> DEFINE n == needed
           V == Nat
           G == [p \in (1..n) \X V |-> 2 * p[2]]
           Step(f) == [k \in 0..needed |-> IF k = 0 THEN capacity ELSE 2 * f[k - 1]]
           twice == CHOOSE f : f = Step(f)
           Reaches(k) == twice[k] >= needed /\ \A j \in 0..k - 1 : twice[j] < needed
<1>1. n \in Nat /\ capacity \in V OBVIOUS
<1>2. G \in [(1..n) \X V -> V] OBVIOUS
<1>3. PICK f : Recursion(f, n, V, capacity, G)
  <2> HIDE DEF G, n, V
  <2> QED BY <1>1, <1>2, StepwiseExists
<1>4. f \in [0..n -> V] /\ f[0] = capacity /\ \A i \in 1..n : f[i] = G[<< i, f[i - 1] >>]
  <2> HIDE DEF G, n, V
  <2> QED BY <1>3 DEF Recursion
<1>5. ASSUME NEW i \in 1..n PROVE f[i] = 2 * f[i - 1]
  <2>1. f[i - 1] \in V BY <1>1, <1>4
  <2>2. << i, f[i - 1] >> \in (1..n) \X V BY <2>1
  <2> QED BY <1>4, <2>2
<1> HIDE DEF G
<1>6. f = Step(f)
  <2>1. \A i \in 0..n : i = 0 \/ i \in 1..n BY <1>1
  <2> QED BY <1>4, <1>5, <2>1
<1>7. twice = Step(twice)
  <2> HIDE DEF Step
  <2> QED BY <1>6
<1>8. Doubled(capacity, needed) = twice[CHOOSE k \in 0..needed : Reaches(k)] BY DEF Doubled
<1> HIDE DEF twice
<1>9. \A i \in 0..n : twice[i] = f[i] /\ f[i] > i
  <2> DEFINE T == {i \in 0..n : twice[i] = f[i] /\ f[i] > i}
  <2>1. 0 \in T BY <1>1, <1>4, <1>7
  <2>2. ASSUME NEW i \in 1..n, i - 1 \in T PROVE i \in T
    <3>1. i \in 0..n /\ i # 0 /\ i - 1 \in 0..n BY <1>1
    <3>2. twice[i] = 2 * twice[i - 1] BY <1>7, <3>1
    <3>3. f[i - 1] \in Nat /\ f[i - 1] > i - 1 /\ twice[i - 1] = f[i - 1] BY <1>4, <2>2, <3>1
    <3>4. f[i] = 2 * f[i - 1] BY <1>5
    <3>5. f[i] > i BY <3>3, <3>4
    <3> QED BY <3>1, <3>2, <3>3, <3>4, <3>5
  <2>3. \A i \in 0..n : i \in T
    <3> HIDE DEF T
    <3> QED BY <1>1, <2>1, <2>2, UpTo
  <2> QED BY <2>3
<1>10. \E k \in 0..needed : Reaches(k)
  <2> DEFINE T == {k \in 0..needed : twice[k] >= needed}
  <2>1. needed \in T
    <3>1. needed \in 0..needed /\ f[needed] > needed /\ twice[needed] = f[needed] /\ f[needed] \in Nat
      BY <1>4, <1>9
    <3> QED BY <3>1
  <2>2. PICK k \in T : \A j \in T : k <= j
    <3>1. T \subseteq Nat /\ T # {} BY <2>1
    <3> HIDE DEF T
    <3> QED BY <3>1, LeastExists
  <2>3. ASSUME NEW j \in 0..k - 1 PROVE twice[j] < needed
    <3>1. j \in 0..needed /\ ~(k <= j) BY <2>2
    <3>2. j \notin T BY <2>2, <3>1
    <3>3. twice[j] \in Nat BY <1>4, <1>9, <3>1
    <3> QED BY <3>1, <3>2, <3>3
  <2> QED BY <2>2, <2>3
<1> DEFINE m == CHOOSE k \in 0..needed : Reaches(k)
<1>11. m \in 0..needed /\ Reaches(m)
  <2> HIDE DEF Reaches
  <2> QED BY <1>10
<1> HIDE DEF m
<1>12. twice[m] \in Nat /\ twice[m] >= needed BY <1>4, <1>9, <1>11
<1>13. Doubled(capacity, needed) = twice[m] BY <1>8 DEF m
<1> QED BY <1>12, <1>13

(* What is live in the buffer is the stream, from the next frame to what was pushed.  *)
Whole(d, p, y) ==
  /\ d \in [buf : Seq(Nat), start : Nat, end : Nat]
  /\ d.start <= d.end /\ d.end <= Len(d.buf)
  /\ d.end - d.start = p + 1 - StartIn(stream, y + 1)
  /\ \A i \in 1..d.end - d.start : d.buf[d.start + i] = StartIn(stream, y + 1) + i - 1

FrType ==
  /\ stream \in Seq(Nat) /\ yielded \in 0..Len(stream)
  /\ pushed \in Nat /\ pushed + 1 <= StartIn(stream, Len(stream) + 1)
  /\ refused => yielded < Len(stream)

NoWholeFrame(p, y) == y < Len(stream) => p + 1 < StartIn(stream, y + 2)

FrInv ==
  /\ FrType /\ Whole(decoder, pushed, yielded) /\ ~mistaken
  /\ refused => stream[yielded + 1] + Header > MaxFrameBytes
  /\ ~refused => NoWholeFrame(pushed, yielded)

LEMMA FrHolds == FrInv => FramesAreWhole
<1> SUFFICES ASSUME FrInv PROVE FramesAreWhole OBVIOUS
<1>1. StartOf(yielded + 1) = StartIn(stream, yielded + 1) /\ StartOf(yielded + 2) = StartIn(stream, yielded + 2)
  BY StartIsIn
<1>2. /\ decoder.end - decoder.start = pushed + 1 - StartOf(yielded + 1)
      /\ \A i \in 1..decoder.end - decoder.start : decoder.buf[decoder.start + i] = StartOf(yielded + 1) + i - 1
  BY <1>1 DEF FrInv, Whole
<1>3. ASSUME yielded < Len(stream), ~refused PROVE pushed < StartOf(yielded + 2) - 1
  <2>1. pushed + 1 < StartIn(stream, yielded + 2) BY <1>3 DEF FrInv, NoWholeFrame
  <2>2. yielded + 2 \in 1..(Len(stream) + 1) /\ pushed \in Nat /\ stream \in Seq(Nat)
    BY <1>3 DEF FrInv, FrType
  <2>3. StartIn(stream, yielded + 2) \in Nat BY <2>2, StartSteps
  <2> QED BY <1>1, <2>1, <2>2, <2>3
<1> QED BY <1>2, <1>3 DEF FrInv, FramesAreWhole

(* The beginning of a stream, in an empty buffer.                          *)
LEMMA StreamBegins ==
  ASSUME NEW s \in Seq(Nat)
  PROVE  /\ 0 + 1 <= StartIn(s, Len(s) + 1) /\ StartIn(s, 0 + 1) = 1
         /\ 0 < Len(s) => 0 + 1 < StartIn(s, 0 + 2)
<1>0. Header \in Nat \ {0} /\ Len(s) \in Nat BY FramingConstants
<1>1. StartIn(s, 1) = 1 BY StartSteps
<1>2. 0 < Len(s) => 1 < StartIn(s, 2)
  <2> SUFFICES ASSUME 0 < Len(s) PROVE 1 < StartIn(s, 2) OBVIOUS
  <2>1. 1 \in 1..Len(s) /\ s[1] \in Nat BY <1>0
  <2>2. StartIn(s, 1 + 1) = StartIn(s, 1) + Header + s[1] BY <2>1, StartSteps
  <2> QED BY <1>0, <1>1, <2>1, <2>2
<1>3. 1 <= StartIn(s, Len(s) + 1)
  <2>1. CASE Len(s) = 0 BY <1>1, <2>1
  <2>2. CASE Len(s) # 0
    <3>1. 1 \in 1..(Len(s) + 1) /\ Len(s) + 1 \in 1..(Len(s) + 1) /\ 1 < Len(s) + 1 BY <1>0, <2>2
    <3>2. StartIn(s, 1) + Header <= StartIn(s, Len(s) + 1) BY <3>1, StartRises
    <3>3. StartIn(s, Len(s) + 1) \in Nat BY <3>1, StartSteps
    <3> QED BY <1>0, <1>1, <3>2, <3>3
  <2> QED BY <2>1, <2>2
<1> QED BY <1>1, <1>2, <1>3

LEMMA StreamsAre == \A s \in BoundedSeq(Payloads, MaxStream) : s \in Seq(Nat)
<1>1. Payloads \subseteq Nat BY FramingConstants
<1> TAKE s \in BoundedSeq(Payloads, MaxStream)
<1>2. MaxStream \in Nat BY FramingConstants
<1>3. PICK m \in 0..MaxStream : s \in [1..m -> Payloads] BY DEF BoundedSeq, SeqOf
<1>4. m \in Nat BY <1>2
<1>5. s = [i \in 1..m |-> s[i]] /\ \A i \in 1..m : s[i] \in Nat BY <1>1, <1>3
<1>6. s \in [1..m -> Nat] BY <1>5
<1> QED BY <1>4, <1>6

LEMMA FrStarts == FrInit => FrInv
<1> SUFFICES ASSUME FrInit PROVE FrInv OBVIOUS
<1>1. stream \in Seq(Nat) BY StreamsAre DEF FrInit
<1>2. /\ 0 + 1 <= StartIn(stream, Len(stream) + 1) /\ StartIn(stream, 0 + 1) = 1
      /\ 0 < Len(stream) => 0 + 1 < StartIn(stream, 0 + 2)
  BY <1>1, StreamBegins
<1>3. pushed = 0 /\ yielded = 0 /\ refused = FALSE /\ mistaken = FALSE BY DEF FrInit
<1>4. FrType BY <1>1, <1>2, <1>3 DEF FrType
<1>5. NoWholeFrame(pushed, yielded) BY <1>2, <1>3 DEF NoWholeFrame
<1>6. decoder = [buf |-> [i \in 1..InitialBytes |-> 0], start |-> 0, end |-> 0] /\ InitialBytes \in Nat
  BY FramingConstants DEF FrInit
<1>7. Whole(decoder, pushed, yielded)
  <2>1. decoder.buf \in Seq(Nat) /\ Len(decoder.buf) = InitialBytes /\ decoder.start = 0 /\ decoder.end = 0
    BY <1>6
  <2>2. decoder.end - decoder.start = 0 /\ 1..(decoder.end - decoder.start) = {} BY <2>1
  <2>3. decoder \in [buf : Seq(Nat), start : Nat, end : Nat] BY <1>6, <2>1
  <2> QED BY <1>2, <1>3, <1>6, <2>1, <2>2, <2>3 DEF Whole
<1> QED BY <1>3, <1>4, <1>5, <1>7 DEF FrInv

LEMMA NewStreamKeeps == ASSUME FrInv, NEW keeps \in BOOLEAN, NewStream(keeps) PROVE FrInv'
<1>1. stream' \in Seq(Nat) BY StreamsAre DEF NewStream
<1>2. /\ 0 + 1 <= StartIn(stream', Len(stream') + 1) /\ StartIn(stream', 0 + 1) = 1
      /\ 0 < Len(stream') => 0 + 1 < StartIn(stream', 0 + 2)
  BY <1>1, StreamBegins
<1>3. pushed' = 0 /\ yielded' = 0 /\ refused' = FALSE /\ ~mistaken' BY DEF NewStream, FrInv
<1>a. \A f : StartIn(stream, f)' = StartIn(stream', f) BY DEF StartIn
<1>4. FrType' BY <1>1, <1>2, <1>3, <1>a DEF FrType
<1>5. NoWholeFrame(pushed, yielded)' BY <1>2, <1>3, <1>a DEF NoWholeFrame
<1>6. decoder' = [buf |-> IF keeps THEN [i \in DOMAIN decoder.buf |-> 0] ELSE << >>, start |-> 0, end |-> 0]
  BY DEF NewStream
<1>b. decoder.buf \in Seq(Nat) BY DEF FrInv, Whole
<1>7. Whole(decoder, pushed, yielded)'
  <2>0. DOMAIN decoder.buf = 1..Len(decoder.buf) /\ Len(decoder.buf) \in Nat BY <1>b
  <2>1. decoder'.buf \in Seq(Nat) /\ Len(decoder'.buf) \in Nat /\ decoder'.start = 0 /\ decoder'.end = 0
    <3>1. CASE keeps
      <4>1. decoder'.buf = [i \in 1..Len(decoder.buf) |-> 0] BY <1>6, <2>0, <3>1
      <4> QED BY <1>6, <2>0, <4>1
    <3>2. CASE ~keeps BY <1>6, <3>2
    <3> QED BY <3>1, <3>2
  <2>2. decoder'.end - decoder'.start = 0 /\ 1..(decoder'.end - decoder'.start) = {} BY <2>1
  <2>3. decoder' \in [buf : Seq(Nat), start : Nat, end : Nat]
    <3>1. decoder' = [buf |-> decoder'.buf, start |-> 0, end |-> 0] BY <1>6
    <3> QED BY <2>1, <3>1
  <2> QED BY <1>2, <1>3, <1>a, <2>1, <2>2, <2>3 DEF Whole
<1> QED BY <1>3, <1>4, <1>5, <1>7 DEF FrInv

(* Room is made, and what was live is moved with nothing changed.          *)
LEMMA ReservedKeeps ==
  ASSUME Whole(decoder, pushed, yielded), NEW k \in Nat
  PROVE  /\ Whole(Reserved(decoder, k), pushed, yielded)
         /\ Reserved(decoder, k).end + k <= Len(Reserved(decoder, k).buf)
<1> DEFINE d == decoder
           r == Reserved(decoder, k)
           s == StartIn(stream, yielded + 1)
<1>0. /\ d.buf \in Seq(Nat) /\ d.start \in Nat /\ d.end \in Nat /\ Len(d.buf) \in Nat
      /\ d.start <= d.end /\ d.end <= Len(d.buf)
      /\ d.end - d.start = pushed + 1 - s
      /\ \A i \in 1..d.end - d.start : d.buf[d.start + i] = s + i - 1
      /\ \A i \in 1..Len(d.buf) : d.buf[i] \in Nat
  BY DEF Whole
<1>n. d.start \in Nat /\ d.end \in Nat /\ Len(d.buf) \in Nat /\ d.start <= d.end /\ d.end <= Len(d.buf)
  BY <1>0
<1>1. CASE d.end + k <= Len(d.buf)
  <2>1. r = d BY <1>1 DEF Reserved
  <2> QED BY <1>1, <2>1
<1>2. CASE ~(d.end + k <= Len(d.buf))
  <2> DEFINE live  == d.end - d.start
             fits  == live + k <= Len(d.buf)
             room  == IF fits THEN Len(d.buf)
                      ELSE Doubled(IF d.buf = << >> THEN InitialBytes ELSE Len(d.buf), live + k)
             moved == [i \in 1..room |-> CASE i <= live -> d.buf[d.start + i]
                                           [] i > live /\ fits -> d.buf[i]
                                           [] OTHER -> 0]
  <2>1. r = [buf |-> moved, start |-> 0, end |-> live] BY <1>2 DEF Reserved
  <2>2. live \in Nat /\ live <= Len(d.buf) BY <1>0
  <2>3. room \in Nat /\ live + k <= room
    <3>1. CASE fits BY <1>0, <2>2, <3>1
    <3>2. CASE ~fits
      <4> DEFINE cap == IF d.buf = << >> THEN InitialBytes ELSE Len(d.buf)
      <4>1. cap \in Nat \ {0} BY <1>0, FramingConstants
      <4>2. live + k \in Nat BY <2>2
      <4>3. room = Doubled(cap, live + k) BY <3>2
      <4> HIDE DEF cap, room, live
      <4>4. room \in Nat /\ room >= live + k BY <4>1, <4>2, <4>3, DoubledIsEnough
      <4> QED BY <4>2, <4>4
    <3> QED BY <3>1, <3>2
  <2> HIDE DEF room
  <2>4. ASSUME NEW i \in 1..room
        PROVE  moved[i] \in Nat /\ (i <= live => moved[i] = d.buf[d.start + i])
    <3>1. CASE i <= live
      <4>1. d.start + i \in 1..Len(d.buf) BY <1>n, <3>1
      <4>2. d.buf[d.start + i] \in Nat
        <5>1. \A j \in 1..Len(d.buf) : d.buf[j] \in Nat BY <1>0
        <5> QED BY <4>1, <5>1
      <4>0. ~(i > live) BY <1>n, <2>2, <3>1
      <4>3. moved[i] = d.buf[d.start + i] BY <3>1, <4>0, SMTT(60)
      <4> QED BY <4>2, <4>3
    <3>2. CASE i > live /\ fits
      <4>1. i \in 1..Len(d.buf) BY <1>0, <2>3, <3>2 DEF room
      <4>2. ~(i <= live) BY <2>2, <3>2
      <4>3. d.buf[i] \in Nat
        <5>1. \A j \in 1..Len(d.buf) : d.buf[j] \in Nat BY <1>0
        <5> QED BY <4>1, <5>1
      <4>4. moved[i] = d.buf[i] BY <3>2, <4>2, SMTT(60)
      <4> QED BY <4>2, <4>3, <4>4
    <3>3. CASE ~(i <= live) /\ ~fits BY <3>3
    <3>4. i > live \/ i <= live BY <2>2
    <3> QED BY <2>2, <3>1, <3>2, <3>3, <3>4
  <2>5. moved \in Seq(Nat) /\ Len(moved) = room
    <3>1. moved \in [1..room -> Nat] BY <2>4
    <3> HIDE DEF moved
    <3> QED BY <2>3, <3>1
  <2> HIDE DEF moved
  <2>6. /\ r.buf = moved /\ r.start = 0 /\ r.end = live /\ r.end - r.start = live BY <2>1, <2>2
  <2>7. \A i \in 1..live : moved[i] = s + i - 1
    <3> TAKE i \in 1..live
    <3>1. i \in 1..room /\ i <= live BY <2>2, <2>3
    <3> QED BY <1>0, <2>4, <3>1
  <2>8. r.end + k <= Len(r.buf) BY <2>3, <2>5, <2>6
  <2>9. Whole(r, pushed, yielded)
    <3>1. \A i \in 1..live : r.buf[r.start + i] = s + i - 1 BY <2>2, <2>6, <2>7
    <3>2. live <= Len(r.buf) BY <2>2, <2>3, <2>5, <2>6
    <3>3. live = pushed + 1 - s BY <1>0
    <3>4. r \in [buf : Seq(Nat), start : Nat, end : Nat]
      <4> HIDE DEF live
      <4> QED BY <2>1, <2>2, <2>5
    <3> HIDE DEF r, live
    <3> QED BY <2>2, <2>6, <3>1, <3>2, <3>3, <3>4 DEF Whole
  <2> QED BY <2>8, <2>9
<1> QED BY <1>1, <1>2

(* The piece is appended, and what is live goes as far as it does.         *)
LEMMA FilledKeeps ==
  ASSUME FrType, NEW r, NEW k \in Nat, Whole(r, pushed, yielded), r.end + k <= Len(r.buf)
  PROVE  Whole(Filled(r, k), pushed + k, yielded)
<1> DEFINE d == Filled(r, k)
           s == StartIn(stream, yielded + 1)
           old == r.buf
           b == [i \in DOMAIN old |-> IF i \in r.end + 1..r.end + k THEN pushed + i - r.end ELSE old[i]]
           first == r.start
           last == r.end
<1>0. /\ r \in [buf : Seq(Nat), start : Nat, end : Nat] /\ old \in Seq(Nat)
      /\ last - first = pushed + 1 - s
      /\ \A i \in 1..last - first : old[first + i] = s + i - 1
      /\ DOMAIN old = 1..Len(old) /\ \A i \in 1..Len(old) : old[i] \in Nat
  BY DEF Whole
<1>n. first \in Nat /\ last \in Nat /\ Len(old) \in Nat /\ first <= last /\ last + k <= Len(old)
  BY DEF Whole
<1>a. s \in Nat /\ pushed \in Nat
  <2>1. stream \in Seq(Nat) /\ yielded + 1 \in 1..(Len(stream) + 1) /\ pushed \in Nat BY DEF FrType
  <2> QED BY <2>1, StartSteps
<1>1. d.buf = b /\ d.start = first /\ d.end = last + k /\ d = [buf |-> b, start |-> first, end |-> last + k]
  <2>1. d = [r EXCEPT !.buf = b, !.end = r.end + k] BY DEF Filled
  <2> HIDE DEF b, d
  <2> QED BY <1>0, <2>1
<1>b. \A i \in 1..Len(old) : b[i] = IF i \in last + 1..last + k THEN pushed + i - last ELSE old[i]
  BY <1>0
<1> HIDE DEF b, d, s, old, first, last
<1>2. ASSUME NEW i \in 1..Len(old)
      PROVE  /\ b[i] \in Nat
             /\ i <= last => b[i] = old[i]
             /\ i > last /\ i <= last + k => b[i] = pushed + i - last
  <2>0. old[i] \in Nat /\ i \in Nat BY <1>0
  <2>1. CASE i \in last + 1..last + k
    <3>1. b[i] = pushed + i - last /\ i > last BY <1>b, <1>n, <2>1
    <3> QED BY <1>a, <1>n, <2>0, <3>1
  <2>2. CASE i \notin last + 1..last + k
    <3>1. b[i] = old[i] /\ ~(i > last /\ i <= last + k) BY <1>b, <1>n, <2>0, <2>2
    <3> QED BY <2>0, <3>1
  <2> QED BY <2>1, <2>2
<1>3. b \in Seq(Nat) /\ Len(b) = Len(old)
  <2>1. b = [i \in 1..Len(old) |-> b[i]] BY <1>0 DEF b
  <2>2. b \in [1..Len(old) -> Nat] BY <1>2, <2>1
  <2> QED BY <1>n, <2>2
<1>4. ASSUME NEW i \in 1..(last + k - first) PROVE b[first + i] = s + i - 1
  <2>1. first + i \in 1..Len(old) BY <1>n
  <2>2. CASE first + i <= last
    <3>1. i \in 1..(last - first) BY <1>n, <2>2
    <3> QED BY <1>0, <1>2, <2>1, <2>2, <3>1
  <2>3. CASE first + i > last
    <3>1. first + i <= last + k BY <1>n
    <3>2. b[first + i] = pushed + (first + i) - last BY <1>2, <2>1, <2>3, <3>1
    <3>3. last - first = pushed + 1 - s BY <1>0
    <3> QED BY <1>n, <1>a, <3>2, <3>3
  <2>4. first + i <= last \/ first + i > last BY <1>n
  <2> QED BY <2>2, <2>3, <2>4
<1>5. /\ d.end - d.start = (pushed + k) + 1 - s
      /\ d.start <= d.end /\ d.end <= Len(d.buf) /\ d \in [buf : Seq(Nat), start : Nat, end : Nat]
  <2>1. (last + k) - first = (pushed + k) + 1 - s
    <3>1. last - first = pushed + 1 - s BY <1>0
    <3> QED BY <1>n, <1>a, <3>1
  <2>2. first <= last + k /\ last + k \in Nat BY <1>n
  <2> QED BY <1>1, <1>3, <1>n, <2>1, <2>2
<1>6. ASSUME NEW i \in 1..(d.end - d.start) PROVE d.buf[d.start + i] = s + i - 1
  <2>1. d.end - d.start = (last + k) - first BY <1>1
  <2>2. i \in 1..(last + k - first) BY <1>n, <2>1
  <2>3. b[first + i] = s + i - 1 BY <1>4, <2>2
  <2> QED BY <1>1, <2>3
<1>7. Whole(d, pushed + k, yielded) BY <1>5, <1>6 DEF Whole, s
<1> QED BY <1>7 DEF d

(* Where the loop may stand: at the next frame, none of those before it was wrong.  *)
Standing(d, y, s) ==
  /\ s.frames \in 0..(Len(stream) - y) /\ s.start \in Nat /\ s.start <= d.end /\ s.wrong = FALSE
  /\ s.throws \in BOOLEAN
  /\ s.start = d.start + StartIn(stream, y + s.frames + 1) - StartIn(stream, y + 1)
  /\ s.throws => /\ y + s.frames < Len(stream)
                 /\ stream[y + s.frames + 1] + Header > MaxFrameBytes

Rounds == [start : Nat, frames : Nat, throws : BOOLEAN, wrong : BOOLEAN]

(* The loop has nothing to do: it has thrown, or the next frame is not all there.  *)
Finished(d, y, s) ==
  \/ s.throws
  \/ y + s.frames = Len(stream)
  \/ y + s.frames < Len(stream) /\ d.end - s.start < Header
  \/ /\ y + s.frames < Len(stream) /\ d.end - s.start < Header + stream[y + s.frames + 1]
     /\ Header + stream[y + s.frames + 1] <= MaxFrameBytes

LEMMA RoundKeeps ==
  ASSUME stream \in Seq(Nat), yielded \in 0..Len(stream), NEW p \in Nat,
         p + 1 <= StartIn(stream, Len(stream) + 1), NEW d, Whole(d, p, yielded),
         NEW s \in Rounds, Standing(d, yielded, s)
  PROVE  /\ DecodeNext(d, s) \in Rounds /\ Standing(d, yielded, DecodeNext(d, s))
         /\ Finished(d, yielded, s) => DecodeNext(d, s) = s
         /\ ~Finished(d, yielded, s) => DecodeNext(d, s).throws \/ DecodeNext(d, s).start > s.start
<1> DEFINE L == Len(stream)
           fr == s.frames
           n == yielded + s.frames + 1
           at == StartIn(stream, n)
           first == StartIn(stream, yielded + 1)
           left == d.end - s.start
           length == DeclaredAt(d, s.start)
           next == DecodeNext(d, s)
           right == n \in DOMAIN stream /\ length = stream[n]
                    /\ \A i \in 1..Header + length : d.buf[s.start + i] = StartOf(n) + i - 1
<1>0. /\ d \in [buf : Seq(Nat), start : Nat, end : Nat] /\ d.start <= d.end
      /\ d.end - d.start = p + 1 - first
      /\ \A i \in 1..d.end - d.start : d.buf[d.start + i] = first + i - 1
  BY DEF Whole
<1>1. /\ s.frames \in 0..(L - yielded) /\ s.start \in Nat /\ s.start <= d.end /\ s.wrong = FALSE
      /\ s.throws \in BOOLEAN /\ s.start = d.start + at - first
  BY DEF Standing
<1>c. fr \in Nat /\ yielded \in Nat /\ L \in Nat /\ fr <= L - yielded /\ n = yielded + fr + 1
  <2>1. L \in Nat OBVIOUS
  <2> HIDE DEF L
  <2>2. fr \in 0..(L - yielded) /\ yielded \in 0..L BY <1>1 DEF L
  <2> HIDE DEF fr
  <2>3. fr \in Nat /\ yielded \in Nat /\ L \in Nat /\ fr <= L - yielded BY <2>1, <2>2
  <2> QED BY <2>3 DEF fr
<1>2. /\ L \in Nat /\ Header \in Nat \ {0} /\ MaxFrameBytes \in Nat /\ n \in 1..(L + 1)
      /\ yielded + 1 \in 1..(L + 1) /\ yielded + 1 <= n /\ d.start \in Nat /\ d.end \in Nat
      /\ \A g \in 1..L : stream[g] \in Nat
  <2>1. Header \in Nat \ {0} /\ MaxFrameBytes \in Nat BY FramingConstants
  <2>2. d.start \in Nat /\ d.end \in Nat BY <1>0
  <2>3. \A g \in 1..L : stream[g] \in Nat OBVIOUS
  <2>4. n \in 1..(L + 1) /\ yielded + 1 \in 1..(L + 1) /\ yielded + 1 <= n
    <3> HIDE DEF L, fr, n
    <3> QED BY <1>c
  <2> QED BY <1>c, <2>1, <2>2, <2>3, <2>4
<1>3. at \in Nat /\ first \in Nat /\ StartIn(stream, L + 1) \in Nat
  <2>1. L + 1 \in 1..(L + 1) BY <1>2
  <2> QED BY <1>2, <2>1, StartSteps
<1>4. first <= at
  <2>1. CASE n = yielded + 1 BY <1>3, <2>1
  <2>2. CASE n # yielded + 1
    <3>1. yielded + 1 < n BY <1>2, <2>2
    <3>2. first + Header <= at BY <1>2, <3>1, StartRises
    <3> QED BY <1>2, <1>3, <3>2
  <2> QED BY <2>1, <2>2
<1> DEFINE st == s.start
           ds == d.start
           de == d.end
<1>d. /\ st \in Nat /\ ds \in Nat /\ de \in Nat /\ at \in Nat /\ first \in Nat /\ ds <= de /\ st <= de
      /\ de - ds = p + 1 - first /\ st = ds + at - first /\ first <= at /\ left = de - st
  BY <1>0, <1>1, <1>2, <1>3, <1>4
<1> HIDE DEF st, ds, de, at, first, left
<1>5. left \in Nat /\ left = p + 1 - at BY <1>d
<1>6. ASSUME NEW i \in 1..left PROVE d.buf[s.start + i] = at + i - 1
  <2>1. (at - first) + i \in 1..(de - ds) BY <1>d
  <2>2. ds + ((at - first) + i) = st + i BY <1>d
  <2>3. d.buf[ds + ((at - first) + i)] = first + ((at - first) + i) - 1
    BY <1>0, <2>1 DEF de, ds, first
  <2>4. first + ((at - first) + i) - 1 = at + i - 1 BY <1>d
  <2>5. d.buf[st + i] = at + i - 1 BY <2>2, <2>3, <2>4
  <2> QED BY <2>5 DEF st
<1>7. n = L + 1 => left = 0
  <2> SUFFICES ASSUME n = L + 1 PROVE left = 0 OBVIOUS
  <2>1. p + 1 <= at BY DEF at
  <2> QED BY <1>3, <1>5, <2>1
<1>8. ASSUME left >= Header PROVE n \in 1..L /\ length = stream[n]
  <2>1. n \in 1..L BY <1>2, <1>5, <1>7, <1>8
  <2> DEFINE f == {g \in DOMAIN stream : \A i \in 0..Header - 1 : d.buf[s.start + 1 + i] = StartOf(g) + i}
  <2>2. \A i \in 0..Header - 1 : d.buf[s.start + 1 + i] = at + i
    <3> TAKE i \in 0..Header - 1
    <3>1. i + 1 \in 1..left /\ st + (i + 1) = st + 1 + i /\ at + (i + 1) - 1 = at + i
      BY <1>d, <1>2, <1>5, <1>8
    <3>2. d.buf[st + (i + 1)] = at + (i + 1) - 1 BY <1>6, <3>1 DEF st
    <3> QED BY <3>1, <3>2 DEF st
  <2>3. DOMAIN stream = 1..L OBVIOUS
  <2>4. \A g \in 1..L : StartOf(g) = StartIn(stream, g) /\ StartIn(stream, g) \in Nat
    <3>1. \A g \in 1..L : g \in 1..(L + 1) BY <1>2
    <3> QED BY <3>1, StartIsIn, StartSteps
  <2>5. n \in f BY <2>1, <2>2, <2>3, <2>4 DEF at
  <2>6. ASSUME NEW g \in f PROVE g = n
    <3>0. g \in 1..L /\ 0 \in 0..Header - 1 BY <1>2, <2>3
    <3>1. d.buf[s.start + 1 + 0] = StartOf(g) + 0 /\ d.buf[s.start + 1 + 0] = at + 0 BY <2>2, <3>0
    <3>2. StartIn(stream, g) = StartIn(stream, n) BY <1>3, <2>1, <2>4, <3>0, <3>1 DEF at
    <3>3. CASE g < n
      <4>1. g \in 1..(L + 1) /\ n \in 1..(L + 1) BY <1>2, <3>0
      <4>2. StartIn(stream, g) + Header <= StartIn(stream, n) BY <3>3, <4>1, StartRises
      <4> QED BY <1>2, <2>1, <2>4, <3>0, <3>2, <4>2
    <3>4. CASE n < g
      <4>1. g \in 1..(L + 1) /\ n \in 1..(L + 1) BY <1>2, <3>0
      <4>2. StartIn(stream, n) + Header <= StartIn(stream, g) BY <3>4, <4>1, StartRises
      <4> QED BY <1>2, <2>1, <2>4, <3>0, <3>2, <4>2
    <3> QED BY <2>1, <3>0, <3>3, <3>4
  <2>7. length = IF f = {} THEN -1 ELSE stream[CHOOSE g \in f : TRUE] BY DEF DeclaredAt
  <2> HIDE DEF f, length
  <2>8. (CHOOSE g \in f : TRUE) = n BY <2>5, <2>6
  <2> QED BY <2>1, <2>5, <2>7, <2>8
<1>9. next = IF s.throws \/ d.end - s.start < Header THEN s
             ELSE IF Header + length > MaxFrameBytes THEN [s EXCEPT !.throws = TRUE]
             ELSE IF d.end - s.start < Header + length THEN s
             ELSE [s EXCEPT !.start = @ + Header + length, !.frames = @ + 1, !.wrong = @ \/ ~right]
  BY DEF DecodeNext
<1>a. d.end - s.start = left BY DEF left
<1> HIDE DEF next, right, length
<1>e. /\ yielded + s.frames = L <=> n = L + 1
      /\ yielded + s.frames < L <=> n \in 1..L
  <2>1. yielded + fr = L <=> n = L + 1
    <3> HIDE DEF L, fr, n
    <3> QED BY <1>c
  <2>2. yielded + fr < L <=> n \in 1..L
    <3> HIDE DEF L, fr, n
    <3> QED BY <1>c
  <2> QED BY <2>1, <2>2
<1>b. \/ s.throws
      \/ n = L + 1
      \/ n \in 1..L /\ left < Header
      \/ n \in 1..L /\ left < Header + stream[n] /\ Header + stream[n] <= MaxFrameBytes
      <=> Finished(d, yielded, s)
  BY <1>a, <1>e DEF Finished
<1> HIDE DEF L, fr, n
<1>10. CASE s.throws \/ left < Header
  <2>1. next = s BY <1>9, <1>10, <1>a
  <2>2. Finished(d, yielded, s)
    <3>1. n = L + 1 \/ n \in 1..L BY <1>2
    <3> QED BY <1>10, <1>b, <3>1
  <2> QED BY <2>1, <2>2 DEF next
<1>11. CASE ~s.throws /\ ~(left < Header) /\ Header + length > MaxFrameBytes
  <2>1. next = [s EXCEPT !.throws = TRUE] BY <1>9, <1>11, <1>a
  <2>2. n \in 1..L /\ length = stream[n] BY <1>2, <1>5, <1>8, <1>11
  <2>3. next \in Rounds /\ next.throws /\ next.frames = s.frames /\ next.start = s.start /\ next.wrong = s.wrong
    BY <2>1 DEF Rounds
  <2>4. yielded + s.frames < L /\ stream[n] + Header > MaxFrameBytes
    <3>1. stream[n] \in Nat BY <1>2, <2>2
    <3> QED BY <1>2, <1>11, <1>e, <2>2, <3>1
  <2>5. Standing(d, yielded, next) BY <1>1, <2>3, <2>4 DEF Standing, at, first, n, L
  <2>6. ~Finished(d, yielded, s)
    <3>1. n # L + 1 BY <1>2, <2>2
    <3>2. ~(Header + stream[n] <= MaxFrameBytes)
      <4>1. stream[n] \in Nat BY <1>2, <2>2
      <4> QED BY <1>2, <1>11, <2>2, <4>1
    <3> QED BY <1>11, <1>b, <3>1, <3>2
  <2> QED BY <2>3, <2>5, <2>6 DEF next
<1>12. CASE ~s.throws /\ ~(left < Header) /\ ~(Header + length > MaxFrameBytes) /\ left < Header + length
  <2>1. next = s BY <1>9, <1>12, <1>a
  <2>2. n \in 1..L /\ length = stream[n] BY <1>2, <1>5, <1>8, <1>12
  <2>3. Finished(d, yielded, s)
    <3>1. stream[n] \in Nat BY <1>2, <2>2
    <3>2. Header + stream[n] <= MaxFrameBytes BY <1>2, <1>12, <2>2, <3>1
    <3> QED BY <1>12, <1>b, <2>2, <3>2
  <2> QED BY <2>1, <2>3 DEF next
<1>13. CASE ~s.throws /\ ~(left < Header) /\ ~(Header + length > MaxFrameBytes) /\ ~(left < Header + length)
  <2>1. next = [s EXCEPT !.start = @ + Header + length, !.frames = @ + 1, !.wrong = @ \/ ~right]
    BY <1>9, <1>13, <1>a
  <2>a. n \in 1..L /\ length = stream[n] BY <1>2, <1>5, <1>8, <1>13
  <2>2. n \in 1..L /\ length = stream[n] /\ length \in Nat BY <1>2, <2>a
  <2>3. right
    <3>1. StartOf(n) = at BY StartIsIn DEF at
    <3>2. \A i \in 1..Header + length : i \in 1..left BY <1>2, <1>5, <1>13, <2>2, SMTT(60)
    <3>3. DOMAIN stream = 1..L BY DEF L
    <3> QED BY <1>6, <2>2, <3>1, <3>2, <3>3 DEF right
  <2>b. /\ next = [start |-> st + Header + length, frames |-> fr + 1, throws |-> s.throws, wrong |-> FALSE]
    <3>1. s \in [start : Nat, frames : Nat, throws : BOOLEAN, wrong : BOOLEAN] BY DEF Rounds
    <3>2. next = [s EXCEPT !.start = s.start + Header + length, !.frames = s.frames + 1, !.wrong = FALSE]
      BY <1>1, <2>1, <2>3
    <3>3. next = [start |-> s.start + Header + length, frames |-> s.frames + 1, throws |-> s.throws, wrong |-> FALSE]
      BY <3>1, <3>2
    <3> QED BY <3>3 DEF st, fr
  <2>c. st + Header + length \in Nat /\ fr + 1 \in Nat /\ st + Header + length > st /\ st + Header + length <= de
        /\ fr + 1 <= L - yielded
    <3>1. /\ Header \in Nat \ {0} /\ length \in Nat /\ st \in Nat /\ de \in Nat /\ left = de - st
          /\ fr \in Nat /\ L \in Nat /\ yielded \in Nat /\ n = yielded + fr + 1 /\ n \in 1..L
          /\ ~(left < Header + length)
      BY <1>2, <1>c, <1>d, <1>13, <2>2 DEF n, fr
    <3> QED BY <3>1
  <2>4. /\ next \in Rounds /\ next.throws = s.throws /\ next.frames = fr + 1
        /\ next.start = st + Header + length /\ next.wrong = FALSE
    BY <1>1, <2>b, <2>c DEF Rounds
  <2>5. StartIn(stream, n + 1) = at + Header + length BY <2>2, StartSteps DEF at, L
  <2>6. next.start = d.start + StartIn(stream, yielded + next.frames + 1) - first
    <3>1. yielded + (fr + 1) + 1 = n + 1 BY <1>c DEF n
    <3>2. StartIn(stream, yielded + next.frames + 1) = at + Header + length BY <2>4, <2>5, <3>1
    <3>3. st + Header + length = ds + (at + Header + length) - first BY <1>2, <1>d, <2>2
    <3> QED BY <2>4, <3>2, <3>3 DEF ds
  <2>7. next.start <= d.end /\ next.start \in Nat /\ next.start > s.start BY <2>4, <2>c DEF st, de
  <2>8. next.frames \in 0..(L - yielded) BY <1>c, <2>4, <2>c
  <2>9. Standing(d, yielded, next) BY <1>13, <2>4, <2>6, <2>7, <2>8 DEF Standing, first, L
  <2>10. ~Finished(d, yielded, s)
    <3>1. n # L + 1 BY <1>2, <2>2
    <3> QED BY <1>13, <1>b, <2>2, <3>1
  <2> QED BY <2>4, <2>7, <2>9, <2>10 DEF next
<1> QED BY <1>10, <1>11, <1>12, <1>13

(* The loop takes every frame that is there, or throws at one.             *)
LEMMA LoopKeeps ==
  ASSUME stream \in Seq(Nat), yielded \in 0..Len(stream), NEW p \in Nat,
         p + 1 <= StartIn(stream, Len(stream) + 1), NEW d, Whole(d, p, yielded)
  PROVE  /\ Decoded(d) \in Rounds /\ Standing(d, yielded, Decoded(d))
         /\ Finished(d, yielded, Decoded(d))
<1> DEFINE n == d.end
           V == {s \in Rounds : Standing(d, yielded, s)}
           b == [start |-> d.start, frames |-> 0, throws |-> FALSE, wrong |-> FALSE]
           G == [q \in (1..n) \X V |-> DecodeNext(d, q[2])]
           Step(f) == [i \in 0..d.end |-> IF i = 0 THEN [start |-> d.start, frames |-> 0, throws |-> FALSE, wrong |-> FALSE]
                                          ELSE DecodeNext(d, f[i - 1])]
           after == CHOOSE f : f = Step(f)
<1>0. d \in [buf : Seq(Nat), start : Nat, end : Nat] /\ d.start <= d.end BY DEF Whole
<1>1. n \in Nat BY <1>0
<1>2. b \in V
  <2>1. b \in Rounds BY <1>0 DEF Rounds
  <2>2. b.frames = 0 /\ b.start = d.start /\ b.throws = FALSE /\ b.wrong = FALSE OBVIOUS
  <2>3. Len(stream) \in Nat /\ yielded \in Nat /\ yielded + 1 \in 1..(Len(stream) + 1) OBVIOUS
  <2>4. StartIn(stream, yielded + 1) \in Nat BY <2>3, StartSteps
  <2>5. 0 \in 0..(Len(stream) - yielded) /\ yielded + 0 + 1 = yielded + 1 OBVIOUS
  <2>6. d.start = d.start + StartIn(stream, yielded + 1) - StartIn(stream, yielded + 1) BY <1>0, <2>4
  <2> HIDE DEF b
  <2>7. Standing(d, yielded, b) BY <1>0, <2>2, <2>5, <2>6 DEF Standing
  <2> QED BY <2>1, <2>7
<1>3. ASSUME NEW s \in V PROVE /\ DecodeNext(d, s) \in V
                               /\ Finished(d, yielded, s) => DecodeNext(d, s) = s
                               /\ ~Finished(d, yielded, s) => DecodeNext(d, s).throws \/ DecodeNext(d, s).start > s.start
  BY RoundKeeps
<1> HIDE DEF b, V
<1>4. G \in [(1..n) \X V -> V] BY <1>3
<1>5. PICK f : Recursion(f, n, V, b, G)
  <2> HIDE DEF G, n
  <2> QED BY <1>1, <1>2, <1>4, StepwiseExists
<1>6. f \in [0..n -> V] /\ f[0] = b /\ \A i \in 1..n : f[i] = G[<< i, f[i - 1] >>]
  <2> HIDE DEF G, n
  <2> QED BY <1>5 DEF Recursion
<1>7. ASSUME NEW i \in 1..n PROVE f[i] = DecodeNext(d, f[i - 1])
  <2>1. f[i - 1] \in V BY <1>1, <1>6, SMTT(60)
  <2>2. << i, f[i - 1] >> \in (1..n) \X V BY <2>1
  <2> QED BY <1>6, <2>2
<1> HIDE DEF G
<1>8. f = Step(f)
  <2>1. \A i \in 0..n : i = 0 \/ i \in 1..n BY <1>1
  <2> QED BY <1>6, <1>7, <2>1 DEF b
<1>9. after = Step(after)
  <2> HIDE DEF Step
  <2> QED BY <1>8
<1>10. Decoded(d) = after[d.end] BY DEF Decoded
<1> HIDE DEF after
<1>11. after[0] = b /\ \A i \in 1..n : after[i] = DecodeNext(d, after[i - 1])
  <2>1. 0 \in 0..n /\ \A i \in 1..n : i \in 0..n /\ i # 0 BY <1>1
  <2> QED BY <1>9, <2>1 DEF b
<1> HIDE DEF n
<1>12. \A i \in 0..n : after[i] \in V
  <2> DEFINE T == {i \in 0..n : after[i] \in V}
  <2>1. 0 \in T BY <1>1, <1>2, <1>11
  <2>2. ASSUME NEW i \in 1..n, i - 1 \in T PROVE i \in T
    <3>1. i \in 0..n BY <1>1
    <3> QED BY <1>3, <1>11, <2>2, <3>1
  <2>3. \A i \in 0..n : i \in T
    <3> HIDE DEF T
    <3> QED BY <1>1, <2>1, <2>2, UpTo
  <2> QED BY <2>3
<1>13. \A i \in 0..n : after[i].start \in Nat /\ after[i].throws \in BOOLEAN /\ after[i].start <= d.end
  BY <1>12 DEF V, Rounds, Standing
<1>14. \A i \in 0..n : Finished(d, yielded, after[i]) \/ after[i].start >= d.start + i
  <2> DEFINE T == {i \in 0..n : Finished(d, yielded, after[i]) \/ after[i].start >= d.start + i}
  <2>0. d.start \in Nat BY <1>0
  <2>1. 0 \in T
    <3>1. 0 \in 0..n /\ after[0].start = d.start BY <1>1, <1>11 DEF b
    <3> QED BY <2>0, <3>1
  <2>2. ASSUME NEW i \in 1..n, i - 1 \in T PROVE i \in T
    <3>1. i \in 0..n /\ i - 1 \in 0..n BY <1>1
    <3>2. after[i] = DecodeNext(d, after[i - 1]) /\ after[i - 1] \in V BY <1>11, <1>12, <3>1
    <3>3. CASE Finished(d, yielded, after[i - 1])
      <4>1. after[i] = after[i - 1] BY <1>3, <3>2, <3>3
      <4> QED BY <3>1, <3>3, <4>1
    <3>4. CASE ~Finished(d, yielded, after[i - 1])
      <4>1. after[i].throws \/ after[i].start > after[i - 1].start BY <1>3, <3>2, <3>4
      <4>2. after[i - 1].start >= d.start + (i - 1) BY <2>2, <3>4
      <4>3. CASE after[i].throws BY <3>1, <4>3 DEF Finished
      <4>4. CASE after[i].start > after[i - 1].start
        <5>1. after[i].start \in Nat /\ after[i - 1].start \in Nat BY <1>13, <3>1
        <5>2. after[i].start >= d.start + i BY <2>0, <4>2, <4>4, <5>1, <1>1, SMTT(60)
        <5> QED BY <3>1, <5>2
      <4> QED BY <4>1, <4>3, <4>4
    <3> QED BY <3>3, <3>4
  <2>3. \A i \in 0..n : i \in T
    <3> HIDE DEF T
    <3> QED BY <1>1, <2>1, <2>2, UpTo
  <2> QED BY <2>3
<1> DEFINE s == after[n]
<1>15. n \in 0..n /\ Decoded(d) = s BY <1>1, <1>10 DEF n
<1>16. s \in Rounds /\ Standing(d, yielded, s) BY <1>12, <1>15 DEF V
<1>17. Finished(d, yielded, s)
  <2> SUFFICES ASSUME ~Finished(d, yielded, s) PROVE FALSE OBVIOUS
  <2>1. s.start >= d.start + n BY <1>14, <1>15
  <2>2. s.start \in Nat /\ s.start <= d.end /\ s.frames \in 0..(Len(stream) - yielded) BY <1>16 DEF Standing
  <2> HIDE DEF s
  <2>3. d.end - s.start = 0 BY <1>0, <1>1, <2>1, <2>2, SMTT(60) DEF n
  <2>4. Header \in Nat \ {0} BY FramingConstants
  <2>5. yielded + s.frames = Len(stream) \/ yielded + s.frames < Len(stream)
    <3>1. Len(stream) \in Nat OBVIOUS
    <3> QED BY <2>2, <3>1
  <2> QED BY <2>3, <2>4, <2>5 DEF Finished
<1> HIDE DEF s
<1> QED BY <1>15, <1>16, <1>17

(* A piece arrives: room is made, it is filled, and the loop runs.         *)
LEMMA PushPieceKeeps == ASSUME FrInv, NEW k \in Pieces, PushPiece(k) PROVE FrInv'
<1> DEFINE room == Reserved(decoder, k)
           filled == Filled(room, k)
           loop == Decoded(filled)
           read == [filled EXCEPT !.start = loop.start]
           y == yielded + loop.frames
           p == pushed + k
           L == Len(stream)
<1>0. /\ FrType /\ Whole(decoder, pushed, yielded) /\ ~mistaken /\ k \in Nat
      /\ stream \in Seq(Nat) /\ yielded \in 0..L /\ L \in Nat /\ pushed \in Nat
      /\ Header \in Nat \ {0} /\ MaxFrameBytes \in Nat
  BY FramingConstants DEF FrInv, FrType
<1>1. /\ p <= StartIn(stream, L + 1) - 1
      /\ decoder' = (IF ~loop.throws /\ loop.start = filled.end THEN [read EXCEPT !.start = 0, !.end = 0] ELSE read)
      /\ yielded' = y /\ refused' = loop.throws /\ mistaken' = (mistaken \/ loop.wrong)
      /\ pushed' = p /\ stream' = stream
  BY StartIsIn DEF PushPiece
<1>2. p \in Nat /\ p + 1 <= StartIn(stream, L + 1)
  <2>1. L + 1 \in 1..(L + 1) BY <1>0
  <2>2. StartIn(stream, L + 1) \in Nat BY <1>0, <2>1, StartSteps
  <2> QED BY <1>0, <1>1, <2>2
<1>3. Whole(room, pushed, yielded) /\ room.end + k <= Len(room.buf) BY <1>0, ReservedKeeps
<1> HIDE DEF room
<1>4. Whole(filled, p, yielded) BY <1>0, <1>3, FilledKeeps
<1> HIDE DEF filled, p
<1>5. loop \in Rounds /\ Standing(filled, yielded, loop) /\ Finished(filled, yielded, loop)
  BY <1>0, <1>2, <1>4, LoopKeeps
<1> HIDE DEF loop
<1>6. /\ filled \in [buf : Seq(Nat), start : Nat, end : Nat]
      /\ filled.start <= filled.end /\ filled.end <= Len(filled.buf)
      /\ filled.end - filled.start = p + 1 - StartIn(stream, yielded + 1)
      /\ \A i \in 1..filled.end - filled.start : filled.buf[filled.start + i] = StartIn(stream, yielded + 1) + i - 1
  BY <1>4 DEF Whole
<1>7. /\ loop.frames \in 0..(L - yielded) /\ loop.start \in Nat /\ loop.start <= filled.end /\ loop.wrong = FALSE
      /\ loop.throws \in BOOLEAN
      /\ loop.start = filled.start + StartIn(stream, yielded + loop.frames + 1) - StartIn(stream, yielded + 1)
      /\ loop.throws => yielded + loop.frames < L /\ stream[yielded + loop.frames + 1] + Header > MaxFrameBytes
  BY <1>5 DEF Standing
<1>8. y \in 0..L /\ y + 1 \in 1..(L + 1) /\ yielded + 1 \in 1..(L + 1) /\ yielded + 1 <= y + 1
  <2> DEFINE fr == loop.frames
  <2>1. fr \in 0..(L - yielded) BY <1>7
  <2> HIDE DEF fr, L
  <2>2. yielded + fr \in 0..L BY <1>0, <2>1
  <2> QED BY <1>0, <2>1, <2>2 DEF fr
<1> DEFINE first == StartIn(stream, yielded + 1)
           at == StartIn(stream, y + 1)
           st == loop.start
           ds == filled.start
           de == filled.end
<1>9. first \in Nat /\ at \in Nat BY <1>0, <1>8, StartSteps
<1>10. first <= at
  <2>1. CASE y + 1 = yielded + 1 BY <1>9, <2>1
  <2>2. CASE y + 1 # yielded + 1
    <3>1. yielded + 1 < y + 1 BY <1>8, <1>0, <2>2
    <3>2. first + Header <= at BY <1>0, <1>8, <3>1, StartRises
    <3> QED BY <1>0, <1>9, <3>2
  <2> QED BY <2>1, <2>2
<1>11. /\ st \in Nat /\ ds \in Nat /\ de \in Nat /\ first \in Nat /\ at \in Nat /\ p \in Nat /\ ds <= de /\ st <= de
       /\ de - ds = p + 1 - first /\ st = ds + at - first /\ first <= at
  BY <1>2, <1>6, <1>7, <1>9, <1>10
<1> HIDE DEF y, first, at, st, ds, de
<1>12. de - st = p + 1 - at BY <1>11
<1>13. ASSUME NEW i \in 1..(de - st) PROVE filled.buf[st + i] = at + i - 1
  <2>1. (at - first) + i \in 1..(de - ds) BY <1>11
  <2>2. ds + ((at - first) + i) = st + i BY <1>11
  <2>3. filled.buf[ds + ((at - first) + i)] = first + ((at - first) + i) - 1 BY <1>6, <2>1 DEF ds, de, first
  <2>4. first + ((at - first) + i) - 1 = at + i - 1 BY <1>11
  <2> QED BY <2>2, <2>3, <2>4
<1>14. Whole(decoder', p, y)
  <2>1. CASE loop.throws \/ st # de
    <3>1. decoder' = read BY <1>1, <2>1 DEF st, de
    <3>2. read = [buf |-> filled.buf, start |-> st, end |-> de] BY <1>6 DEF st, de
    <3>3. /\ decoder' \in [buf : Seq(Nat), start : Nat, end : Nat] /\ decoder'.start = st /\ decoder'.end = de
          /\ decoder'.buf = filled.buf
      BY <1>6, <1>11, <3>1, <3>2
    <3>4. de <= Len(filled.buf) BY <1>6 DEF de
    <3> QED BY <1>11, <1>12, <1>13, <3>3, <3>4 DEF Whole, at
  <2>2. CASE ~loop.throws /\ st = de
    <3>1. decoder' = [read EXCEPT !.start = 0, !.end = 0] BY <1>1, <2>2 DEF st, de
    <3>2. decoder' = [buf |-> filled.buf, start |-> 0, end |-> 0] BY <1>6, <3>1
    <3>3. /\ decoder' \in [buf : Seq(Nat), start : Nat, end : Nat] /\ decoder'.start = 0 /\ decoder'.end = 0
          /\ decoder'.buf = filled.buf /\ Len(filled.buf) \in Nat
      BY <1>6, <3>2
    <3>4. 0 = p + 1 - at /\ decoder'.end - decoder'.start = 0 /\ 1..(decoder'.end - decoder'.start) = {}
      BY <1>11, <1>12, <2>2, <3>3
    <3> QED BY <3>3, <3>4 DEF Whole, at
  <2> QED BY <2>1, <2>2
<1>15. ASSUME ~loop.throws, y < L PROVE p + 1 < StartIn(stream, y + 2)
  <2>1. y + 1 \in 1..L /\ y \in Nat /\ (y + 1) + 1 = y + 2 BY <1>8, <1>0, <1>15
  <2>2. StartIn(stream, y + 2) = at + Header + stream[y + 1] /\ stream[y + 1] \in Nat
    BY <1>0, <2>1, StartSteps DEF at
  <2>3. de - st < Header \/ de - st < Header + stream[y + 1]
    <3>1. y # L BY <1>0, <2>1, <1>15
    <3> QED BY <1>5, <1>15, <3>1 DEF Finished, y, st, de, L
  <2> QED BY <1>0, <1>11, <1>12, <2>2, <2>3, SMTT(60)
<1>a. \A f : StartIn(stream, f)' = StartIn(stream, f)
  <2>1. \A f : StartIn(stream, f)' = StartIn(stream', f) BY DEF StartIn
  <2> QED BY <1>1, <2>1
<1>16. Whole(decoder, pushed, yielded)' BY <1>1, <1>14, <1>a DEF Whole
<1>17. NoWholeFrame(pushed, yielded)' \/ refused' BY <1>1, <1>15, <1>a DEF NoWholeFrame, L
<1>18. refused' => yielded' < Len(stream') /\ stream'[yielded' + 1] + Header > MaxFrameBytes
  BY <1>1, <1>7 DEF y, L
<1>19. FrType'
  <2>1. Len(stream)' = L /\ yielded' \in 0..L BY <1>1, <1>8 DEF L
  <2>2. pushed' \in Nat /\ pushed' + 1 <= StartIn(stream, Len(stream) + 1)' BY <1>1, <1>2, <1>a DEF L
  <2> QED BY <1>0, <1>1, <1>18, <2>1, <2>2 DEF FrType, L
<1>20. ~mistaken' BY <1>0, <1>1, <1>7
<1> QED BY <1>16, <1>17, <1>18, <1>19, <1>20 DEF FrInv

LEMMA FrStep == ASSUME FrInv, FrNext PROVE FrInv'
BY PushPieceKeeps, NewStreamKeeps DEF FrNext

(* While other parts move.                                                 *)
LEMMA FrStands == ASSUME FrInv, UNCHANGED frVars PROVE FrInv'
<1>0. UNCHANGED << stream, pushed, decoder, yielded, refused, mistaken >> BY DEF frVars
<1>1. \A f : StartIn(stream, f)' = StartIn(stream, f)
  <2>1. \A f : StartIn(stream, f)' = StartIn(stream', f) BY DEF StartIn
  <2> QED BY <1>0, <2>1
<1>2. FrType' BY <1>0, <1>1 DEF FrInv, FrType
<1>3. Whole(decoder, pushed, yielded)' BY <1>0, <1>1 DEF FrInv, Whole
<1>4. NoWholeFrame(pushed, yielded)' <=> NoWholeFrame(pushed, yielded) BY <1>0, <1>1 DEF NoWholeFrame
<1> QED BY <1>0, <1>2, <1>3, <1>4 DEF FrInv

-----------------------------------------------------------------------------
(* Of every channel: datagrams come out in order and once, and each one    *)
(* sent is queued exactly when that is its fate; frames of a data channel  *)
(* keep their order and never wait for an event that will not come; the    *)
(* bus knows who has not answered; of a stream cut anywhere the decoder    *)
(* keeps the unfinished rest and has passed over the frames before it      *)
(* (powerDatagramChannel.js, powerSequencer.js, powerHeartbeat.js,         *)
(* powerRTCChannel.js, powerBroadcastBus.js, powerMessageCodec.js).        *)
THEOREM ChannelsAlwaysDeliver == Spec => []ChannelsDeliver
<1> DEFINE I == /\ part = "datagrams" => DgInv
                /\ part = "rtc" => RtcInv
                /\ part = "broadcast" => BcInv
                /\ part = "framing" => FrInv
<1>1. Init => I BY DgStarts, RtcStarts, BcStarts, FrStarts DEF Init
<1>2. I /\ [Next]_realtimeVars => I'
  <2> SUFFICES ASSUME I, [Next]_realtimeVars PROVE I'
    OBVIOUS
  <2>1. CASE Next
    <3>1. /\ part' = part
          /\ part = "datagrams" => DgNext
          /\ part = "rtc" => RtcNext
          /\ part = "broadcast" => BcNext
          /\ part = "framing" => FrNext
      BY <2>1 DEF Next, ClientNext, ChannelNext
    <3> QED BY <3>1, DgStep, RtcStep, BcStep, FrStep
  <2>2. CASE UNCHANGED realtimeVars
    <3>1. /\ part' = part /\ UNCHANGED dgVars /\ UNCHANGED rtcVars /\ UNCHANGED bcVars /\ UNCHANGED frVars
      BY <2>2 DEF realtimeVars, channelVars
    <3> QED BY <3>1, DgStands, RtcStands, BcStands, FrStands
  <2> QED BY <2>1, <2>2
<1>3. DgInv => DatagramsAreSound BY DEF DgInv
<1>4. BcInv => BroadcastIsSound BY DEF BcInv
<1>5. I => ChannelsDeliver BY <1>3, <1>4, RtcHolds, FrHolds DEF ChannelsDeliver
<1> QED BY <1>1, <1>2, <1>5, PTL DEF Spec

-----------------------------------------------------------------------------
(***************************************************************************)
(* The hub.  First what a sequence has how many times, ...                 *)
(***************************************************************************)
Occurs(s, x) == {i \in 1..Len(s) : s[i] = x}
Times(s, x) == Cardinality(Occurs(s, x))

LEMMA TimesCount ==
  ASSUME NEW S, NEW s \in Seq(S), NEW x
  PROVE  /\ IsFiniteSet(Occurs(s, x)) /\ Times(s, x) \in Nat
         /\ Times(s, x) = 0 <=> \A i \in 1..Len(s) : s[i] # x
<1>1. IsFiniteSet(1..Len(s)) BY FS_Interval
<1>2. Occurs(s, x) \subseteq 1..Len(s) BY DEF Occurs
<1>3. IsFiniteSet(Occurs(s, x)) BY <1>1, <1>2, FS_Subset
<1>4. Times(s, x) \in Nat BY <1>3, FS_CardinalityType DEF Times
<1>5. Times(s, x) = 0 <=> Occurs(s, x) = {} BY <1>3, FS_EmptySet DEF Times
<1> QED BY <1>3, <1>4, <1>5 DEF Occurs

(* One more at the end.                                                    *)
LEMMA TimesAppended ==
  ASSUME NEW S, NEW s \in Seq(S), NEW y, NEW x
  PROVE  Times(Append(s, y), x) = Times(s, x) + IF y = x THEN 1 ELSE 0
<1> DEFINE a == Append(s, y)
           n == Len(s) + 1
<1>1. Len(a) = n /\ n \in Nat /\ n \notin 1..Len(s) /\ a[n] = y /\ \A i \in 1..Len(s) : a[i] = s[i] OBVIOUS
<1>2. 1..n = 1..Len(s) \cup {n} OBVIOUS
<1> HIDE DEF a, n
<1>3. IsFiniteSet(Occurs(s, x)) /\ Times(s, x) \in Nat BY TimesCount
<1>4. n \notin Occurs(s, x) BY <1>1 DEF Occurs
<1>5. CASE y = x
  <2>1. Occurs(a, x) = Occurs(s, x) \cup {n} BY <1>1, <1>2, <1>5 DEF Occurs
  <2>2. Cardinality(Occurs(s, x) \cup {n}) = Cardinality(Occurs(s, x)) + 1 BY <1>3, <1>4, FS_AddElement
  <2> QED BY <1>5, <2>1, <2>2 DEF Times, a
<1>6. CASE y # x
  <2>1. Occurs(a, x) = Occurs(s, x) BY <1>1, <1>2, <1>6 DEF Occurs
  <2> QED BY <1>3, <1>6, <2>1 DEF Times, a
<1> QED BY <1>5, <1>6

(* One place changed.                                                      *)
LEMMA TimesChanged ==
  ASSUME NEW S, NEW s \in Seq(S), NEW i \in 1..Len(s), NEW y \in S, NEW x
  PROVE  /\ [s EXCEPT ![i] = y] \in Seq(S)
         /\ Times([s EXCEPT ![i] = y], x)
              = Times(s, x) - (IF s[i] = x THEN 1 ELSE 0) + (IF y = x THEN 1 ELSE 0)
<1> DEFINE a == [s EXCEPT ![i] = y]
           rest == Occurs(s, x) \ {i}
<1>1. Len(a) = Len(s) /\ a \in Seq(S) /\ a[i] = y /\ \A j \in 1..Len(s) : j # i => a[j] = s[j] OBVIOUS
<1> HIDE DEF a
<1>2. IsFiniteSet(Occurs(s, x)) /\ Times(s, x) \in Nat BY TimesCount
<1>3. /\ IsFiniteSet(rest)
      /\ Cardinality(rest) = IF i \in Occurs(s, x) THEN Cardinality(Occurs(s, x)) - 1 ELSE Cardinality(Occurs(s, x))
  BY <1>2, FS_RemoveElement
<1>4. i \in Occurs(s, x) <=> s[i] = x BY DEF Occurs
<1>5. Cardinality(rest) = Times(s, x) - (IF s[i] = x THEN 1 ELSE 0) BY <1>2, <1>3, <1>4 DEF Times
<1>8. a \in Seq(S) BY <1>1
<1>6. CASE y = x
  <2>1. Occurs(a, x) = rest \cup {i} BY <1>1, <1>6 DEF Occurs
  <2>2. i \notin rest OBVIOUS
  <2>3. Cardinality(rest \cup {i}) = Cardinality(rest) + 1 BY <1>3, <2>2, FS_AddElement
  <2>4. Times(a, x) = Times(s, x) - (IF s[i] = x THEN 1 ELSE 0) + 1 BY <1>5, <2>1, <2>3 DEF Times
  <2> QED BY <1>6, <1>8, <2>4 DEF a
<1>7. CASE y # x
  <2>1. Occurs(a, x) = rest BY <1>1, <1>7 DEF Occurs
  <2>2. Times(a, x) = Times(s, x) - (IF s[i] = x THEN 1 ELSE 0) BY <1>5, <2>1 DEF Times
  <2>3. Times(s, x) - (IF s[i] = x THEN 1 ELSE 0) \in Int BY <1>2
  <2> QED BY <1>7, <1>8, <2>2, <2>3 DEF a
<1> QED BY <1>6, <1>7

(* One place left out.                                                     *)
LEMMA TimesDropped ==
  ASSUME NEW S, NEW s \in Seq(S), NEW i \in 1..Len(s), NEW r \in Seq(S), Len(r) = Len(s) - 1,
         \A j \in 1..Len(r) : r[j] = s[IF j < i THEN j ELSE j + 1], NEW x
  PROVE  Times(r, x) = Times(s, x) - (IF s[i] = x THEN 1 ELSE 0)
<1> DEFINE A == Occurs(r, x)
           B == Occurs(s, x) \ {i}
           g == [j \in A |-> IF j < i THEN j ELSE j + 1]
<1>0. Len(s) \in Nat /\ i \in Nat OBVIOUS
<1>1. IsFiniteSet(Occurs(s, x)) /\ Times(s, x) \in Nat /\ IsFiniteSet(A) BY TimesCount
<1>2. Cardinality(B) = Times(s, x) - (IF s[i] = x THEN 1 ELSE 0)
  <2>1. i \in Occurs(s, x) <=> s[i] = x BY DEF Occurs
  <2>2. Cardinality(B) = IF i \in Occurs(s, x) THEN Cardinality(Occurs(s, x)) - 1 ELSE Cardinality(Occurs(s, x))
    BY <1>1, FS_RemoveElement
  <2> QED BY <1>1, <2>1, <2>2 DEF Times
<1>3. \A j \in A : j \in 1..Len(r) /\ r[j] = x BY DEF Occurs
<1>4. \A k : k \in B <=> k \in 1..Len(s) /\ s[k] = x /\ k # i BY DEF Occurs
<1>5. \A j \in 1..Len(r) : r[j] = x => j \in A BY DEF Occurs
<1> HIDE DEF A, B
<1>6. \A j \in A : g[j] \in B
  <2> SUFFICES ASSUME NEW j \in A PROVE g[j] \in B OBVIOUS
  <2>1. CASE j < i BY <1>0, <1>3, <1>4, <2>1
  <2>2. CASE ~(j < i)
    <3>1. j \in 1..Len(r) /\ r[j] = x /\ g[j] = j + 1 BY <1>3, <2>2
    <3>2. s[j + 1] = x /\ j + 1 \in 1..Len(s) /\ j + 1 # i BY <1>0, <2>2, <3>1
    <3> QED BY <1>4, <3>1, <3>2
  <2> QED BY <2>1, <2>2
<1>7. ASSUME NEW j \in A, NEW k \in A, g[j] = g[k] PROVE j = k BY <1>0, <1>3, <1>7
<1>8. ASSUME NEW k \in B PROVE \E j \in A : g[j] = k
  <2>0. k \in 1..Len(s) /\ s[k] = x /\ k # i BY <1>4
  <2>1. CASE k < i
    <3>1. k \in 1..Len(r) /\ r[k] = s[k] BY <1>0, <2>0, <2>1
    <3>2. k \in A BY <1>5, <2>0, <3>1
    <3> QED BY <2>1, <3>2
  <2>2. CASE k > i
    <3>1. k - 1 \in 1..Len(r) /\ ~(k - 1 < i) /\ (k - 1) + 1 = k BY <1>0, <2>0, <2>2
    <3>2. r[k - 1] = s[k] BY <3>1
    <3>3. k - 1 \in A BY <1>5, <2>0, <3>1, <3>2
    <3> QED BY <3>1, <3>3
  <2> QED BY <1>0, <2>0, <2>1, <2>2
<1>9. g \in [A -> B] BY <1>6
<1> HIDE DEF g
<1>10. g \in Bijection(A, B) BY <1>7, <1>8, <1>9 DEF Bijection, Injection, Surjection, IsInjective
<1>11. Cardinality(A) = Cardinality(B)
  <2>1. ExistsBijection(A, B) BY <1>10 DEF ExistsBijection
  <2> QED BY <1>1, <2>1, FS_Bijection
<1> QED BY <1>2, <1>11 DEF Times, A

LEMMA TimesAfter ==
  ASSUME NEW S, NEW s \in Seq(S), s # << >>, NEW x
  PROVE  /\ Tail(s) \in Seq(S) /\ Times(Tail(s), x) = Times(s, x) - (IF Head(s) = x THEN 1 ELSE 0)
<1>1. /\ 1 \in 1..Len(s) /\ Tail(s) \in Seq(S) /\ Len(Tail(s)) = Len(s) - 1 /\ Head(s) = s[1]
      /\ \A j \in 1..Len(Tail(s)) : Tail(s)[j] = s[IF j < 1 THEN j ELSE j + 1]
  OBVIOUS
<1>2. Times(Tail(s), x) = Times(s, x) - (IF s[1] = x THEN 1 ELSE 0)
  <2> DEFINE r == Tail(s)
  <2>1. r \in Seq(S) /\ Len(r) = Len(s) - 1 /\ \A j \in 1..Len(r) : r[j] = s[IF j < 1 THEN j ELSE j + 1] BY <1>1
  <2> HIDE DEF r
  <2>2. Times(r, x) = Times(s, x) - (IF s[1] = x THEN 1 ELSE 0) BY <1>1, <2>1, TimesDropped
  <2> QED BY <2>2 DEF r
<1> QED BY <1>1, <1>2

LEMMA TimesWithout ==
  ASSUME NEW S, NEW s \in Seq(S), NEW i \in 1..Len(s), NEW x
  PROVE  /\ RemoveAt(s, i) \in Seq(S)
         /\ Times(RemoveAt(s, i), x) = Times(s, x) - (IF s[i] = x THEN 1 ELSE 0)
<1> DEFINE p == SubSeq(s, 1, i - 1)
           q == SubSeq(s, i + 1, Len(s))
           r == p \o q
<1>0. Len(s) \in Nat /\ i \in Nat /\ i >= 1 /\ i <= Len(s) OBVIOUS
<1>1. p \in Seq(S) /\ Len(p) = i - 1 /\ \A j \in 1..(i - 1) : p[j] = s[j] BY <1>0
<1>2. q \in Seq(S) /\ Len(q) = Len(s) - i /\ \A j \in 1..(Len(s) - i) : q[j] = s[i + j] BY <1>0
<1> HIDE DEF p, q
<1>a. i - 1 \in Nat /\ Len(s) - i \in Nat /\ (i - 1) + (Len(s) - i) = Len(s) - 1 BY <1>0
<1>c. p \in Seq(S) /\ q \in Seq(S) BY <1>1, <1>2
<1>b. /\ r \in Seq(S) /\ Len(r) = Len(p) + Len(q)
      /\ \A j \in 1..Len(p) : r[j] = p[j]
      /\ \A j \in 1..Len(q) : r[Len(p) + j] = q[j]
  BY <1>c
<1>3. /\ r \in Seq(S) /\ Len(r) = Len(s) - 1
      /\ \A j \in 1..(i - 1) : r[j] = p[j]
      /\ \A j \in 1..(Len(s) - i) : r[(i - 1) + j] = q[j]
  BY <1>a, <1>b, <1>1, <1>2
<1> HIDE DEF r
<1>4. ASSUME NEW j \in 1..Len(r) PROVE r[j] = s[IF j < i THEN j ELSE j + 1]
  <2>1. CASE j < i BY <1>0, <1>1, <1>3, <2>1
  <2>2. CASE ~(j < i)
    <3>1. j - (i - 1) \in 1..(Len(s) - i) /\ (i - 1) + (j - (i - 1)) = j /\ i + (j - (i - 1)) = j + 1
      BY <1>0, <1>3, <2>2
    <3>2. r[(i - 1) + (j - (i - 1))] = q[j - (i - 1)] /\ q[j - (i - 1)] = s[i + (j - (i - 1))] BY <1>2, <1>3, <3>1
    <3> QED BY <2>2, <3>1, <3>2
  <2> QED BY <2>1, <2>2
<1>5. Times(r, x) = Times(s, x) - (IF s[i] = x THEN 1 ELSE 0) BY <1>3, <1>4, TimesDropped
<1> QED BY <1>3, <1>5 DEF RemoveAt, p, q, r

(***************************************************************************)
(* ... then what follows what in it: a part of a sequence has no steps but *)
(* its own, and one that starts like another and steps like it is the same.*)
(***************************************************************************)
Steps(s) == {<< s[i], s[i + 1] >> : i \in 1..(Len(s) - 1)}
Forks(P) == \E p, q \in P : p[1] = q[1] /\ p[2] # q[2]

LEMMA PartKeeps ==
  ASSUME NEW S, S \subseteq Int, NEW s \in Seq(S), NEW r \in Seq(S), NEW k \in Nat, k + Len(r) <= Len(s),
         \A i \in 1..Len(r) : r[i] = s[k + i]
  PROVE  /\ ToSet(r) \subseteq ToSet(s) /\ Steps(r) \subseteq Steps(s) /\ (Rises(s) => Rises(r))
         /\ r # << >> /\ k + Len(r) = Len(s) => r[Len(r)] = s[Len(s)]
<1>0. Len(s) \in Nat /\ Len(r) \in Nat OBVIOUS
<1>1. \A i \in 1..Len(r) : k + i \in 1..Len(s) /\ r[i] = s[k + i] BY <1>0
<1>2. ToSet(r) \subseteq ToSet(s)
  <2> SUFFICES ASSUME NEW x \in ToSet(r) PROVE x \in ToSet(s) OBVIOUS
  <2>1. PICK i \in 1..Len(r) : r[i] = x BY PlacesAre
  <2> QED BY <1>1, <2>1, PlacesAre
<1>3. Steps(r) \subseteq Steps(s)
  <2> SUFFICES ASSUME NEW i \in 1..(Len(r) - 1) PROVE << r[i], r[i + 1] >> \in Steps(s) BY DEF Steps
  <2>1. i \in 1..Len(r) /\ i + 1 \in 1..Len(r) /\ k + i \in 1..(Len(s) - 1) /\ k + (i + 1) = (k + i) + 1 BY <1>0
  <2>2. r[i] = s[k + i] /\ r[i + 1] = s[(k + i) + 1] BY <1>1, <2>1
  <2> QED BY <2>1, <2>2 DEF Steps
<1>4. ASSUME Rises(s) PROVE Rises(r)
  <2> SUFFICES ASSUME NEW i \in 1..Len(r), NEW j \in 1..Len(r), i < j PROVE r[i] < r[j] BY DEF Rises
  <2>1. k + i < k + j BY <1>0
  <2> QED BY <1>1, <1>4, <2>1 DEF Rises
<1>5. ASSUME r # << >>, k + Len(r) = Len(s) PROVE r[Len(r)] = s[Len(s)]
  <2>1. Len(r) \in 1..Len(r) BY <1>0, <1>5
  <2> QED BY <1>1, <1>5, <2>1
<1> QED BY <1>2, <1>3, <1>4, <1>5

(* The first of a sequence and the rest of it.                             *)
LEMMA CutKeeps ==
  ASSUME NEW S, S \subseteq Int, NEW s \in Seq(S), NEW n \in 0..Len(s)
  PROVE  LET p == SubSeq(s, 1, n)
             q == SubSeq(s, n + 1, Len(s))
         IN  /\ p \in Seq(S) /\ q \in Seq(S) /\ Len(p) = n /\ Len(q) = Len(s) - n
             /\ s = p \o q
             /\ ToSet(p) \cup ToSet(q) = ToSet(s) /\ Steps(p) \subseteq Steps(s) /\ Steps(q) \subseteq Steps(s)
             /\ (Rises(s) => Rises(p) /\ Rises(q) /\ Before(ToSet(p), ToSet(q)))
             /\ q # << >> => q[Len(q)] = s[Len(s)]
             /\ n >= 1 => p[1] = s[1]
<1> DEFINE p == SubSeq(s, 1, n)
           q == SubSeq(s, n + 1, Len(s))
<1>1. /\ p \in Seq(S) /\ Len(p) = n /\ q \in Seq(S) /\ Len(q) = Len(s) - n /\ s = p \o q
      /\ \A i \in 1..n : p[i] = s[i]
  BY CutAnywhere
<1>0. Len(s) \in Nat /\ n \in Nat /\ n <= Len(s) OBVIOUS
<1>2. \A i \in 1..(Len(s) - n) : q[i] = s[n + i] BY <1>0
<1> HIDE DEF p, q
<1>3. /\ ToSet(p \o q) = ToSet(p) \cup ToSet(q)
      /\ Rises(p \o q) <=> Rises(p) /\ Rises(q) /\ Before(ToSet(p), ToSet(q))
  BY <1>1, RisesJoined
<1>4. Steps(p) \subseteq Steps(s)
  <2>1. 0 + Len(p) <= Len(s) /\ \A i \in 1..Len(p) : p[i] = s[0 + i] BY <1>0, <1>1
  <2>2. 0 \in Nat OBVIOUS
  <2> QED BY <1>1, <2>1, <2>2, PartKeeps
<1>5. Steps(q) \subseteq Steps(s) /\ (q # << >> => q[Len(q)] = s[Len(s)])
  <2>1. n + Len(q) = Len(s) /\ n + Len(q) <= Len(s) /\ \A i \in 1..Len(q) : q[i] = s[n + i] BY <1>0, <1>1, <1>2
  <2> QED BY <1>0, <1>1, <2>1, PartKeeps
<1>6. n >= 1 => p[1] = s[1] BY <1>0, <1>1
<1>7. /\ p \in Seq(S) /\ q \in Seq(S) /\ Len(p) = n /\ Len(q) = Len(s) - n
      /\ s = p \o q
      /\ ToSet(p) \cup ToSet(q) = ToSet(s) /\ Steps(p) \subseteq Steps(s) /\ Steps(q) \subseteq Steps(s)
      /\ (Rises(s) => Rises(p) /\ Rises(q) /\ Before(ToSet(p), ToSet(q)))
  BY <1>1, <1>3, <1>4, <1>5
<1> QED BY <1>5, <1>6, <1>7 DEF p, q

LEMMA TailKeepsAll ==
  ASSUME NEW S, S \subseteq Int, NEW s \in Seq(S), s # << >>
  PROVE  /\ Tail(s) \in Seq(S) /\ Len(Tail(s)) = Len(s) - 1
         /\ ToSet(Tail(s)) \subseteq ToSet(s) /\ Steps(Tail(s)) \subseteq Steps(s) /\ (Rises(s) => Rises(Tail(s)))
         /\ Tail(s) # << >> => Tail(s)[Len(Tail(s))] = s[Len(s)]
<1>1. /\ Tail(s) \in Seq(S) /\ Len(Tail(s)) = Len(s) - 1 /\ Len(s) \in Nat /\ Len(s) >= 1
      /\ \A i \in 1..Len(Tail(s)) : Tail(s)[i] = s[1 + i]
  OBVIOUS
<1> DEFINE r == Tail(s)
<1>2. /\ r \in Seq(S) /\ 1 + Len(r) = Len(s) /\ 1 + Len(r) <= Len(s) /\ 1 \in Nat
      /\ \A i \in 1..Len(r) : r[i] = s[1 + i]
  BY <1>1
<1> HIDE DEF r
<1>3. /\ ToSet(r) \subseteq ToSet(s) /\ Steps(r) \subseteq Steps(s) /\ (Rises(s) => Rises(r))
      /\ r # << >> /\ 1 + Len(r) = Len(s) => r[Len(r)] = s[Len(s)]
  BY <1>2, PartKeeps
<1> QED BY <1>1, <1>2, <1>3 DEF r

(* A number that is larger than all at the end.                            *)
LEMMA AppendKeeps ==
  ASSUME NEW S, S \subseteq Int, NEW s \in Seq(S), NEW n \in S
  PROVE  /\ Append(s, n) \in Seq(S) /\ Len(Append(s, n)) = Len(s) + 1 /\ ToSet(Append(s, n)) = ToSet(s) \cup {n}
         /\ Append(s, n)[Len(Append(s, n))] = n
         /\ Steps(Append(s, n)) = Steps(s) \cup IF s = << >> THEN {} ELSE {<< s[Len(s)], n >>}
         /\ Rises(s) /\ Before(ToSet(s), {n}) => Rises(Append(s, n))
<1> DEFINE a == Append(s, n)
           l == Len(s)
<1>1. /\ a \in Seq(S) /\ l \in Nat /\ Len(a) = l + 1 /\ a[l + 1] = n /\ \A i \in 1..l : a[i] = s[i]
  OBVIOUS
<1> HIDE DEF a
<1>2. ToSet(a) = ToSet(s) \cup {n}
  <2>1. \A i : i \in 1..(l + 1) <=> i \in 1..l \/ i = l + 1 BY <1>1
  <2>2. /\ \A x : x \in ToSet(a) <=> \E i \in 1..Len(a) : a[i] = x
        /\ \A x : x \in ToSet(s) <=> \E i \in 1..l : s[i] = x
    BY <1>1, PlacesAre
  <2>3. \A x : x \in ToSet(a) <=> \E i \in 1..(l + 1) : a[i] = x BY <1>1, <2>2
  <2>4. \A x : x \in ToSet(a) <=> x \in ToSet(s) \/ x = n BY <1>1, <2>1, <2>2, <2>3
  <2> QED BY <2>4
<1>3. Steps(a) = Steps(s) \cup IF s = << >> THEN {} ELSE {<< s[Len(s)], n >>}
  <2>1. CASE s = << >>
    <3>0. l = 0 BY <2>1
    <3>1. 1..(Len(a) - 1) = {} /\ 1..(Len(s) - 1) = {} BY <1>1, <3>0
    <3>2. Steps(a) = {} /\ Steps(s) = {} BY <3>1 DEF Steps
    <3> QED BY <2>1, <3>2
  <2>2. CASE s # << >>
    <3>1. l >= 1 BY <1>1, <2>2
    <3>2. \A i : i \in 1..(Len(a) - 1) <=> i \in 1..(l - 1) \/ i = l BY <1>1, <3>1
    <3>3. \A i \in 1..(l - 1) : a[i] = s[i] /\ a[i + 1] = s[i + 1] BY <1>1
    <3>4. a[l] = s[l] /\ a[l + 1] = n BY <1>1, <3>1
    <3>5. ASSUME NEW p \in Steps(a) PROVE p \in Steps(s) \cup {<< s[l], n >>}
      <4>1. PICK i \in 1..(Len(a) - 1) : p = << a[i], a[i + 1] >> BY DEF Steps
      <4>2. CASE i \in 1..(l - 1) BY <3>3, <4>1, <4>2 DEF Steps
      <4>3. CASE i = l BY <3>4, <4>1, <4>3
      <4> QED BY <3>2, <4>2, <4>3
    <3>6. ASSUME NEW p \in Steps(s) PROVE p \in Steps(a)
      <4>1. PICK i \in 1..(l - 1) : p = << s[i], s[i + 1] >> BY DEF Steps
      <4>2. i \in 1..(Len(a) - 1) /\ p = << a[i], a[i + 1] >> BY <3>2, <3>3, <4>1
      <4> QED BY <4>2 DEF Steps
    <3>7. << s[l], n >> \in Steps(a)
      <4>1. l \in 1..(Len(a) - 1) /\ << s[l], n >> = << a[l], a[l + 1] >> BY <3>2, <3>4
      <4> QED BY <4>1 DEF Steps
    <3> QED BY <2>2, <3>5, <3>6, <3>7
  <2> QED BY <2>1, <2>2
<1>4. ASSUME Rises(s), Before(ToSet(s), {n}) PROVE Rises(a)
  <2> SUFFICES ASSUME NEW i \in 1..Len(a), NEW j \in 1..Len(a), i < j PROVE a[i] < a[j] BY DEF Rises
  <2>1. i \in 1..l /\ a[i] = s[i] BY <1>1
  <2>2. CASE j \in 1..l BY <1>1, <1>4, <2>1, <2>2 DEF Rises
  <2>3. CASE j \notin 1..l
    <3>1. j = l + 1 BY <1>1, <2>3
    <3>2. s[i] \in ToSet(s) BY <2>1, PlacesAre
    <3> QED BY <1>1, <1>4, <2>1, <3>1, <3>2 DEF Before
  <2> QED BY <2>2, <2>3
<1> QED BY <1>1, <1>2, <1>3, <1>4 DEF a

LEMMA SameSteps ==
  ASSUME NEW S, NEW s \in Seq(S), NEW t \in Seq(S), NEW P, ~Forks(P), Steps(s) \subseteq P, Steps(t) \subseteq P,
         Len(s) = Len(t), s # << >>, s[1] = t[1]
  PROVE  s = t
<1> DEFINE n == Len(s) - 1
           T == {i \in 0..n : s[i + 1] = t[i + 1]}
<1>0. n \in Nat /\ Len(s) = n + 1 /\ Len(t) = n + 1 OBVIOUS
<1>1. 0 \in T BY <1>0
<1>2. ASSUME NEW i \in 1..n, i - 1 \in T PROVE i \in T
  <2>1. i \in 0..n /\ i \in 1..(Len(s) - 1) /\ i \in 1..(Len(t) - 1) BY <1>0
  <2>2. s[(i - 1) + 1] = t[(i - 1) + 1] /\ (i - 1) + 1 = i BY <1>2
  <2>3. << s[i], s[i + 1] >> \in P /\ << t[i], t[i + 1] >> \in P BY <2>1 DEF Steps
  <2>4. s[i] = t[i] BY <2>2
  <2>5. s[i + 1] = t[i + 1] BY <2>3, <2>4 DEF Forks
  <2> QED BY <2>1, <2>5
<1>3. \A i \in 0..n : i \in T
  <2> HIDE DEF T, n
  <2> QED BY <1>0, <1>1, <1>2, UpTo
<1>4. ASSUME NEW i \in 1..Len(s) PROVE s[i] = t[i]
  <2>1. i - 1 \in 0..n /\ (i - 1) + 1 = i BY <1>0
  <2>2. s[(i - 1) + 1] = t[(i - 1) + 1] BY <1>3, <2>1
  <2> QED BY <2>1, <2>2
<1> HIDE DEF n
<1>5. s = [i \in 1..Len(s) |-> s[i]] /\ t = [i \in 1..Len(t) |-> t[i]] OBVIOUS
<1> QED BY <1>0, <1>4, <1>5

(***************************************************************************)
(* What is queued for a subscriber and what it was sent are in the order   *)
(* of publication.  As long as no queue has a gap, what follows a          *)
(* publication in one queue follows it in each, and in the batch that was  *)
(* encoded last; nothing follows the last one of a queue.  The unsettled   *)
(* steps of a subscriber's chain are those of its jobs and its inFlight.   *)
(***************************************************************************)
ChainSteps == {"sent", "settled", "released"}
Jobs == [kind : {"drain"}, member : {0}] \cup [kind : {"release", "next"}, member : Members]
Told == {n \in Pubs : n <= published}

HubType ==
  /\ topic \in [Members -> Topics \cup {"none", "closed"}]
  /\ pending \in [Members -> Seq(Pubs)] /\ delivered \in [Members -> Seq(Pubs)]
  /\ outstanding \in [Members -> Nat] /\ taken \in [Members -> Seq(ChainSteps)]
  /\ retained \in [Topics -> Seq(Pubs)] /\ published \in Nat
  /\ misframed \in BOOLEAN /\ gapped \in BOOLEAN
  /\ memo \in Seq(Pubs) /\ jobs \in Seq(Jobs)

QueueRises(m) ==
  /\ Len(pending[m]) <= MaxQueue[m]
  /\ Rises(delivered[m]) /\ Rises(pending[m]) /\ Before(ToSet(delivered[m]), ToSet(pending[m]))
  /\ ToSet(delivered[m]) \subseteq Told /\ ToSet(pending[m]) \subseteq Told
  /\ topic[m] = "none" => delivered[m] = << >> /\ pending[m] = << >>

QueuesRise == \A m \in Members : QueueRises(m)

LogsRise == \A t \in Topics : Rises(retained[t]) /\ ToSet(retained[t]) \subseteq Told

ChainIsKnown(m) ==
  /\ outstanding[m] = Times(taken[m], "sent") + Times(taken[m], "settled")
  /\ Times(jobs, Job("release", m)) = Times(taken[m], "settled")
  /\ Times(jobs, Job("next", m)) = Times(taken[m], "released")

ChainsAreKnown == \A m \in Members : ChainIsKnown(m)

Pristine == (\A m, n \in Pubs : Object[m] = Object[n] => m = n) /\ ~gapped
Going == {m \in Members : Live(m)}
Trail == Steps(memo) \cup UNION {Steps(pending[m]) : m \in Going}

Seamless ==
  Pristine =>
    /\ ~misframed /\ ToSet(memo) \subseteq Told /\ ~Forks(Trail)
    /\ \A m \in Going : pending[m] # << >> => \A p \in Trail : p[1] # pending[m][Len(pending[m])]
    /\ \A m, k \in Going : ToSet(pending[m]) \cap ToSet(pending[k]) # {} => topic[m] = topic[k]

HubInv == HubType /\ QueuesRise /\ LogsRise /\ ChainsAreKnown /\ NoBacklogIsStranded /\ Seamless

LEMMA PubsAreInts == Pubs \subseteq Int /\ Pubs \subseteq Nat /\ Told \subseteq Pubs
  BY HubConstants DEF Told

LEMMA HubHolds == HubInv => HubIsSound
<1> SUFFICES ASSUME HubInv PROVE HubIsSound OBVIOUS
<1>1. SlowConsumersAreBounded
  <2> SUFFICES ASSUME NEW m \in Members
               PROVE  /\ Len(pending[m]) <= MaxQueue[m]
                      /\ LET all == delivered[m] \o pending[m]
                         IN  \A i, j \in DOMAIN all : i < j => all[i] < all[j]
    BY DEF SlowConsumersAreBounded
  <2>1. QueueRises(m) BY DEF HubInv, QueuesRise
  <2>2. delivered[m] \in Seq(Pubs) /\ pending[m] \in Seq(Pubs) BY DEF HubInv, HubType
  <2> DEFINE all == delivered[m] \o pending[m]
  <2>3. all \in Seq(Pubs) /\ Rises(all) BY <2>1, <2>2, PubsAreInts, RisesJoined DEF QueueRises
  <2>4. DOMAIN all = 1..Len(all) BY <2>3
  <2> HIDE DEF all
  <2>5. \A i, j \in DOMAIN all : i < j => all[i] < all[j] BY <2>3, <2>4 DEF Rises
  <2> QED BY <2>1, <2>5 DEF QueueRises, all
<1>2. FrameIsItsBatchInSequence BY DEF HubInv, Seamless, Pristine, FrameIsItsBatchInSequence, FrameIsItsBatch
<1> QED BY <1>1, <1>2 DEF HubInv, HubIsSound

LEMMA NothingIn ==
  /\ << >> \in Seq(Pubs) /\ Len(<< >>) = 0 /\ ToSet(<< >>) = {} /\ Steps(<< >>) = {} /\ Rises(<< >>)
  /\ \A x : Times(<< >>, x) = 0
<1>0. << >> \in Seq(Pubs) /\ Len(<< >>) = 0 OBVIOUS
<1>1. 1..0 = {} /\ 1..(0 - 1) = {} OBVIOUS
<1>2. \A x : x \in ToSet(<< >>) <=> \E i \in 1..Len(<< >>) : << >>[i] = x BY <1>0, PlacesAre
<1>3. ToSet(<< >>) = {} BY <1>0, <1>1, <1>2
<1>4. Steps(<< >>) = {} BY <1>0, <1>1 DEF Steps
<1>5. Rises(<< >>) BY <1>0, <1>1 DEF Rises
<1>6. ASSUME NEW x PROVE Times(<< >>, x) = 0
  <2>1. Occurs(<< >>, x) = {} BY <1>0, <1>1 DEF Occurs
  <2> QED BY <2>1, FS_EmptySet DEF Times
<1> QED BY <1>0, <1>3, <1>4, <1>5, <1>6

LEMMA HubStarts == HubInit => HubInv
<1> SUFFICES ASSUME HubInit PROVE HubInv OBVIOUS
<1> USE DEF HubInit
<1>0. Going = {} BY HubConstants DEF Going, Live
<1>1. HubType
  <2>1. << >> \in Seq(Jobs) /\ << >> \in Seq(ChainSteps) OBVIOUS
  <2> QED BY <2>1, NothingIn DEF HubType
<1>2. QueuesRise BY NothingIn, HubConstants DEF QueuesRise, QueueRises, Before
<1>3. LogsRise BY NothingIn DEF LogsRise
<1>4. ChainsAreKnown BY NothingIn DEF ChainsAreKnown, ChainIsKnown
<1>5. NoBacklogIsStranded BY DEF NoBacklogIsStranded, Queued
<1>6. Trail = {} BY <1>0, NothingIn DEF Trail
<1>7. Seamless BY <1>0, <1>6, NothingIn DEF Seamless, Forks
<1> QED BY <1>1, <1>2, <1>3, <1>4, <1>5, <1>7 DEF HubInv

-----------------------------------------------------------------------------
(* A batch is the beginning of a queue.                                    *)
LEMMA BatchIs ==
  ASSUME HubType, NEW m \in Members
  PROVE  /\ Len(Batch(m)) \in 0..Len(pending[m]) /\ Batch(m) = SubSeq(pending[m], 1, Len(Batch(m)))
         /\ Batch(m) \in Seq(Pubs) /\ (pending[m] # << >> => Batch(m) # << >>)
<1> DEFINE q == pending[m]
           n == IF Len(q) < MaxBatch[m] THEN Len(q) ELSE MaxBatch[m]
<1>1. q \in Seq(Pubs) BY DEF HubType
<1>2. MaxBatch[m] \in Nat \ {0} BY HubConstants
<1>3. n \in 0..Len(q) /\ (q # << >> => n >= 1) BY <1>1, <1>2
<1> HIDE DEF q, n
<1>4. SubSeq(q, 1, n) \in Seq(Pubs) /\ Len(SubSeq(q, 1, n)) = n BY <1>1, <1>3, CutAnywhere
<1>5. Batch(m) = SubSeq(q, 1, n) BY DEF Batch, q, n
<1>6. q # << >> => Batch(m) # << >> BY <1>3, <1>4, <1>5
<1> QED BY <1>3, <1>4, <1>5, <1>6 DEF q

(* What is encoded in a row: each time the batch, or what is remembered.   *)
LEMMA EncodedIn ==
  ASSUME NEW order, Len(order) \in Nat, NEW R, memo \in R, misframed \in BOOLEAN,
         \A i \in 1..Len(order) : Batch(order[i]) \in R
  PROVE  /\ Encoded(order).memo \in R /\ Encoded(order).wrong \in BOOLEAN
         /\ (\A b, c \in R : Remembers(b, c) => b = c) => Encoded(order).wrong = misframed
<1> DEFINE n == Len(order)
           V == [memo : R, wrong : BOOLEAN]
           b0 == [memo |-> memo, wrong |-> misframed]
           Next1(batch, s) ==
             [memo |-> IF Remembers(s.memo, batch) THEN s.memo ELSE batch,
              wrong |-> s.wrong \/ (Remembers(s.memo, batch) /\ Objects(s.memo) # Objects(batch))]
           G == [p \in (1..n) \X V |-> Next1(Batch(order[p[1]]), p[2])]
           Step(f) == [i \in 0..Len(order) |->
             IF i = 0 THEN [memo |-> memo, wrong |-> misframed]
             ELSE LET batch == Batch(order[i])
                      hit == Remembers(f[i - 1].memo, batch)
                  IN  [memo |-> IF hit THEN f[i - 1].memo ELSE batch,
                       wrong |-> f[i - 1].wrong \/ (hit /\ Objects(f[i - 1].memo) # Objects(batch))]]
           e == CHOOSE f : f = Step(f)
<1>1. n \in Nat /\ b0 \in V OBVIOUS
<1>2. ASSUME NEW batch \in R, NEW s \in V PROVE Next1(batch, s) \in V
  <2>1. s.memo \in R /\ s.wrong \in BOOLEAN OBVIOUS
  <2>2. (s.wrong \/ (Remembers(s.memo, batch) /\ Objects(s.memo) # Objects(batch))) \in BOOLEAN BY <2>1
  <2> QED BY <2>1, <2>2
<1> HIDE DEF Next1, V
<1>3. G \in [(1..n) \X V -> V] BY <1>2
<1>4. PICK f : Recursion(f, n, V, b0, G)
  <2> HIDE DEF G, n, b0
  <2> QED BY <1>1, <1>3, StepwiseExists
<1>5. f \in [0..n -> V] /\ f[0] = b0 /\ \A i \in 1..n : f[i] = G[<< i, f[i - 1] >>]
  <2> HIDE DEF G, n, b0
  <2> QED BY <1>4 DEF Recursion
<1>6. ASSUME NEW i \in 1..n PROVE f[i] = Next1(Batch(order[i]), f[i - 1]) /\ f[i - 1] \in V
  <2>1. i - 1 \in 0..n BY <1>1
  <2>2. f[i - 1] \in V BY <1>5, <2>1
  <2>3. << i, f[i - 1] >> \in (1..n) \X V BY <2>2
  <2> QED BY <1>5, <2>2, <2>3
<1> HIDE DEF G
<1>7. f = Step(f)
  <2>1. \A i \in 0..n : i = 0 \/ i \in 1..n BY <1>1
  <2> QED BY <1>5, <1>6, <2>1 DEF Next1
<1>8. e = Step(e)
  <2> HIDE DEF Step
  <2> QED BY <1>7
<1>9. Encoded(order) = e[Len(order)] BY DEF Encoded
<1> HIDE DEF e
<1>10. ASSUME NEW i \in 1..n PROVE e[i] = Next1(Batch(order[i]), e[i - 1])
  <2>1. i \in 0..n /\ i # 0 BY <1>1
  <2> QED BY <1>8, <2>1 DEF Next1
<1>11. e[0] = b0 BY <1>1, <1>8
<1> HIDE DEF Step, b0
<1>12. \A i \in 0..n : e[i] \in V
  <2> DEFINE T == {i \in 0..n : e[i] \in V}
  <2>1. 0 \in T BY <1>1, <1>11
  <2>2. ASSUME NEW i \in 1..n, i - 1 \in T PROVE i \in T
    <3>1. i \in 0..n BY <1>1
    <3>2. Batch(order[i]) \in R OBVIOUS
    <3> QED BY <1>2, <1>10, <2>2, <3>1, <3>2
  <2>3. \A i \in 0..n : i \in T
    <3> HIDE DEF T, n
    <3> QED BY <1>1, <2>1, <2>2, UpTo
  <2> QED BY <2>3
<1>13. ASSUME \A b, c \in R : Remembers(b, c) => b = c PROVE \A i \in 0..n : e[i].wrong = misframed
  <2> DEFINE T == {i \in 0..n : e[i].wrong = misframed}
  <2>1. 0 \in T BY <1>1, <1>11 DEF b0
  <2>2. ASSUME NEW i \in 1..n, i - 1 \in T PROVE i \in T
    <3>1. i \in 0..n /\ i - 1 \in 0..n BY <1>1
    <3>2. e[i - 1].memo \in R /\ Batch(order[i]) \in R BY <1>12, <3>1 DEF V
    <3>3. Remembers(e[i - 1].memo, Batch(order[i])) => e[i - 1].memo = Batch(order[i]) BY <1>13, <3>2
    <3>4. e[i].wrong = (e[i - 1].wrong \/ (Remembers(e[i - 1].memo, Batch(order[i]))
                                           /\ Objects(e[i - 1].memo) # Objects(Batch(order[i]))))
      <4> DEFINE x == IF Remembers(e[i - 1].memo, Batch(order[i])) THEN e[i - 1].memo ELSE Batch(order[i])
                 w == e[i - 1].wrong \/ (Remembers(e[i - 1].memo, Batch(order[i]))
                                         /\ Objects(e[i - 1].memo) # Objects(Batch(order[i])))
      <4>1. e[i] = [memo |-> x, wrong |-> w] BY <1>10 DEF Next1
      <4> HIDE DEF x, w
      <4>2. e[i].wrong = w BY <4>1
      <4> QED BY <4>2 DEF w
    <3>5. e[i].wrong = e[i - 1].wrong
      <4>1. e[i - 1].wrong \in BOOLEAN BY <1>12, <3>1 DEF V
      <4> QED BY <3>3, <3>4, <4>1
    <3> QED BY <2>2, <3>1, <3>5
  <2>3. \A i \in 0..n : i \in T
    <3> HIDE DEF T, n
    <3> QED BY <1>1, <2>1, <2>2, UpTo
  <2> QED BY <2>3
<1>14. n \in 0..n /\ Encoded(order) = e[n] BY <1>1, <1>9
<1>15. Encoded(order).memo \in R /\ Encoded(order).wrong \in BOOLEAN BY <1>12, <1>14 DEF V
<1> QED BY <1>13, <1>14, <1>15

Rest(m) == SubSeq(pending[m], Len(Batch(m)) + 1, Len(pending[m]))

LEMMA RestIs ==
  ASSUME HubType, NEW m \in Members
  PROVE  /\ Rest(m) \in Seq(Pubs) /\ Len(Rest(m)) <= Len(pending[m]) /\ (pending[m] = << >> => Rest(m) = << >>)
         /\ ToSet(Batch(m)) \cup ToSet(Rest(m)) = ToSet(pending[m])
         /\ Steps(Batch(m)) \subseteq Steps(pending[m]) /\ Steps(Rest(m)) \subseteq Steps(pending[m])
         /\ Rises(pending[m]) => Rises(Batch(m)) /\ Rises(Rest(m)) /\ Before(ToSet(Batch(m)), ToSet(Rest(m)))
         /\ Rest(m) # << >> => pending[m] # << >> /\ Rest(m)[Len(Rest(m))] = pending[m][Len(pending[m])]
<1> DEFINE q == pending[m]
           n == Len(Batch(m))
<1>1. q \in Seq(Pubs) /\ n \in 0..Len(q) /\ Batch(m) = SubSeq(q, 1, n) BY BatchIs DEF HubType
<1>2. Rest(m) = SubSeq(q, n + 1, Len(q)) BY DEF Rest
<1> HIDE DEF q, n
<1>3. LET p == SubSeq(q, 1, n)
          r == SubSeq(q, n + 1, Len(q))
      IN  /\ p \in Seq(Pubs) /\ r \in Seq(Pubs) /\ Len(p) = n /\ Len(r) = Len(q) - n
          /\ q = p \o r
          /\ ToSet(p) \cup ToSet(r) = ToSet(q) /\ Steps(p) \subseteq Steps(q) /\ Steps(r) \subseteq Steps(q)
          /\ (Rises(q) => Rises(p) /\ Rises(r) /\ Before(ToSet(p), ToSet(r)))
          /\ r # << >> => r[Len(r)] = q[Len(q)]
          /\ n >= 1 => p[1] = q[1]
  BY <1>1, PubsAreInts, CutKeeps
<1>4. /\ Rest(m) \in Seq(Pubs) /\ Len(Rest(m)) = Len(q) - n
      /\ ToSet(Batch(m)) \cup ToSet(Rest(m)) = ToSet(q)
      /\ Steps(Batch(m)) \subseteq Steps(q) /\ Steps(Rest(m)) \subseteq Steps(q)
      /\ (Rises(q) => Rises(Batch(m)) /\ Rises(Rest(m)) /\ Before(ToSet(Batch(m)), ToSet(Rest(m))))
      /\ Rest(m) # << >> => Rest(m)[Len(Rest(m))] = q[Len(q)]
  BY <1>1, <1>2, <1>3
<1>5. Len(q) \in Nat /\ Len(Rest(m)) <= Len(q) BY <1>1, <1>4
<1>6. q = << >> => Rest(m) = << >>
  <2> SUFFICES ASSUME q = << >> PROVE Rest(m) = << >> OBVIOUS
  <2>1. Len(q) = 0 OBVIOUS
  <2>2. Len(Rest(m)) = 0 BY <1>1, <1>4, <2>1
  <2> QED BY <1>4, <2>2
<1> QED BY <1>4, <1>5, <1>6 DEF q

(* Batches of some subscribers are handed over.                            *)
Sends(order) ==
  /\ pending' = [m \in Members |-> IF m \in ToSet(order) THEN Rest(m) ELSE pending[m]]
  /\ delivered' = [m \in Members |-> IF m \in ToSet(order) THEN delivered[m] \o Batch(m) ELSE delivered[m]]
  /\ memo' = Encoded(order).memo /\ misframed' = Encoded(order).wrong

LEMMA SendsKeeps ==
  ASSUME HubType, QueuesRise, LogsRise, Seamless, NEW order \in Seq(Members), ToSet(order) \subseteq Going,
         Sends(order), UNCHANGED << topic, retained, published, gapped >>
  PROVE  /\ pending' \in [Members -> Seq(Pubs)] /\ delivered' \in [Members -> Seq(Pubs)]
         /\ memo' \in Seq(Pubs) /\ misframed' \in BOOLEAN
         /\ QueuesRise' /\ LogsRise' /\ Seamless'
         /\ \A m \in Members : pending'[m] # << >> => pending[m] # << >>
<1> DEFINE sent == ToSet(order)
<1>1. \A m \in Members : pending[m] \in Seq(Pubs) /\ delivered[m] \in Seq(Pubs) BY DEF HubType
<1>2. \A i \in 1..Len(order) : order[i] \in sent /\ order[i] \in Members BY PlacesAre
<1>3. Len(order) \in Nat /\ sent \subseteq Members BY PlacesAre
<1>4. ASSUME NEW m \in Members
      PROVE  /\ pending'[m] = (IF m \in sent THEN Rest(m) ELSE pending[m])
             /\ delivered'[m] = (IF m \in sent THEN delivered[m] \o Batch(m) ELSE delivered[m])
  BY DEF Sends
<1>5. ASSUME NEW m \in Members
      PROVE  /\ pending'[m] \in Seq(Pubs) /\ (pending'[m] # << >> => pending[m] # << >>)
             /\ Steps(pending'[m]) \subseteq Steps(pending[m]) /\ ToSet(pending'[m]) \subseteq ToSet(pending[m])
             /\ pending'[m] # << >> => pending'[m][Len(pending'[m])] = pending[m][Len(pending[m])]
  <2>1. CASE m \in sent
    <3>1. pending'[m] = Rest(m) BY <1>4, <2>1
    <3> QED BY <3>1, RestIs
  <2>2. CASE m \notin sent
    <3>1. pending'[m] = pending[m] BY <1>4, <2>2
    <3> QED BY <1>1, <3>1
  <2> QED BY <2>1, <2>2
<1>6. ASSUME NEW m \in Members PROVE delivered'[m] \in Seq(Pubs) /\ QueueRises(m)'
  <2>0. QueueRises(m) BY DEF QueuesRise
  <2>1. MaxQueue[m] \in Nat /\ Told' = Told BY HubConstants DEF Told
  <2>2. CASE m \in sent
    <3> DEFINE d == delivered[m]
               b == Batch(m)
               r == Rest(m)
    <3>1. d \in Seq(Pubs) /\ b \in Seq(Pubs) /\ r \in Seq(Pubs) BY <1>1, BatchIs, RestIs
    <3>2. /\ Len(r) <= Len(pending[m]) /\ ToSet(b) \cup ToSet(r) = ToSet(pending[m])
          /\ Rises(b) /\ Rises(r) /\ Before(ToSet(b), ToSet(r))
      BY <2>0, RestIs DEF QueueRises
    <3>3. Rises(d) /\ Before(ToSet(d), ToSet(b)) /\ Before(ToSet(d), ToSet(r)) BY <2>0, <3>2 DEF QueueRises, Before
    <3>4. /\ pending'[m] = r /\ delivered'[m] = d \o b BY <1>4, <2>2
    <3>5. topic[m] # "none"
      <4>1. topic[m] \in Topics BY <2>2 DEF Going, Live
      <4> QED BY <4>1, HubConstants
    <3> HIDE DEF d, b, r
    <3>6. d \o b \in Seq(Pubs) /\ Rises(d \o b) /\ ToSet(d \o b) = ToSet(d) \cup ToSet(b)
      <4>1. /\ d \o b \in Seq(Pubs) /\ ToSet(d \o b) = ToSet(d) \cup ToSet(b)
            /\ Rises(d \o b) <=> Rises(d) /\ Rises(b) /\ Before(ToSet(d), ToSet(b))
        BY <3>1, PubsAreInts, RisesJoined
      <4> QED BY <3>2, <3>3, <4>1
    <3>7. Before(ToSet(d \o b), ToSet(r)) BY <3>2, <3>3, <3>6 DEF Before
    <3>8. Len(r) <= MaxQueue[m]
      <4>1. Len(pending[m]) \in Nat /\ Len(r) \in Nat /\ Len(pending[m]) <= MaxQueue[m] BY <1>1, <2>0, <3>1 DEF QueueRises
      <4> QED BY <2>1, <3>2, <4>1
    <3>9. ToSet(d) \subseteq Told /\ ToSet(pending[m]) \subseteq Told BY <2>0 DEF QueueRises, d
    <3>10. ToSet(d \o b) \subseteq Told /\ ToSet(r) \subseteq Told BY <3>2, <3>6, <3>9
    <3> QED BY <2>1, <3>2, <3>4, <3>5, <3>6, <3>7, <3>8, <3>10 DEF QueueRises
  <2>3. CASE m \notin sent
    <3>1. pending'[m] = pending[m] /\ delivered'[m] = delivered[m] BY <1>4, <2>3
    <3> QED BY <1>1, <2>0, <2>1, <3>1 DEF QueueRises
  <2> QED BY <2>2, <2>3
<1>7. memo' \in Seq(Pubs) /\ misframed' \in BOOLEAN
  <2>1. \A i \in 1..Len(order) : Batch(order[i]) \in Seq(Pubs) BY <1>2, BatchIs
  <2>2. memo \in Seq(Pubs) /\ misframed \in BOOLEAN BY DEF HubType
  <2> QED BY <1>3, <2>1, <2>2, EncodedIn DEF Sends
<1>8. LogsRise' BY DEF LogsRise, Told
<1>9. Seamless'
  <2>1. Going' = Going /\ Told' = Told /\ Pristine' = Pristine BY DEF Going, Live, Told, Pristine
  <2> SUFFICES ASSUME Pristine
               PROVE  /\ ~misframed' /\ ToSet(memo)' \subseteq Told /\ ~Forks(Trail')
                      /\ \A m \in Going : pending'[m] # << >> => \A p \in Trail' : p[1] # pending'[m][Len(pending'[m])]
                      /\ \A m, k \in Going : ToSet(pending'[m]) \cap ToSet(pending'[k]) # {} => topic'[m] = topic'[k]
    BY <2>1 DEF Seamless, Forks
  <2>2. /\ ~misframed /\ ToSet(memo) \subseteq Told /\ ~Forks(Trail)
        /\ \A m \in Going : pending[m] # << >> => \A p \in Trail : p[1] # pending[m][Len(pending[m])]
        /\ \A m, k \in Going : ToSet(pending[m]) \cap ToSet(pending[k]) # {} => topic[m] = topic[k]
    BY DEF Seamless
  <2> DEFINE R == {b \in Seq(Pubs) : Steps(b) \subseteq Trail /\ ToSet(b) \subseteq Told}
  <2>3. memo \in R BY <2>2 DEF HubType, Trail
  <2>4. ASSUME NEW m \in Going PROVE Batch(m) \in R
    <3>1. m \in Members BY DEF Going
    <3>2. /\ Batch(m) \in Seq(Pubs) /\ Steps(Batch(m)) \subseteq Steps(pending[m]) /\ ToSet(Batch(m)) \subseteq ToSet(pending[m])
      BY <3>1, BatchIs, RestIs
    <3>3. Steps(pending[m]) \subseteq Trail BY DEF Trail
    <3>4. ToSet(pending[m]) \subseteq Told BY <3>1 DEF QueuesRise, QueueRises
    <3> QED BY <3>2, <3>3, <3>4
  <2>5. \A i \in 1..Len(order) : Batch(order[i]) \in R BY <1>2, <2>4
  <2>6. ASSUME NEW b \in R, NEW c \in R, Remembers(b, c) PROVE b = c
    <3>1. b \in Seq(Pubs) /\ c \in Seq(Pubs) /\ Steps(b) \subseteq Trail /\ Steps(c) \subseteq Trail OBVIOUS
    <3> HIDE DEF R
    <3>2. b # << >> /\ Len(b) = Len(c) /\ Object[Head(b)] = Object[Head(c)] BY <2>6 DEF Remembers
    <3>3. Head(b) = b[1] /\ Head(c) = c[1] /\ b[1] \in Pubs /\ c[1] \in Pubs
      <4>1. Len(b) >= 1 /\ Len(c) >= 1 BY <3>1, <3>2
      <4> QED BY <3>1, <4>1
    <3>4. b[1] = c[1] BY <3>2, <3>3 DEF Pristine
    <3> QED BY <2>2, <3>1, <3>2, <3>4, SameSteps
  <2> HIDE DEF R
  <2>7. memo' \in R /\ misframed' = misframed
    <3>1. misframed \in BOOLEAN BY DEF HubType
    <3> QED BY <1>3, <2>3, <2>5, <2>6, <3>1, EncodedIn DEF Sends
  <2>8. Steps(memo') \subseteq Trail /\ ToSet(memo') \subseteq Told BY <2>7 DEF R
  <2>9. Trail' \subseteq Trail
    <3>1. ASSUME NEW m \in Going PROVE Steps(pending'[m]) \subseteq Trail
      <4>1. m \in Members BY DEF Going
      <4> QED BY <1>5, <4>1 DEF Trail
    <3>2. Trail' = Steps(memo') \cup UNION {Steps(pending'[m]) : m \in Going} BY <2>1 DEF Trail, Steps
    <3> QED BY <2>8, <3>1, <3>2
  <2>10. ~Forks(Trail') BY <2>2, <2>9 DEF Forks
  <2>11. ASSUME NEW m \in Going, pending'[m] # << >>, NEW p \in Trail' PROVE p[1] # pending'[m][Len(pending'[m])]
    <3>1. m \in Members BY DEF Going
    <3>2. pending[m] # << >> /\ pending'[m][Len(pending'[m])] = pending[m][Len(pending[m])] BY <1>5, <2>11, <3>1
    <3>3. p \in Trail BY <2>9
    <3> QED BY <2>2, <3>2, <3>3
  <2>12. ASSUME NEW m \in Going, NEW k \in Going, ToSet(pending'[m]) \cap ToSet(pending'[k]) # {} PROVE topic'[m] = topic'[k]
    <3>1. m \in Members /\ k \in Members BY DEF Going
    <3>2. ToSet(pending[m]) \cap ToSet(pending[k]) # {} BY <1>5, <2>12, <3>1
    <3> QED BY <2>2, <3>2
  <2>13. ToSet(memo)' = ToSet(memo') BY DEF ToSet
  <2> QED BY <2>2, <2>7, <2>8, <2>10, <2>11, <2>12, <2>13
<1>10. pending' \in [Members -> Seq(Pubs)] /\ delivered' \in [Members -> Seq(Pubs)]
  <2>1. pending' = [m \in Members |-> pending'[m]] /\ delivered' = [m \in Members |-> delivered'[m]] BY DEF Sends
  <2> QED BY <1>5, <1>6, <2>1
<1> QED BY <1>5, <1>6, <1>7, <1>8, <1>9, <1>10 DEF QueuesRise

-----------------------------------------------------------------------------
(* A publication goes to the end, and something may leave at the front.    *)
LEMMA EnqueuedIs ==
  ASSUME NEW m \in Members, NEW q \in Seq(Pubs), Len(q) <= MaxQueue[m], NEW n \in Pubs
  PROVE  LET e == Enqueued(m, q, n)
         IN  /\ e \in Seq(Pubs) /\ Len(e) <= MaxQueue[m] /\ ToSet(e) \subseteq ToSet(q) \cup {n}
             /\ (Rises(q) /\ Before(ToSet(q), {n}) => Rises(e))
             /\ (~Admits(m, q) => e = q)
             /\ Admits(m, q) => /\ e # << >> /\ e[Len(e)] = n
                                /\ \A p \in Steps(e) : p \in Steps(q) \/ (q # << >> /\ p = << q[Len(q)], n >>)
<1> DEFINE e == Enqueued(m, q, n)
           r == IF Len(q) >= MaxQueue[m] THEN Tail(q) ELSE q
<1>0. Len(q) \in Nat /\ MaxQueue[m] \in Nat BY HubConstants
<1>1. CASE ~Admits(m, q)
  <2>1. e = q BY <1>1 DEF Enqueued
  <2> QED BY <1>1, <2>1
<1>2. CASE Admits(m, q)
  <2>1. e = Append(r, n) BY <1>2 DEF Enqueued
  <2>2. /\ r \in Seq(Pubs) /\ Len(r) + 1 <= MaxQueue[m] /\ ToSet(r) \subseteq ToSet(q) /\ Steps(r) \subseteq Steps(q)
        /\ (Rises(q) => Rises(r))
        /\ r # << >> => q # << >> /\ r[Len(r)] = q[Len(q)]
    <3>1. CASE Len(q) >= MaxQueue[m]
      <4>1. MaxQueue[m] > 0 /\ Len(q) = MaxQueue[m] BY <1>0, <1>2, <3>1 DEF Admits
      <4>2. q # << >> BY <1>0, <4>1
      <4>3. r = Tail(q) BY <3>1
      <4>4. /\ Tail(q) \in Seq(Pubs) /\ Len(Tail(q)) = Len(q) - 1
            /\ ToSet(Tail(q)) \subseteq ToSet(q) /\ Steps(Tail(q)) \subseteq Steps(q) /\ (Rises(q) => Rises(Tail(q)))
            /\ Tail(q) # << >> => Tail(q)[Len(Tail(q))] = q[Len(q)]
        BY <4>2, PubsAreInts, TailKeepsAll
      <4> HIDE DEF r
      <4> QED BY <1>0, <4>1, <4>2, <4>3, <4>4
    <3>2. CASE ~(Len(q) >= MaxQueue[m])
      <4>1. r = q /\ Len(q) + 1 <= MaxQueue[m] BY <1>0, <3>2
      <4> QED BY <4>1
    <3> QED BY <3>1, <3>2
  <2> HIDE DEF r, e
  <2>3. /\ e \in Seq(Pubs) /\ Len(e) = Len(r) + 1 /\ ToSet(e) = ToSet(r) \cup {n}
        /\ e[Len(e)] = n
        /\ Steps(e) = Steps(r) \cup IF r = << >> THEN {} ELSE {<< r[Len(r)], n >>}
        /\ Rises(r) /\ Before(ToSet(r), {n}) => Rises(e)
    <3>1. r \in Seq(Pubs) BY <2>2
    <3>2. /\ Append(r, n) \in Seq(Pubs) /\ Len(Append(r, n)) = Len(r) + 1 /\ ToSet(Append(r, n)) = ToSet(r) \cup {n}
          /\ Append(r, n)[Len(Append(r, n))] = n
          /\ Steps(Append(r, n)) = Steps(r) \cup IF r = << >> THEN {} ELSE {<< r[Len(r)], n >>}
          /\ (Rises(r) /\ Before(ToSet(r), {n}) => Rises(Append(r, n)))
      BY <3>1, PubsAreInts, AppendKeeps
    <3> QED BY <2>1, <3>2
  <2>4. Rises(q) /\ Before(ToSet(q), {n}) => Rises(e) BY <2>2, <2>3 DEF Before
  <2>5. \A p \in Steps(e) : p \in Steps(q) \/ (q # << >> /\ p = << q[Len(q)], n >>) BY <2>2, <2>3
  <2>6. e # << >>
    <3>1. Len(r) \in Nat BY <2>2
    <3>2. Len(e) # 0 BY <2>3, <3>1
    <3> QED BY <3>2
  <2> QED BY <1>2, <2>2, <2>3, <2>4, <2>5, <2>6 DEF e
<1> QED BY <1>1, <1>2

(* A drain that is scheduled is a job of its own kind.                     *)
LEMMA OtherJobs ==
  ASSUME NEW s \in Seq(Jobs), NEW j \in Jobs
  PROVE  /\ Append(s, j) \in Seq(Jobs)
         /\ \A m \in Members :
              /\ j.kind # "release" => Times(Append(s, j), Job("release", m)) = Times(s, Job("release", m))
              /\ j.kind # "next" => Times(Append(s, j), Job("next", m)) = Times(s, Job("next", m))
<1>1. Append(s, j) \in Seq(Jobs) OBVIOUS
<1> SUFFICES ASSUME NEW m \in Members
    PROVE  /\ j.kind # "release" => Times(Append(s, j), Job("release", m)) = Times(s, Job("release", m))
           /\ j.kind # "next" => Times(Append(s, j), Job("next", m)) = Times(s, Job("next", m))
  BY <1>1
<1>2. ASSUME NEW turn, j.kind # turn PROVE Times(Append(s, j), Job(turn, m)) = Times(s, Job(turn, m))
  <2>1. Job(turn, m).kind = turn BY DEF Job
  <2>2. j # Job(turn, m) BY <1>2, <2>1
  <2>3. Times(s, Job(turn, m)) \in Nat BY TimesCount
  <2>4. Times(Append(s, j), Job(turn, m)) = Times(s, Job(turn, m)) + IF j = Job(turn, m) THEN 1 ELSE 0 BY TimesAppended
  <2> QED BY <2>2, <2>3, <2>4
<1> QED BY <1>2

LEMMA ScheduledIs ==
  ASSUME HubType, ScheduleFlush
  PROVE  /\ scheduled' /\ jobs' \in Seq(Jobs)
         /\ \A m \in Members : /\ Times(jobs', Job("release", m)) = Times(jobs, Job("release", m))
                               /\ Times(jobs', Job("next", m)) = Times(jobs, Job("next", m))
<1>1. jobs \in Seq(Jobs) BY DEF HubType
<1>2. Job("drain", 0) \in Jobs /\ Job("drain", 0).kind = "drain" BY DEF Job, Jobs
<1>3. jobs' = jobs \/ jobs' = Append(jobs, Job("drain", 0)) BY DEF ScheduleFlush
<1>4. scheduled' BY DEF ScheduleFlush
<1>5. CASE jobs' = jobs BY <1>1, <1>4, <1>5
<1>6. CASE jobs' = Append(jobs, Job("drain", 0))
  <2>1. /\ Append(jobs, Job("drain", 0)) \in Seq(Jobs)
        /\ \A m \in Members :
              /\ Times(Append(jobs, Job("drain", 0)), Job("release", m)) = Times(jobs, Job("release", m))
              /\ Times(Append(jobs, Job("drain", 0)), Job("next", m)) = Times(jobs, Job("next", m))
    BY <1>1, <1>2, OtherJobs
  <2> QED BY <1>4, <1>6, <2>1
<1> QED BY <1>3, <1>5, <1>6

LEMMA ChainsStand ==
  ASSUME ChainsAreKnown, UNCHANGED << outstanding, taken >>,
         \A m \in Members : /\ Times(jobs', Job("release", m)) = Times(jobs, Job("release", m))
                            /\ Times(jobs', Job("next", m)) = Times(jobs, Job("next", m))
  PROVE  ChainsAreKnown'
<1> SUFFICES ASSUME NEW m \in Members PROVE ChainIsKnown(m)' BY DEF ChainsAreKnown
<1>1. ChainIsKnown(m) BY DEF ChainsAreKnown
<1>2. \A x : Times(taken[m], x)' = Times(taken[m], x) BY DEF Times, Occurs
<1>3. \A x : Times(jobs, x)' = Times(jobs', x) BY DEF Times, Occurs
<1>4. /\ Times(jobs, Job("release", m))' = Times(jobs', Job("release", m))
      /\ Times(jobs, Job("next", m))' = Times(jobs', Job("next", m))
  BY DEF Times, Occurs, Job
<1> QED BY <1>1, <1>2, <1>4 DEF ChainIsKnown

(* The log takes a publication as a queue does.                            *)
LEMMA LoggedIs ==
  ASSUME NEW q \in Seq(Pubs), NEW n \in Pubs
  PROVE  /\ Logged(q, n) \in Seq(Pubs) /\ ToSet(Logged(q, n)) \subseteq ToSet(q) \cup {n}
         /\ (Rises(q) /\ Before(ToSet(q), {n}) => Rises(Logged(q, n)))
<1> DEFINE r == IF Len(q) >= RetainLimit THEN Tail(q) ELSE q
<1>1. r \in Seq(Pubs) /\ ToSet(r) \subseteq ToSet(q) /\ (Rises(q) => Rises(r))
  <2>1. CASE Len(q) >= RetainLimit
    <3>1. q # << >>
      <4>1. Len(q) >= 1 BY <2>1, HubConstants
      <4> QED BY <4>1
    <3>2. r = Tail(q) BY <2>1
    <3>3. Tail(q) \in Seq(Pubs) /\ ToSet(Tail(q)) \subseteq ToSet(q) /\ (Rises(q) => Rises(Tail(q)))
      BY <3>1, PubsAreInts, TailKeepsAll
    <3> QED BY <3>2, <3>3
  <2>2. CASE ~(Len(q) >= RetainLimit) BY <2>2
  <2> QED BY <2>1, <2>2
<1>2. Logged(q, n) = Append(r, n) BY DEF Logged
<1> HIDE DEF r
<1>3. /\ Append(r, n) \in Seq(Pubs) /\ ToSet(Append(r, n)) = ToSet(r) \cup {n}
      /\ (Rises(r) /\ Before(ToSet(r), {n}) => Rises(Append(r, n)))
  <2>1. r \in Seq(Pubs) BY <1>1
  <2>2. /\ Append(r, n) \in Seq(Pubs) /\ Len(Append(r, n)) = Len(r) + 1 /\ ToSet(Append(r, n)) = ToSet(r) \cup {n}
        /\ Append(r, n)[Len(Append(r, n))] = n
        /\ Steps(Append(r, n)) = Steps(r) \cup IF r = << >> THEN {} ELSE {<< r[Len(r)], n >>}
        /\ (Rises(r) /\ Before(ToSet(r), {n}) => Rises(Append(r, n)))
    BY <2>1, PubsAreInts, AppendKeeps
  <2> QED BY <2>2
<1> QED BY <1>1, <1>2, <1>3 DEF Before

LEMMA StepsStartIn ==
  ASSUME NEW S, NEW s \in Seq(S), NEW p \in Steps(s)
  PROVE  p[1] \in ToSet(s)
<1>1. PICK i \in 1..(Len(s) - 1) : p = << s[i], s[i + 1] >> BY DEF Steps
<1>2. i \in 1..Len(s) /\ p[1] = s[i] BY <1>1
<1> QED BY <1>2, PlacesAre

LEMMA PublishKeeps == ASSUME HubInv, NEW t \in Topics, NEW retains \in BOOLEAN, Publish(t, retains) PROVE HubInv'
<1> DEFINE n == published + 1
           to == Audience(t)
           gone == {m \in to : Disconnects(m, pending[m])}
           rest == to \ gone
           Gets(m) == m \in rest /\ Admits(m, pending[m])
<1>1. /\ HubType /\ QueuesRise /\ LogsRise /\ ChainsAreKnown /\ NoBacklogIsStranded /\ Seamless BY DEF HubInv
<1>2. /\ n \in Pubs /\ published' = n
      /\ retained' = [retained EXCEPT ![t] = IF to # {} /\ gone = to THEN << >>
                                             ELSE IF retains THEN Logged(@, n) ELSE @]
      /\ pending' = [m \in Members |-> IF m \in rest THEN Enqueued(m, pending[m], n) ELSE pending[m]]
      /\ gapped' = (gapped \/ \E m \in to : ~Admits(m, pending[m]) /\ Policy[m] = "drop-newest")
      /\ topic' = [m \in Members |-> IF m \in gone THEN "closed" ELSE topic[m]]
      /\ IF \E m \in rest : Admits(m, pending[m]) THEN ScheduleFlush
         ELSE UNCHANGED << scheduled, hubTimer, jobs >>
      /\ UNCHANGED << outstanding, taken, draining, memo, delivered, misframed, stalled >>
  BY DEF Publish
<1>3. /\ to \subseteq Members /\ rest \subseteq to /\ gone \subseteq to
      /\ \A m \in Members : m \in to <=> topic[m] = t
      /\ \A m \in Members : pending[m] \in Seq(Pubs) /\ delivered[m] \in Seq(Pubs) /\ QueueRises(m)
  BY <1>1 DEF Audience, HubType, QueuesRise
<1>4. /\ Told \subseteq Pubs /\ \A x \in Told : x < n /\ x # n
      /\ Told \subseteq Told' /\ n \in Told'
  <2>1. published \in Nat BY <1>1 DEF HubType
  <2>2. Told' = {x \in Pubs : x <= n} BY <1>2 DEF Told
  <2>3. n = published + 1 /\ n \in Pubs /\ Pubs \subseteq Nat BY <1>2, PubsAreInts
  <2> HIDE DEF n
  <2>4. Told = {x \in Pubs : x <= published} BY DEF Told
  <2>5. \A x \in Told : x \in Nat /\ x <= published BY <2>3, <2>4
  <2>6. \A x \in Told : x < n /\ x # n /\ x <= n BY <2>1, <2>3, <2>5
  <2>7. n <= n BY <2>3
  <2> QED BY <2>2, <2>3, <2>4, <2>6, <2>7
<1> HIDE DEF n, to, gone, rest
<1>5. ASSUME NEW m \in Members
      PROVE  /\ pending'[m] \in Seq(Pubs) /\ QueueRises(m)' /\ ToSet(pending'[m]) \subseteq ToSet(pending[m]) \cup {n}
             /\ (~Gets(m) => pending'[m] = pending[m])
             /\ Gets(m) => /\ pending'[m] # << >> /\ pending'[m][Len(pending'[m])] = n
                           /\ \A p \in Steps(pending'[m]) :
                                p \in Steps(pending[m]) \/ (pending[m] # << >> /\ p = << pending[m][Len(pending[m])], n >>)
  <2> DEFINE q == pending[m]
             e == Enqueued(m, q, n)
  <2>0. q \in Seq(Pubs) /\ QueueRises(m) /\ Len(q) <= MaxQueue[m] BY <1>3 DEF QueueRises
  <2>1. pending'[m] = IF m \in rest THEN e ELSE q BY <1>2
  <2>2. Before(ToSet(q), {n}) /\ Before(ToSet(delivered[m]), {n}) BY <1>4, <2>0 DEF QueueRises, Before
  <2> HIDE DEF e, q
  <2>3. /\ e \in Seq(Pubs) /\ Len(e) <= MaxQueue[m] /\ ToSet(e) \subseteq ToSet(q) \cup {n}
        /\ (Rises(q) /\ Before(ToSet(q), {n}) => Rises(e))
        /\ (~Admits(m, q) => e = q)
        /\ Admits(m, q) => /\ e # << >> /\ e[Len(e)] = n
                           /\ \A p \in Steps(e) : p \in Steps(q) \/ (q # << >> /\ p = << q[Len(q)], n >>)
    <3>1. q \in Seq(Pubs) /\ Len(q) <= MaxQueue[m] /\ n \in Pubs BY <1>2, <2>0
    <3> QED BY <3>1, EnqueuedIs DEF e
  <2>4. pending'[m] \in Seq(Pubs) /\ ToSet(pending'[m]) \subseteq ToSet(q) \cup {n} BY <2>0, <2>1, <2>3
  <2>5. /\ ~Gets(m) => pending'[m] = q
        /\ Gets(m) => pending'[m] = e /\ Admits(m, q)
    BY <2>1, <2>3 DEF q
  <2>6. QueueRises(m)'
    <3>1. /\ Len(q) <= MaxQueue[m] /\ Rises(q) /\ Rises(delivered[m]) /\ Before(ToSet(delivered[m]), ToSet(q))
          /\ ToSet(delivered[m]) \subseteq Told /\ ToSet(q) \subseteq Told
          /\ (topic[m] = "none" => delivered[m] = << >> /\ q = << >>)
      BY <2>0 DEF QueueRises, q
    <3>2. Len(pending'[m]) <= MaxQueue[m] /\ Rises(pending'[m]) BY <2>1, <2>2, <2>3, <3>1
    <3>3. Before(ToSet(delivered[m]), ToSet(pending'[m])) BY <2>2, <2>4, <3>1 DEF Before
    <3>4. ToSet(delivered[m]) \subseteq Told' /\ ToSet(pending'[m]) \subseteq Told' BY <1>4, <2>4, <3>1
    <3>5. delivered'[m] = delivered[m] BY <1>2
    <3>6. ASSUME topic'[m] = "none" PROVE delivered[m] = << >> /\ pending'[m] = << >>
      <4>1. topic[m] = "none" BY <1>2, <3>6
      <4>2. m \notin to BY <1>3, <4>1, HubConstants
      <4>3. pending'[m] = q BY <1>3, <2>1, <4>2
      <4> QED BY <3>1, <4>1, <4>3
    <3>7. ToSet(delivered[m])' = ToSet(delivered[m]) /\ ToSet(pending[m])' = ToSet(pending'[m]) BY <3>5 DEF ToSet
    <3>8. Rises(delivered[m])' /\ Rises(pending[m])' BY <3>1, <3>2, <3>5 DEF Rises
    <3>9. Before(ToSet(delivered[m]), ToSet(pending[m]))' BY <3>3, <3>7 DEF Before
    <3> QED BY <3>2, <3>4, <3>5, <3>6, <3>7, <3>8, <3>9 DEF QueueRises
  <2> QED BY <2>3, <2>4, <2>5, <2>6 DEF q
<1>6. jobs' \in Seq(Jobs) /\ ChainsAreKnown'
      /\ ((\E m \in rest : Admits(m, pending[m])) => scheduled')
  <2>1. jobs \in Seq(Jobs) BY <1>1 DEF HubType
  <2>2. CASE \E m \in rest : Admits(m, pending[m])
    <3>1. ScheduleFlush BY <1>2, <2>2
    <3> QED BY <1>1, <1>2, <3>1, ScheduledIs, ChainsStand
  <2>3. CASE ~\E m \in rest : Admits(m, pending[m])
    <3>1. jobs' = jobs BY <1>2, <2>3
    <3> QED BY <1>1, <1>2, <2>1, <2>3, <3>1, ChainsStand
  <2> QED BY <2>2, <2>3
<1>7. ASSUME NEW u \in Topics PROVE retained'[u] \in Seq(Pubs) /\ Rises(retained'[u]) /\ ToSet(retained'[u]) \subseteq Told'
  <2> DEFINE q == retained[u]
  <2>1. q \in Seq(Pubs) /\ Rises(q) /\ ToSet(q) \subseteq Told BY <1>1 DEF LogsRise, HubType
  <2>2. Before(ToSet(q), {n}) BY <1>4, <2>1 DEF Before
  <2>3. retained \in [Topics -> Seq(Pubs)] BY <1>1 DEF HubType
  <2>4. retained'[u] = << >> \/ retained'[u] = q \/ retained'[u] = Logged(q, n) BY <1>2, <2>3
  <2> HIDE DEF q
  <2>5. /\ Logged(q, n) \in Seq(Pubs) /\ ToSet(Logged(q, n)) \subseteq ToSet(q) \cup {n}
        /\ (Rises(q) /\ Before(ToSet(q), {n}) => Rises(Logged(q, n)))
    BY <1>2, <2>1, LoggedIs
  <2>6. CASE retained'[u] = << >> BY <2>6, NothingIn
  <2>7. CASE retained'[u] = q BY <1>4, <2>1, <2>7
  <2>8. CASE retained'[u] = Logged(q, n) BY <1>4, <2>1, <2>2, <2>5, <2>8
  <2> QED BY <2>4, <2>6, <2>7, <2>8
<1>8. LogsRise'
  <2>1. ASSUME NEW u \in Topics PROVE ToSet(retained[u])' = ToSet(retained'[u]) /\ Rises(retained[u])' = Rises(retained'[u])
    BY DEF ToSet, Rises
  <2> QED BY <1>7, <2>1 DEF LogsRise
<1>9. HubType'
  <2>1. pending' \in [Members -> Seq(Pubs)]
    <3>1. pending' = [m \in Members |-> pending'[m]] BY <1>2
    <3> QED BY <1>5, <3>1
  <2>2. retained' \in [Topics -> Seq(Pubs)]
    <3>1. retained' = [u \in Topics |-> retained'[u]] BY <1>1, <1>2 DEF HubType
    <3> QED BY <1>7, <3>1
  <2>3. topic' \in [Members -> Topics \cup {"none", "closed"}] BY <1>1, <1>2 DEF HubType
  <2>4. published' \in Nat /\ gapped' \in BOOLEAN BY <1>1, <1>2, PubsAreInts DEF HubType
  <2> QED BY <1>1, <1>2, <1>6, <2>1, <2>2, <2>3, <2>4 DEF HubType
<1>10. \A m \in Members : m \in Going' => m \in Going /\ m \notin gone /\ topic'[m] = topic[m]
  <2> SUFFICES ASSUME NEW m \in Members, m \in Going' PROVE m \in Going /\ m \notin gone /\ topic'[m] = topic[m] OBVIOUS
  <2>1. topic'[m] \in Topics BY DEF Going, Live
  <2>2. topic'[m] # "closed" BY <2>1, HubConstants
  <2>3. m \notin gone /\ topic'[m] = topic[m] BY <1>2, <2>2
  <2> QED BY <2>1, <2>3 DEF Going, Live
<1>11. NoBacklogIsStranded'
  <2>1. CASE \E m \in rest : Admits(m, pending[m])
    <3>1. scheduled' BY <1>6, <2>1
    <3> QED BY <3>1 DEF NoBacklogIsStranded
  <2>2. CASE ~\E m \in rest : Admits(m, pending[m])
    <3>1. UNCHANGED << scheduled, hubTimer, jobs, taken, draining, stalled >> BY <1>2, <2>2
    <3>2. ASSUME NEW m \in Queued' PROVE m \in Queued
      <4>1. m \in Members /\ m \in Going' /\ pending'[m] # << >> BY DEF Queued, Going
      <4>2. pending'[m] = pending[m] BY <1>5, <2>2, <4>1
      <4> QED BY <1>10, <4>1, <4>2 DEF Queued, Going
    <3> QED BY <1>1, <3>1, <3>2 DEF NoBacklogIsStranded
  <2> QED BY <2>1, <2>2
<1>12. Seamless'
  <2> SUFFICES ASSUME Pristine'
               PROVE  /\ ~misframed' /\ ToSet(memo)' \subseteq Told' /\ ~Forks(Trail')
                      /\ \A m \in Going' : pending'[m] # << >> => \A p \in Trail' : p[1] # pending'[m][Len(pending'[m])]
                      /\ \A m, k \in Going' : ToSet(pending'[m]) \cap ToSet(pending'[k]) # {} => topic'[m] = topic'[k]
    BY DEF Seamless, Forks, ToSet
  <2>0. Pristine /\ ~\E m \in to : ~Admits(m, pending[m]) /\ Policy[m] = "drop-newest" BY <1>2 DEF Pristine
  <2>1. /\ ~misframed /\ ToSet(memo) \subseteq Told /\ ~Forks(Trail)
        /\ \A m \in Going : pending[m] # << >> => \A p \in Trail : p[1] # pending[m][Len(pending[m])]
        /\ \A m, k \in Going : ToSet(pending[m]) \cap ToSet(pending[k]) # {} => topic[m] = topic[k]
    BY <1>1, <2>0 DEF Seamless
  <2>2. ASSUME NEW m \in Going', pending'[m] # << >>
        PROVE  \/ Gets(m)
               \/ m \notin to /\ pending'[m] = pending[m]
    <3>1. m \in Members /\ m \notin gone BY <1>10 DEF Going
    <3>2. CASE m \in to /\ ~Admits(m, pending[m])
      <4>1. ~Disconnects(m, pending[m]) BY <3>1, <3>2 DEF gone
      <4>2. MaxQueue[m] \in Nat /\ Len(pending[m]) \in Nat BY <1>3, <3>1, HubConstants
      <4>3. Len(pending[m]) >= MaxQueue[m] BY <3>2, <4>2 DEF Admits
      <4>4. Policy[m] = "drop-oldest" BY <2>0, <3>1, <3>2, <4>1, <4>3, HubConstants DEF Disconnects
      <4>5. MaxQueue[m] = 0 BY <3>2, <4>2, <4>4 DEF Admits
      <4>6. Len(pending[m]) = 0 BY <1>3, <3>1, <4>2, <4>5 DEF QueueRises
      <4>7. pending[m] = << >> BY <1>3, <3>1, <4>6
      <4>8. pending'[m] = pending[m] BY <1>5, <3>1, <3>2
      <4> QED BY <2>2, <4>7, <4>8
    <3>3. CASE m \in to /\ Admits(m, pending[m]) BY <3>1, <3>3 DEF rest
    <3>4. CASE m \notin to
      <4>1. ~Gets(m) BY <1>3, <3>4
      <4> QED BY <1>5, <3>1, <3>4, <4>1
    <3> QED BY <3>2, <3>3, <3>4
  <2>3. \A m \in Going : m \in Members /\ ToSet(pending[m]) \subseteq Told BY <1>3 DEF Going, QueueRises
  <2>4. ASSUME NEW m \in Going, pending[m] # << >>
        PROVE  pending[m][Len(pending[m])] \in ToSet(pending[m]) /\ pending[m][Len(pending[m])] \in Told
    <3>1. pending[m] \in Seq(Pubs) /\ Len(pending[m]) \in 1..Len(pending[m]) BY <1>3, <2>3, <2>4
    <3>2. pending[m][Len(pending[m])] \in ToSet(pending[m]) BY <3>1, PlacesAre
    <3> QED BY <2>3, <3>2
  <2>5. \A p \in Trail : p[1] \in Told
    <3> SUFFICES ASSUME NEW p \in Trail PROVE p[1] \in Told OBVIOUS
    <3>1. CASE p \in Steps(memo)
      <4>1. memo \in Seq(Pubs) BY <1>1 DEF HubType
      <4>2. p[1] \in ToSet(memo) BY <3>1, <4>1, StepsStartIn
      <4> QED BY <2>1, <4>2
    <3>2. ASSUME NEW m \in Going, p \in Steps(pending[m]) PROVE p[1] \in Told
      <4>1. pending[m] \in Seq(Pubs) BY <1>3, <2>3
      <4>2. p[1] \in ToSet(pending[m]) BY <3>2, <4>1, StepsStartIn
      <4> QED BY <2>3, <4>2
    <3> QED BY <3>1, <3>2 DEF Trail
  <2>6. ASSUME NEW p \in Trail'
        PROVE  p \in Trail \/ \E m \in Going : /\ Gets(m) /\ pending[m] # << >> /\ p = << pending[m][Len(pending[m])], n >>
    <3>1. Trail' = Steps(memo) \cup UNION {Steps(pending'[m]) : m \in Going'} BY <1>2 DEF Trail, Steps
    <3>2. CASE p \in Steps(memo) BY <3>2 DEF Trail
    <3>3. ASSUME NEW m \in Going', p \in Steps(pending'[m])
          PROVE  p \in Trail \/ \E k \in Going : /\ Gets(k) /\ pending[k] # << >> /\ p = << pending[k][Len(pending[k])], n >>
      <4>1. m \in Members /\ m \in Going BY <1>10 DEF Going
      <4>2. CASE Gets(m)
        <5>1. p \in Steps(pending[m]) \/ (pending[m] # << >> /\ p = << pending[m][Len(pending[m])], n >>)
          BY <1>5, <3>3, <4>1, <4>2
        <5> QED BY <4>1, <4>2, <5>1 DEF Trail
      <4>3. CASE ~Gets(m)
        <5>1. pending'[m] = pending[m] BY <1>5, <4>1, <4>3
        <5> QED BY <3>3, <4>1, <5>1 DEF Trail
      <4> QED BY <4>2, <4>3
    <3> QED BY <3>1, <3>2, <3>3
  <2> HIDE DEF Gets
  <2>7. ~Forks(Trail')
    <3> SUFFICES ASSUME NEW p \in Trail', NEW q \in Trail', p[1] = q[1] PROVE p[2] = q[2] BY DEF Forks
    <3> DEFINE Late(x) == \E m \in Going : /\ Gets(m) /\ pending[m] # << >> /\ x = << pending[m][Len(pending[m])], n >>
    <3>1. (p \in Trail \/ Late(p)) /\ (q \in Trail \/ Late(q)) BY <2>6
    <3>2. CASE p \in Trail /\ q \in Trail BY <2>1, <3>2 DEF Forks
    <3>3. CASE Late(p) /\ Late(q) BY <3>3
    <3>4. ASSUME NEW a \in Trail, NEW b, Late(b) PROVE a[1] # b[1]
      <4>1. PICK m \in Going : pending[m] # << >> /\ b = << pending[m][Len(pending[m])], n >> BY <3>4
      <4> QED BY <2>1, <4>1
    <3> HIDE DEF Late
    <3> QED BY <3>1, <3>2, <3>3, <3>4
  <2>8. ASSUME NEW m \in Going', pending'[m] # << >>, NEW p \in Trail' PROVE p[1] # pending'[m][Len(pending'[m])]
    <3>1. m \in Members /\ m \in Going BY <1>10 DEF Going
    <3>2. p[1] \in Told
      <4>1. CASE p \in Trail BY <2>5, <4>1
      <4>2. ASSUME NEW k \in Going, pending[k] # << >>, p = << pending[k][Len(pending[k])], n >> PROVE p[1] \in Told
        BY <2>4, <4>2
      <4> QED BY <2>6, <4>1, <4>2
    <3>3. CASE Gets(m)
      <4>1. pending'[m][Len(pending'[m])] = n BY <1>5, <3>1, <3>3 DEF Gets
      <4> QED BY <1>4, <3>2, <4>1
    <3>4. CASE m \notin to /\ pending'[m] = pending[m]
      <4>1. CASE p \in Trail BY <2>1, <2>8, <3>1, <3>4, <4>1
      <4>2. ASSUME NEW k \in Going, Gets(k), pending[k] # << >>, p = << pending[k][Len(pending[k])], n >>,
                   p[1] = pending[m][Len(pending[m])]
            PROVE  FALSE
        <5>1. pending[m] # << >> BY <2>8, <3>4
        <5>2. pending[k][Len(pending[k])] \in ToSet(pending[m]) \cap ToSet(pending[k]) BY <2>4, <3>1, <4>2, <5>1
        <5>3. topic[m] = topic[k] BY <2>1, <3>1, <5>2
        <5>4. k \in to BY <1>3, <4>2 DEF Gets
        <5>5. topic[k] = t BY <1>3, <2>3, <5>4
        <5> QED BY <1>3, <3>1, <3>4, <5>3, <5>5
      <4> QED BY <2>6, <3>4, <4>1, <4>2
    <3> QED BY <2>2, <2>8, <3>3, <3>4
  <2>9. ASSUME NEW m \in Going', NEW k \in Going', NEW x, x \in ToSet(pending'[m]), x \in ToSet(pending'[k])
        PROVE  topic'[m] = topic'[k]
    <3>1. /\ m \in Members /\ m \in Going /\ topic'[m] = topic[m]
          /\ k \in Members /\ k \in Going /\ topic'[k] = topic[k]
      BY <1>10 DEF Going
    <3>2. CASE x # n
      <4>1. x \in ToSet(pending[m]) /\ x \in ToSet(pending[k]) BY <1>5, <2>9, <3>1, <3>2
      <4> QED BY <2>1, <3>1, <4>1
    <3>3. CASE x = n
      <4>1. n \notin ToSet(pending[m]) /\ n \notin ToSet(pending[k]) BY <1>4, <2>3, <3>1
      <4>2. pending'[m] # pending[m] /\ pending'[k] # pending[k] BY <2>9, <3>3, <4>1
      <4>3. Gets(m) /\ Gets(k) BY <1>5, <3>1, <4>2 DEF Gets
      <4>4. m \in to /\ k \in to BY <1>3, <4>3 DEF Gets
      <4> QED BY <1>3, <3>1, <4>4
    <3> QED BY <3>2, <3>3
  <2>10. ~misframed' /\ ToSet(memo)' \subseteq Told'
    <3>1. ToSet(memo)' = ToSet(memo) BY <1>2 DEF ToSet
    <3> QED BY <1>2, <1>4, <2>1, <3>1
  <2> QED BY <2>7, <2>8, <2>9, <2>10
<1>13. QueuesRise' BY <1>5 DEF QueuesRise
<1> QED BY <1>6, <1>8, <1>9, <1>11, <1>12, <1>13 DEF HubInv

-----------------------------------------------------------------------------
(* Nobody's queue changes, and who changes topics has left.                *)
LEMMA LeavingKeeps ==
  ASSUME HubType, QueuesRise, Seamless,
         UNCHANGED << pending, delivered, memo, misframed, gapped, published >>,
         \A m \in Members : topic'[m] = topic[m] \/ topic'[m] = "closed"
  PROVE  /\ QueuesRise' /\ Seamless' /\ Queued' \subseteq Queued
         /\ \A m \in Members : pending'[m] = pending[m] /\ (m \in Queued' => topic'[m] = topic[m])
<1>1. ASSUME NEW m \in Members, topic'[m] \in Topics PROVE topic'[m] = topic[m]
  <2>1. topic'[m] # "closed" BY <1>1, HubConstants
  <2> QED BY <2>1
<1>2. Going' \subseteq Going /\ \A m \in Going' : topic'[m] = topic[m] BY <1>1 DEF Going, Live
<1>3. QueuesRise'
  <2> SUFFICES ASSUME NEW m \in Members PROVE QueueRises(m)' BY DEF QueuesRise
  <2>1. QueueRises(m) BY DEF QueuesRise
  <2>2. topic'[m] = "none" => topic[m] = "none" OBVIOUS
  <2> QED BY <2>1, <2>2 DEF QueueRises, Rises, Before, ToSet, Told
<1>4. Queued' \subseteq Queued
  <2> SUFFICES ASSUME NEW m \in Queued' PROVE m \in Queued OBVIOUS
  <2>1. m \in Members /\ topic'[m] \in Topics /\ pending'[m] # << >> BY DEF Queued, Live
  <2> QED BY <1>1, <2>1 DEF Queued, Live
<1>5. \A m \in Members : pending'[m] = pending[m] /\ (m \in Queued' => topic'[m] = topic[m])
  BY <1>1 DEF Queued, Live
<1>6. Seamless'
  <2> SUFFICES ASSUME Pristine' PROVE Seamless' BY DEF Seamless
  <2>0. Pristine BY DEF Pristine
  <2>1. /\ ~misframed /\ ToSet(memo) \subseteq Told /\ ~Forks(Trail)
        /\ \A m \in Going : pending[m] # << >> => \A p \in Trail : p[1] # pending[m][Len(pending[m])]
        /\ \A m, k \in Going : ToSet(pending[m]) \cap ToSet(pending[k]) # {} => topic[m] = topic[k]
    BY <2>0 DEF Seamless
  <2>2. Trail' \subseteq Trail BY <1>2 DEF Trail, Steps
  <2>3. ~Forks(Trail') BY <2>1, <2>2 DEF Forks
  <2>4. ToSet(memo)' \subseteq Told' BY <2>1 DEF Told, ToSet
  <2>5. \A m \in Going' : pending'[m] # << >> => \A p \in Trail' : p[1] # pending'[m][Len(pending'[m])]
    BY <1>2, <2>1, <2>2
  <2>6. \A m, k \in Going' : ToSet(pending'[m]) \cap ToSet(pending'[k]) # {} => topic'[m] = topic'[k]
    BY <1>2, <2>1
  <2>7. ~misframed' BY <2>1
  <2>8. Forks(Trail)' = Forks(Trail') /\ \A m : ToSet(pending[m])' = ToSet(pending'[m]) BY DEF Forks, ToSet
  <2> QED BY <2>3, <2>4, <2>5, <2>6, <2>7, <2>8 DEF Seamless
<1> QED BY <1>3, <1>4, <1>5, <1>6

LEMMA UnsubscribeKeeps == ASSUME HubInv, NEW m \in Members, Unsubscribe(m) PROVE HubInv'
<1>1. /\ HubType /\ QueuesRise /\ LogsRise /\ ChainsAreKnown /\ NoBacklogIsStranded /\ Seamless BY DEF HubInv
<1>2. /\ topic' = [topic EXCEPT ![m] = "closed"] /\ retained' = LogAfter({m})
      /\ UNCHANGED << pending, outstanding, taken, published, scheduled, hubTimer, jobs, draining, memo,
                      delivered, misframed, gapped, stalled >>
  BY DEF Unsubscribe
<1>3. topic' \in [Members -> Topics \cup {"none", "closed"}]
      /\ \A k \in Members : topic'[k] = topic[k] \/ topic'[k] = "closed"
  BY <1>1, <1>2 DEF HubType
<1>4. QueuesRise' /\ Seamless' /\ Queued' \subseteq Queued BY <1>1, <1>2, <1>3, LeavingKeeps
<1>5. \A t \in Topics : retained'[t] = retained[t] \/ retained'[t] = << >> BY <1>2 DEF LogAfter
<1>6. retained' \in [Topics -> Seq(Pubs)]
  <2>1. retained \in [Topics -> Seq(Pubs)] BY <1>1 DEF HubType
  <2>2. retained' = [t \in Topics |-> retained'[t]] BY <1>2 DEF LogAfter
  <2>3. \A t \in Topics : retained'[t] \in Seq(Pubs) BY <1>5, <2>1, NothingIn
  <2> HIDE DEF LogAfter
  <2> QED BY <2>2, <2>3
<1>7. LogsRise'
  <2> SUFFICES ASSUME NEW t \in Topics PROVE Rises(retained[t])' /\ ToSet(retained[t])' \subseteq Told' BY DEF LogsRise
  <2>1. Told' = Told /\ Rises(retained[t])' = Rises(retained'[t]) /\ ToSet(retained[t])' = ToSet(retained'[t])
    BY <1>2 DEF Told, Rises, ToSet
  <2>2. Rises(retained[t]) /\ ToSet(retained[t]) \subseteq Told BY <1>1 DEF LogsRise
  <2>3. CASE retained'[t] = retained[t] BY <2>1, <2>2, <2>3
  <2>4. CASE retained'[t] = << >> BY <2>1, <2>4, NothingIn
  <2> QED BY <1>5, <2>3, <2>4
<1>8. HubType' BY <1>1, <1>2, <1>3, <1>6 DEF HubType
<1>9. NoBacklogIsStranded' BY <1>1, <1>2, <1>4 DEF NoBacklogIsStranded
<1>10. ChainsAreKnown' BY <1>1, <1>2, ChainsStand
<1> QED BY <1>4, <1>7, <1>8, <1>9, <1>10 DEF HubInv

LEMMA CloseHubKeeps == ASSUME HubInv, CloseHub PROVE HubInv'
<1>1. /\ HubType /\ QueuesRise /\ LogsRise /\ ChainsAreKnown /\ NoBacklogIsStranded /\ Seamless BY DEF HubInv
<1>2. /\ topic' = [m \in Members |-> IF Live(m) THEN "closed" ELSE topic[m]]
      /\ retained' = [t \in Topics |-> << >>]
      /\ UNCHANGED << pending, outstanding, taken, published, scheduled, jobs, draining, memo,
                      delivered, misframed, gapped, stalled >>
  BY DEF CloseHub
<1>3. topic' \in [Members -> Topics \cup {"none", "closed"}]
      /\ \A k \in Members : topic'[k] = topic[k] \/ topic'[k] = "closed"
  BY <1>1, <1>2 DEF HubType
<1>4. QueuesRise' /\ Seamless' BY <1>1, <1>2, <1>3, LeavingKeeps
<1>5. retained' \in [Topics -> Seq(Pubs)] BY <1>2, NothingIn
<1>6. LogsRise'
  <2> SUFFICES ASSUME NEW t \in Topics PROVE Rises(retained[t])' /\ ToSet(retained[t])' \subseteq Told' BY DEF LogsRise
  <2>1. Rises(retained[t])' = Rises(retained'[t]) /\ ToSet(retained[t])' = ToSet(retained'[t]) BY DEF Rises, ToSet
  <2>2. retained'[t] = << >> BY <1>2
  <2> QED BY <2>1, <2>2, NothingIn
<1>7. HubType' BY <1>1, <1>2, <1>3, <1>5 DEF HubType
<1>8. NoBacklogIsStranded'
  <2>1. \A m \in Members : topic'[m] \notin Topics BY <1>2, HubConstants DEF Live
  <2> QED BY <2>1 DEF NoBacklogIsStranded, Queued, Live
<1>9. ChainsAreKnown' BY <1>1, <1>2, ChainsStand
<1> QED BY <1>4, <1>6, <1>7, <1>8, <1>9 DEF HubInv

(* The retained log goes through a queue that was empty.                   *)
Replayed(m, log) ==
  LET q[i \in 0..Len(log)] == IF i = 0 THEN << >> ELSE Enqueued(m, q[i - 1], log[i])
  IN  q[Len(log)]

LEMMA ReplayedIs ==
  ASSUME NEW m \in Members, NEW log \in Seq(Pubs), Rises(log)
  PROVE  /\ Replayed(m, log) \in Seq(Pubs) /\ Len(Replayed(m, log)) <= MaxQueue[m]
         /\ Rises(Replayed(m, log)) /\ ToSet(Replayed(m, log)) \subseteq ToSet(log)
         /\ (log = << >> => Replayed(m, log) = << >>)
<1> DEFINE n == Len(log)
           V == {s \in Seq(Pubs) : Len(s) <= MaxQueue[m]}
           G == [p \in (1..n) \X V |-> Enqueued(m, p[2], log[p[1]])]
           Step(f) == [i \in 0..Len(log) |-> IF i = 0 THEN << >> ELSE Enqueued(m, f[i - 1], log[i])]
           q == CHOOSE f : f = Step(f)
<1>0. n \in Nat /\ MaxQueue[m] \in Nat /\ \A i \in 1..n : log[i] \in Pubs BY HubConstants
<1>1. << >> \in V BY <1>0, NothingIn
<1>2. ASSUME NEW s \in V, NEW x \in Pubs
      PROVE  LET e == Enqueued(m, s, x)
             IN  e \in V /\ ToSet(e) \subseteq ToSet(s) \cup {x} /\ (Rises(s) /\ Before(ToSet(s), {x}) => Rises(e))
  <2>1. s \in Seq(Pubs) /\ Len(s) <= MaxQueue[m] OBVIOUS
  <2>2. /\ Enqueued(m, s, x) \in Seq(Pubs) /\ Len(Enqueued(m, s, x)) <= MaxQueue[m]
        /\ ToSet(Enqueued(m, s, x)) \subseteq ToSet(s) \cup {x}
        /\ (Rises(s) /\ Before(ToSet(s), {x}) => Rises(Enqueued(m, s, x)))
    BY <2>1, EnqueuedIs
  <2> QED BY <2>2
<1> HIDE DEF V
<1>3. G \in [(1..n) \X V -> V] BY <1>0, <1>2
<1>4. PICK f : Recursion(f, n, V, << >>, G)
  <2> HIDE DEF G, n
  <2> QED BY <1>0, <1>1, <1>3, StepwiseExists
<1>5. f \in [0..n -> V] /\ f[0] = << >> /\ \A i \in 1..n : f[i] = G[<< i, f[i - 1] >>]
  <2> HIDE DEF G, n
  <2> QED BY <1>4 DEF Recursion
<1>6. ASSUME NEW i \in 1..n PROVE f[i] = Enqueued(m, f[i - 1], log[i])
  <2>1. i - 1 \in 0..n BY <1>0
  <2>2. f[i - 1] \in V BY <1>5, <2>1
  <2>3. << i, f[i - 1] >> \in (1..n) \X V BY <2>2
  <2> QED BY <1>5, <2>3
<1> HIDE DEF G
<1>7. f = Step(f)
  <2>1. \A i \in 0..n : i = 0 \/ i \in 1..n BY <1>0
  <2> QED BY <1>5, <1>6, <2>1
<1>8. q = Step(q)
  <2> HIDE DEF Step
  <2> QED BY <1>7
<1>9. Replayed(m, log) = q[Len(log)] BY DEF Replayed
<1> HIDE DEF q
<1>10. ASSUME NEW i \in 1..n PROVE q[i] = Enqueued(m, q[i - 1], log[i])
  <2>1. i \in 0..n /\ i # 0 BY <1>0
  <2> QED BY <1>8, <2>1
<1>11. q[0] = << >> BY <1>0, <1>8
<1> HIDE DEF Step
<1> DEFINE Good(i) == q[i] \in V /\ Rises(q[i]) /\ \A x \in ToSet(q[i]) : \E j \in 1..i : x = log[j]
<1>12. \A i \in 0..n : Good(i)
  <2> DEFINE T == {i \in 0..n : Good(i)}
  <2>1. 0 \in T
    <3>1. q[0] \in V /\ Rises(q[0]) /\ ToSet(q[0]) = {} BY <1>1, <1>11, NothingIn
    <3> QED BY <1>0, <3>1
  <2>2. ASSUME NEW i \in 1..n, i - 1 \in T PROVE i \in T
    <3>1. i \in 0..n /\ log[i] \in Pubs /\ \A j \in 1..(i - 1) : j \in 1..i /\ j \in 1..n /\ j < i BY <1>0
    <3>2. Good(i - 1) BY <2>2
    <3>3. \A x \in ToSet(q[i - 1]) : \E j \in 1..(i - 1) : x = log[j] BY <3>2
    <3>4. Before(ToSet(q[i - 1]), {log[i]}) BY <3>1, <3>3 DEF Before, Rises
    <3>5. q[i] = Enqueued(m, q[i - 1], log[i]) BY <1>10
    <3>6. q[i] \in V /\ ToSet(q[i]) \subseteq ToSet(q[i - 1]) \cup {log[i]} /\ Rises(q[i]) BY <1>2, <3>1, <3>2, <3>4, <3>5
    <3>7. \A x \in ToSet(q[i]) : \E j \in 1..i : x = log[j]
      <4> TAKE x \in ToSet(q[i])
      <4>1. CASE x = log[i] BY <1>0, <4>1
      <4>2. CASE x \in ToSet(q[i - 1]) BY <3>1, <3>3, <4>2
      <4> QED BY <3>6, <4>1, <4>2
    <3> QED BY <3>1, <3>6, <3>7
  <2>3. \A i \in 0..n : i \in T
    <3> HIDE DEF T, n
    <3> QED BY <1>0, <2>1, <2>2, UpTo
  <2> QED BY <2>3
<1>13. n \in 0..n BY <1>0
<1>14. q[n] \in V /\ Rises(q[n]) /\ \A x \in ToSet(q[n]) : \E j \in 1..n : x = log[j] BY <1>12, <1>13
<1>15. ToSet(q[n]) \subseteq ToSet(log) BY <1>14, PlacesAre
<1>16. log = << >> => q[n] = << >> BY <1>11
<1> QED BY <1>9, <1>14, <1>15, <1>16 DEF V

LEMMA SubscribeKeeps == ASSUME HubInv, NEW m \in Members, NEW t \in Topics, Subscribe(m, t) PROVE HubInv'
<1> DEFINE log == retained[t]
           r == Replayed(m, log)
           cut == Policy[m] = "disconnect" /\ Len(log) > MaxQueue[m]
<1>1. /\ HubType /\ QueuesRise /\ LogsRise /\ ChainsAreKnown /\ NoBacklogIsStranded /\ Seamless BY DEF HubInv
<1>2. /\ topic[m] = "none"
      /\ topic' = [topic EXCEPT ![m] = IF cut THEN "closed" ELSE t]
      /\ pending' = [pending EXCEPT ![m] = r]
      /\ retained' = IF cut /\ Audience(t) = {} THEN [retained EXCEPT ![t] = << >>] ELSE retained
      /\ gapped' = (gapped \/ log # << >>)
      /\ IF log # << >> THEN ScheduleFlush ELSE UNCHANGED << scheduled, hubTimer, jobs >>
      /\ UNCHANGED << outstanding, taken, published, draining, memo, delivered, misframed, stalled >>
  BY DEF Subscribe, Replayed
<1>3. log \in Seq(Pubs) /\ Rises(log) /\ ToSet(log) \subseteq Told BY <1>1 DEF HubType, LogsRise
<1>4. r \in Seq(Pubs) /\ Len(r) <= MaxQueue[m] /\ Rises(r) /\ ToSet(r) \subseteq ToSet(log) /\ (log = << >> => r = << >>)
  <2> HIDE DEF log
  <2> QED BY <1>3, ReplayedIs
<1>5. delivered[m] = << >> /\ pending[m] = << >> BY <1>1, <1>2 DEF QueuesRise, QueueRises
<1>6. /\ pending \in [Members -> Seq(Pubs)] /\ topic \in [Members -> Topics \cup {"none", "closed"}]
      /\ retained \in [Topics -> Seq(Pubs)]
  BY <1>1 DEF HubType
<1> HIDE DEF r
<1>7. pending'[m] = r /\ \A k \in Members : k # m => pending'[k] = pending[k] /\ topic'[k] = topic[k] BY <1>2, <1>6
<1>8. topic'[m] # "none" /\ topic'[m] = IF cut THEN "closed" ELSE t BY <1>2, <1>6, HubConstants
<1>9. QueuesRise'
  <2> SUFFICES ASSUME NEW k \in Members PROVE QueueRises(k)' BY DEF QueuesRise
  <2>1. QueueRises(k) BY <1>1 DEF QueuesRise
  <2>2. CASE k = m
    <3>1. Rises(delivered[m])' /\ ToSet(delivered[m])' = {}
      <4>1. delivered'[m] = << >> BY <1>2, <1>5
      <4>2. Rises(delivered[m])' = Rises(delivered'[m]) /\ ToSet(delivered[m])' = ToSet(delivered'[m]) BY DEF Rises, ToSet
      <4> QED BY <4>1, <4>2, NothingIn
    <3>2. Rises(pending[m])' /\ ToSet(pending[m])' \subseteq Told'
      <4>1. Rises(pending[m])' = Rises(pending'[m]) /\ ToSet(pending[m])' = ToSet(pending'[m]) /\ Told' = Told
        BY <1>2 DEF Rises, ToSet, Told
      <4> QED BY <1>3, <1>4, <1>7, <4>1
    <3> QED BY <1>4, <1>7, <1>8, <2>2, <3>1, <3>2 DEF QueueRises, Before
  <2>3. CASE k # m
    <3>1. pending'[k] = pending[k] /\ topic'[k] = topic[k] BY <1>7, <2>3
    <3> QED BY <1>2, <2>1, <3>1 DEF QueueRises, Rises, Before, ToSet, Told
  <2> QED BY <2>2, <2>3
<1>10. LogsRise' /\ retained' \in [Topics -> Seq(Pubs)]
  <2>1. retained' \in [Topics -> Seq(Pubs)] BY <1>2, <1>6, NothingIn
  <2> SUFFICES ASSUME NEW u \in Topics PROVE Rises(retained[u])' /\ ToSet(retained[u])' \subseteq Told' BY <2>1 DEF LogsRise
  <2>2. Told' = Told /\ Rises(retained[u])' = Rises(retained'[u]) /\ ToSet(retained[u])' = ToSet(retained'[u])
    BY <1>2 DEF Told, Rises, ToSet
  <2>3. Rises(retained[u]) /\ ToSet(retained[u]) \subseteq Told BY <1>1 DEF LogsRise
  <2>4. retained'[u] = retained[u] \/ retained'[u] = << >> BY <1>2, <1>6
  <2> QED BY <2>2, <2>3, <2>4, NothingIn
<1>11. jobs' \in Seq(Jobs) /\ ChainsAreKnown' /\ (log # << >> => scheduled')
  <2>1. jobs \in Seq(Jobs) BY <1>1 DEF HubType
  <2>2. CASE log # << >> BY <1>1, <1>2, <2>2, ScheduledIs, ChainsStand
  <2>3. CASE log = << >>
    <3>1. jobs' = jobs BY <1>2, <2>3
    <3> QED BY <1>1, <1>2, <2>1, <2>3, <3>1, ChainsStand
  <2> QED BY <2>2, <2>3
<1>12. HubType'
  <2>1. pending' \in [Members -> Seq(Pubs)] BY <1>2, <1>4, <1>6
  <2>2. topic' \in [Members -> Topics \cup {"none", "closed"}] BY <1>2, <1>6
  <2>3. gapped' \in BOOLEAN BY <1>1, <1>2 DEF HubType
  <2> QED BY <1>1, <1>2, <1>10, <1>11, <2>1, <2>2, <2>3 DEF HubType
<1>13. NoBacklogIsStranded'
  <2>1. CASE log # << >> BY <1>11, <2>1 DEF NoBacklogIsStranded
  <2>2. CASE log = << >>
    <3>1. UNCHANGED << scheduled, hubTimer, jobs, taken, draining, stalled >> BY <1>2, <2>2
    <3>2. ASSUME NEW k \in Queued' PROVE k \in Queued
      <4>1. k \in Members /\ topic'[k] \in Topics /\ pending'[k] # << >> BY DEF Queued, Live
      <4>2. k # m BY <1>4, <1>7, <2>2, <4>1
      <4> QED BY <1>7, <4>1, <4>2 DEF Queued, Live
    <3> QED BY <1>1, <3>1, <3>2 DEF NoBacklogIsStranded
  <2> QED BY <2>1, <2>2
<1>14. Seamless'
  <2> SUFFICES ASSUME Pristine' PROVE Seamless' BY DEF Seamless
  <2>0. Pristine /\ log = << >> BY <1>2 DEF Pristine
  <2>1. /\ ~misframed /\ ToSet(memo) \subseteq Told /\ ~Forks(Trail)
        /\ \A k \in Going : pending[k] # << >> => \A p \in Trail : p[1] # pending[k][Len(pending[k])]
        /\ \A k, j \in Going : ToSet(pending[k]) \cap ToSet(pending[j]) # {} => topic[k] = topic[j]
    BY <1>1, <2>0 DEF Seamless
  <2>2. pending'[m] = << >> BY <1>4, <1>7, <2>0
  <2>3. ASSUME NEW k \in Going', k # m PROVE k \in Going /\ pending'[k] = pending[k] /\ topic'[k] = topic[k]
    <3>1. k \in Members BY DEF Going
    <3> QED BY <1>7, <2>3, <3>1 DEF Going, Live
  <2>4. Trail' \subseteq Trail
    <3>1. Trail' = Steps(memo) \cup UNION {Steps(pending'[k]) : k \in Going'} BY <1>2 DEF Trail, Steps
    <3>2. ASSUME NEW k \in Going' PROVE Steps(pending'[k]) \subseteq Trail
      <4>1. CASE k = m BY <2>2, <4>1, NothingIn
      <4>2. CASE k # m BY <2>3, <4>2 DEF Trail
      <4> QED BY <4>1, <4>2
    <3> QED BY <3>1, <3>2 DEF Trail
  <2>5. ~Forks(Trail') BY <2>1, <2>4 DEF Forks
  <2>6. ToSet(memo)' \subseteq Told' /\ ~misframed' BY <1>2, <2>1 DEF Told, ToSet
  <2>7. ASSUME NEW k \in Going', pending'[k] # << >>, NEW p \in Trail' PROVE p[1] # pending'[k][Len(pending'[k])]
    <3>1. k # m BY <2>2, <2>7
    <3> QED BY <2>1, <2>3, <2>4, <2>7, <3>1
  <2>8. ASSUME NEW k \in Going', NEW j \in Going', ToSet(pending'[k]) \cap ToSet(pending'[j]) # {}
        PROVE  topic'[k] = topic'[j]
    <3>1. k # m /\ j # m BY <2>2, <2>8, NothingIn
    <3> QED BY <2>1, <2>3, <2>8, <3>1
  <2>9. Forks(Trail)' = Forks(Trail') /\ \A k : ToSet(pending[k])' = ToSet(pending'[k]) BY DEF Forks, ToSet
  <2> QED BY <2>5, <2>6, <2>7, <2>8, <2>9 DEF Seamless
<1> QED BY <1>9, <1>10, <1>11, <1>12, <1>13, <1>14 DEF HubInv

-----------------------------------------------------------------------------
(* A flush takes each subscriber of a set once, in some order.             *)
LEMMA OrderIs ==
  ASSUME NEW U, U \subseteq Members, NEW order \in SetToSeqs(U)
  PROVE  order \in Seq(Members) /\ ToSet(order) = U
<1> DEFINE n == Cardinality(U)
<1>1. IsFiniteSet(U) /\ n \in Nat BY HubConstants, FS_Subset, FS_CardinalityType
<1>2. order \in [1..n -> U] /\ \A i, j \in 1..n : i # j => order[i] # order[j] BY DEF SetToSeqs
<1>3. order \in Seq(Members) /\ Len(order) = n BY <1>1, <1>2
<1>4. order \in Injection(1..n, U) BY <1>2 DEF Injection, IsInjective
<1>5. IsFiniteSet(1..n) /\ Cardinality(1..n) = n BY <1>1, FS_Interval
<1> HIDE DEF n
<1>6. order \in Surjection(1..n, U)
  <2>1. Cardinality(1..n) = Cardinality(U) BY <1>5 DEF n
  <2> QED BY <1>1, <1>4, <2>1, FS_Injection
<1>7. \A x : x \in ToSet(order) <=> \E i \in 1..n : order[i] = x BY <1>3, PlacesAre
<1>8. \A x \in U : \E i \in 1..n : order[i] = x BY <1>6 DEF Surjection
<1>9. \A i \in 1..n : order[i] \in U BY <1>2
<1>10. \A x : x \in ToSet(order) <=> x \in U BY <1>7, <1>8, <1>9
<1> QED BY <1>3, <1>10

(* A subscriber with something in flight has a chain.                      *)
LEMMA BusyHasChain ==
  ASSUME HubType, ChainsAreKnown, NEW m \in Members, outstanding[m] # 0
  PROVE  taken[m] # << >>
BY NothingIn DEF ChainsAreKnown, ChainIsKnown

LEMMA FlushedKeeps ==
  ASSUME HubInv, NEW order \in Seq(Members), ToSet(order) \subseteq Going, NEW throws, FlushMembers(order, throws),
         UNCHANGED << topic, retained, published, gapped >>, jobs' \in Seq(Jobs),
         \A m \in Members : /\ Times(jobs', Job("release", m)) = Times(jobs, Job("release", m))
                            /\ Times(jobs', Job("next", m)) = Times(jobs, Job("next", m))
  PROVE  /\ HubType' /\ QueuesRise' /\ LogsRise' /\ Seamless' /\ ChainsAreKnown'
         /\ Queued' \subseteq Queued
         /\ \A m \in Members : IF m \in ToSet(order) THEN taken'[m] # << >> \/ m \in stalled'
                               ELSE taken'[m] = taken[m] /\ (m \in stalled => m \in stalled')
<1> DEFINE to == ToSet(order)
<1>1. HubType /\ QueuesRise /\ LogsRise /\ ChainsAreKnown /\ Seamless BY DEF HubInv
<1>2. Sends(order) BY DEF FlushMembers, Sends, Rest
<1>3. /\ outstanding' = [m \in Members |-> IF m \in to \ throws THEN outstanding[m] + 1 ELSE outstanding[m]]
      /\ taken' = [m \in Members |-> IF m \in to \ throws THEN Append(taken[m], "sent") ELSE taken[m]]
      /\ stalled' = (stalled \ to) \cup (to \cap throws)
  BY DEF FlushMembers
<1> HIDE DEF to
<1>4. /\ pending' \in [Members -> Seq(Pubs)] /\ delivered' \in [Members -> Seq(Pubs)]
      /\ memo' \in Seq(Pubs) /\ misframed' \in BOOLEAN
      /\ QueuesRise' /\ LogsRise' /\ Seamless'
      /\ \A m \in Members : pending'[m] # << >> => pending[m] # << >>
  BY <1>1, <1>2, SendsKeeps
<1>5. "sent" \in ChainSteps /\ "settled" # "sent" /\ "released" # "sent" BY DEF ChainSteps
<1>6. ASSUME NEW m \in Members
      PROVE  /\ outstanding'[m] \in Nat /\ taken'[m] \in Seq(ChainSteps) /\ ChainIsKnown(m)'
             /\ (m \in to \ throws => taken'[m] # << >>) /\ (m \notin to \ throws => taken'[m] = taken[m])
  <2>1. ChainIsKnown(m) /\ outstanding[m] \in Nat /\ taken[m] \in Seq(ChainSteps) BY <1>1 DEF ChainsAreKnown, HubType
  <2>2. /\ \A x : Times(taken[m], x)' = Times(taken'[m], x)
        /\ Times(jobs, Job("release", m))' = Times(jobs', Job("release", m))
        /\ Times(jobs, Job("next", m))' = Times(jobs', Job("next", m))
    BY DEF Times, Occurs, Job
  <2>3. CASE m \in to \ throws
    <3> DEFINE a == Append(taken[m], "sent")
    <3>1. outstanding'[m] = outstanding[m] + 1 /\ taken'[m] = a BY <1>3, <2>3
    <3>2. /\ Times(a, "sent") = Times(taken[m], "sent") + 1
          /\ Times(taken[m], "sent") \in Nat /\ Times(taken[m], "settled") \in Nat /\ Times(taken[m], "released") \in Nat
      BY <2>1, TimesAppended, TimesCount
    <3>3. Times(a, "settled") = Times(taken[m], "settled") /\ Times(a, "released") = Times(taken[m], "released")
      <4>1. /\ Times(a, "settled") = Times(taken[m], "settled") + IF "sent" = "settled" THEN 1 ELSE 0
            /\ Times(a, "released") = Times(taken[m], "released") + IF "sent" = "released" THEN 1 ELSE 0
        BY <2>1, TimesAppended
      <4> HIDE DEF a
      <4> QED BY <3>2, <4>1
    <3>4. a \in Seq(ChainSteps) /\ a # << >> BY <1>5, <2>1
    <3> HIDE DEF a
    <3> QED BY <2>1, <2>2, <2>3, <3>1, <3>2, <3>3, <3>4 DEF ChainIsKnown
  <2>4. CASE m \notin to \ throws
    <3>1. outstanding'[m] = outstanding[m] /\ taken'[m] = taken[m] BY <1>3, <2>4
    <3> QED BY <2>1, <2>2, <2>4, <3>1 DEF ChainIsKnown
  <2> QED BY <2>3, <2>4
<1>7. outstanding' \in [Members -> Nat] /\ taken' \in [Members -> Seq(ChainSteps)]
  <2>1. outstanding' = [m \in Members |-> outstanding'[m]] /\ taken' = [m \in Members |-> taken'[m]] BY <1>3
  <2> QED BY <1>6, <2>1
<1>8. HubType' BY <1>1, <1>4, <1>7 DEF HubType
<1>9. ChainsAreKnown' BY <1>6 DEF ChainsAreKnown
<1>10. Queued' \subseteq Queued BY <1>4 DEF Queued, Live
<1>11. ASSUME NEW m \in Members
       PROVE  IF m \in to THEN taken'[m] # << >> \/ m \in stalled'
              ELSE taken'[m] = taken[m] /\ (m \in stalled => m \in stalled')
  BY <1>3, <1>6
<1> QED BY <1>4, <1>8, <1>9, <1>10, <1>11 DEF to

(* Who is not idle has a chain, so that a flush strands nobody.            *)
LEMMA FlushedAll ==
  ASSUME HubInv, FlushInSomeOrder(Idle), UNCHANGED << topic, retained, published, gapped >>, jobs' \in Seq(Jobs),
         \A m \in Members : /\ Times(jobs', Job("release", m)) = Times(jobs, Job("release", m))
                            /\ Times(jobs', Job("next", m)) = Times(jobs, Job("next", m))
  PROVE  HubInv'
<1>1. Idle \subseteq Members /\ Idle \subseteq Going BY DEF Idle, Queued, Going
<1>2. PICK order \in SetToSeqs(Idle) : \E throws \in SUBSET Idle : FlushMembers(order, throws) BY DEF FlushInSomeOrder
<1>3. PICK throws \in SUBSET Idle : FlushMembers(order, throws) BY <1>2
<1>4. order \in Seq(Members) /\ ToSet(order) = Idle BY <1>1, OrderIs
<1>5. /\ HubType' /\ QueuesRise' /\ LogsRise' /\ Seamless' /\ ChainsAreKnown'
      /\ Queued' \subseteq Queued
      /\ \A m \in Members : IF m \in ToSet(order) THEN taken'[m] # << >> \/ m \in stalled'
                            ELSE taken'[m] = taken[m] /\ (m \in stalled => m \in stalled')
  BY <1>1, <1>3, <1>4, FlushedKeeps
<1>6. NoBacklogIsStranded'
  <2>1. ASSUME NEW m \in Queued' PROVE taken'[m] # << >> \/ m \in stalled'
    <3>1. m \in Queued /\ m \in Members BY <1>5 DEF Queued
    <3>2. CASE m \in Idle BY <1>4, <1>5, <3>1, <3>2
    <3>3. CASE m \notin Idle
      <4>1. outstanding[m] # 0 BY <3>1, <3>3 DEF Idle
      <4>2. taken[m] # << >> BY <3>1, <4>1, BusyHasChain DEF HubInv
      <4> QED BY <1>4, <1>5, <3>1, <3>3, <4>2
    <3> QED BY <3>2, <3>3
  <2> QED BY <2>1 DEF NoBacklogIsStranded
<1> QED BY <1>5, <1>6 DEF HubInv

LEMMA DrainJobKeeps == ASSUME HubInv, DrainJob PROVE HubInv'
<1>1. /\ jobs # << >> /\ Head(jobs).kind = "drain" /\ jobs' = Tail(jobs) /\ FlushInSomeOrder(Idle)
      /\ UNCHANGED << topic, retained, published, gapped >>
  BY DEF DrainJob
<1>2. jobs \in Seq(Jobs) BY DEF HubInv, HubType
<1>3. Tail(jobs) \in Seq(Jobs) BY <1>1, <1>2
<1>4. ASSUME NEW turn \in {"release", "next"}, NEW m \in Members PROVE Times(jobs', Job(turn, m)) = Times(jobs, Job(turn, m))
  <2>1. Head(jobs) # Job(turn, m)
    <3>1. Job(turn, m).kind # "drain" BY DEF Job
    <3> QED BY <1>1, <3>1
  <2>2. Times(jobs, Job(turn, m)) \in Nat BY <1>2, TimesCount
  <2>3. Times(Tail(jobs), Job(turn, m)) = Times(jobs, Job(turn, m)) - (IF Head(jobs) = Job(turn, m) THEN 1 ELSE 0)
    BY <1>1, <1>2, TimesAfter
  <2> QED BY <1>1, <2>1, <2>2, <2>3
<1> QED BY <1>1, <1>3, <1>4, FlushedAll

LEMMA DrainTimerKeeps == ASSUME HubInv, DrainTimer PROVE HubInv'
<1>1. FlushInSomeOrder(Idle) /\ UNCHANGED << topic, retained, published, gapped, jobs >> BY DEF DrainTimer
<1>2. jobs' \in Seq(Jobs) BY <1>1 DEF HubInv, HubType
<1> QED BY <1>1, <1>2, FlushedAll

LEMMA FlushHubKeeps == ASSUME HubInv, FlushHub PROVE HubInv'
<1>1. FlushInSomeOrder(Idle) /\ UNCHANGED << topic, retained, published, gapped, jobs >> BY DEF FlushHub
<1>2. jobs' \in Seq(Jobs) BY <1>1 DEF HubInv, HubType
<1> QED BY <1>1, <1>2, FlushedAll

LEMMA DrainerResumesKeeps == ASSUME HubInv, NEW m \in Members, DrainerResumes(m) PROVE HubInv'
<1>1. /\ HubType /\ QueuesRise /\ LogsRise /\ ChainsAreKnown /\ NoBacklogIsStranded /\ Seamless BY DEF HubInv
<1>2. UNCHANGED << topic, retained, published, scheduled, hubTimer, jobs, gapped >> BY DEF DrainerResumes
<1>3. CASE m \in Queued
  <2>1. (\E throws \in SUBSET {m} : FlushMembers(<< m >>, throws)) /\ draining' = draining BY <1>3 DEF DrainerResumes
  <2>2. PICK throws \in SUBSET {m} : FlushMembers(<< m >>, throws) BY <2>1
  <2>3. << m >> \in Seq(Members) /\ ToSet(<< m >>) = {m}
    <3>1. << m >> \in Seq(Members) /\ Len(<< m >>) = 1 /\ << m >>[1] = m OBVIOUS
    <3>2. \A x : x \in ToSet(<< m >>) <=> \E i \in 1..Len(<< m >>) : << m >>[i] = x BY <3>1, PlacesAre
    <3>3. \A x : x \in ToSet(<< m >>) <=> x = m
      <4> HIDE DEF ToSet
      <4>1. \A i : i \in 1..1 <=> i = 1 OBVIOUS
      <4> QED BY <3>1, <3>2, <4>1
    <3> QED BY <3>1, <3>3
  <2>4. ToSet(<< m >>) \subseteq Going BY <1>3, <2>3 DEF Queued, Going
  <2>5. jobs' \in Seq(Jobs) BY <1>1, <1>2 DEF HubType
  <2>6. /\ HubType' /\ QueuesRise' /\ LogsRise' /\ Seamless' /\ ChainsAreKnown'
        /\ Queued' \subseteq Queued
        /\ \A k \in Members : IF k \in ToSet(<< m >>) THEN taken'[k] # << >> \/ k \in stalled'
                              ELSE taken'[k] = taken[k] /\ (k \in stalled => k \in stalled')
    BY <1>2, <2>2, <2>3, <2>4, <2>5, FlushedKeeps
  <2>7. NoBacklogIsStranded'
    <3>1. ASSUME NEW k \in Queued'
          PROVE  \/ scheduled \/ hubTimer \/ taken'[k] # << >> \/ k \in draining' \cup stalled'
                 \/ \E i \in DOMAIN jobs : jobs[i].kind = "drain"
      <4>1. k \in Queued /\ k \in Members BY <2>6 DEF Queued
      <4>2. CASE k = m BY <2>3, <2>6, <4>1, <4>2
      <4>3. CASE k # m BY <1>1, <2>1, <2>3, <2>6, <4>1, <4>3 DEF NoBacklogIsStranded
      <4> QED BY <4>2, <4>3
    <3> QED BY <1>2, <3>1 DEF NoBacklogIsStranded
  <2> QED BY <2>6, <2>7 DEF HubInv
<1>4. CASE m \notin Queued
  <2>1. /\ draining' = draining \ {m}
        /\ UNCHANGED << pending, delivered, outstanding, taken, memo, misframed, stalled >>
    BY <1>4 DEF DrainerResumes
  <2>2. QueuesRise' /\ Seamless' /\ Queued' \subseteq Queued BY <1>1, <1>2, <2>1, LeavingKeeps
  <2>3. HubType' BY <1>1, <1>2, <2>1 DEF HubType
  <2>4. LogsRise' BY <1>1, <1>2 DEF LogsRise, Told, Rises, ToSet
  <2>5. ChainsAreKnown' BY <1>1, <1>2, <2>1, ChainsStand
  <2>6. NoBacklogIsStranded'
    <3>1. ASSUME NEW k \in Queued'
          PROVE  \/ scheduled \/ hubTimer \/ taken[k] # << >> \/ k \in draining' \cup stalled
                 \/ \E i \in DOMAIN jobs : jobs[i].kind = "drain"
      <4>1. k \in Queued /\ k # m BY <1>4, <2>2
      <4> QED BY <1>1, <2>1, <4>1 DEF NoBacklogIsStranded
    <3> QED BY <1>2, <2>1, <3>1 DEF NoBacklogIsStranded
  <2> QED BY <2>2, <2>3, <2>4, <2>5, <2>6 DEF HubInv
<1> QED BY <1>3, <1>4

-----------------------------------------------------------------------------
(* A subscriber's chain.  The first of its steps that are at one place is  *)
(* where the code says it is, and a drain that is due stays due.           *)
LEMMA FirstIs ==
  ASSUME NEW m \in Members, taken[m] \in Seq(ChainSteps), NEW step, \E i \in 1..Len(taken[m]) : taken[m][i] = step
  PROVE  First(m, step) \in 1..Len(taken[m]) /\ taken[m][First(m, step)] = step
<1> DEFINE T == {i \in 1..Len(taken[m]) : taken[m][i] = step}
<1>1. PICK c \in T : \A d \in T : c <= d
  <2>1. T \subseteq Nat /\ T # {} OBVIOUS
  <2> HIDE DEF T
  <2> QED BY <2>1, LeastExists
<1>2. DOMAIN taken[m] = 1..Len(taken[m]) OBVIOUS
<1>3. \A j \in 1..(c - 1) : taken[m][j] # step
  <2> SUFFICES ASSUME NEW j \in 1..(c - 1), taken[m][j] = step PROVE FALSE OBVIOUS
  <2>1. j \in 1..Len(taken[m]) /\ ~(c <= j) BY <1>1
  <2> QED BY <1>1, <2>1
<1>4. \E i \in DOMAIN taken[m] : taken[m][i] = step /\ \A j \in 1..(i - 1) : taken[m][j] # step BY <1>1, <1>2, <1>3
<1>5. First(m, step) \in DOMAIN taken[m] /\ taken[m][First(m, step)] = step BY <1>4 DEF First
<1> QED BY <1>2, <1>5

LEMMA DrainStays ==
  ASSUME NEW s \in Seq(Jobs), NEW j
  PROVE  /\ (\E i \in DOMAIN s : s[i].kind = "drain") => \E i \in DOMAIN Append(s, j) : Append(s, j)[i].kind = "drain"
         /\ s # << >> /\ Head(s).kind # "drain" /\ (\E i \in DOMAIN s : s[i].kind = "drain")
              => \E i \in DOMAIN Tail(s) : Tail(s)[i].kind = "drain"
<1>1. ASSUME NEW i \in DOMAIN s, s[i].kind = "drain" PROVE \E k \in DOMAIN Append(s, j) : Append(s, j)[k].kind = "drain"
  <2>1. i \in DOMAIN Append(s, j) /\ Append(s, j)[i] = s[i] OBVIOUS
  <2> QED BY <1>1, <2>1
<1>2. ASSUME s # << >>, Head(s).kind # "drain", NEW i \in DOMAIN s, s[i].kind = "drain"
      PROVE  \E k \in DOMAIN Tail(s) : Tail(s)[k].kind = "drain"
  <2>1. i \in 1..Len(s) /\ Head(s) = s[1] BY <1>2
  <2>2. i # 1 BY <1>2, <2>1
  <2>3. i - 1 \in DOMAIN Tail(s) /\ Tail(s)[i - 1] = s[i] BY <1>2, <2>1, <2>2
  <2> QED BY <1>2, <2>3
<1> QED BY <1>1, <1>2

LEMMA JobsAre ==
  ASSUME NEW s \in Seq(Jobs), NEW turn \in {"release", "next"}, NEW m \in Members
  PROVE  /\ Append(s, Job(turn, m)) \in Seq(Jobs) /\ Job(turn, m) \in Jobs
         /\ \A c \in {"release", "next"}, k \in Members :
              /\ Times(s, Job(c, k)) \in Nat
              /\ Times(Append(s, Job(turn, m)), Job(c, k)) = Times(s, Job(c, k)) + IF c = turn /\ k = m THEN 1 ELSE 0
<1>1. Job(turn, m) \in Jobs BY DEF Job, Jobs
<1>2. ASSUME NEW c \in {"release", "next"}, NEW k \in Members
      PROVE  /\ Times(s, Job(c, k)) \in Nat
             /\ Times(Append(s, Job(turn, m)), Job(c, k)) = Times(s, Job(c, k)) + IF c = turn /\ k = m THEN 1 ELSE 0
  <2>1. Job(turn, m) = Job(c, k) <=> c = turn /\ k = m BY DEF Job
  <2>2. Times(s, Job(c, k)) \in Nat BY TimesCount
  <2>3. Times(Append(s, Job(turn, m)), Job(c, k)) = Times(s, Job(c, k)) + IF Job(turn, m) = Job(c, k) THEN 1 ELSE 0
    BY <1>1, TimesAppended
  <2> HIDE DEF Job
  <2> QED BY <2>1, <2>2, <2>3
<1>3. Append(s, Job(turn, m)) \in Seq(Jobs) BY <1>1
<1> QED BY <1>1, <1>2, <1>3

(* The job that is at the front leaves it, and what it counted for.        *)
LEMMA JobTaken ==
  ASSUME HubType, jobs # << >>, NEW turn \in {"release", "next"}, Head(jobs).kind = turn
  PROVE  /\ Head(jobs).member \in Members /\ Tail(jobs) \in Seq(Jobs)
         /\ Times(jobs, Job(turn, Head(jobs).member)) \in Nat \ {0}
         /\ \A c \in {"release", "next"}, k \in Members :
              Times(Tail(jobs), Job(c, k)) = Times(jobs, Job(c, k)) - IF c = turn /\ k = Head(jobs).member THEN 1 ELSE 0
<1> DEFINE h == Head(jobs)
<1>1. jobs \in Seq(Jobs) BY DEF HubType
<1>2. h \in Jobs /\ Tail(jobs) \in Seq(Jobs) /\ 1 \in 1..Len(jobs) /\ h = jobs[1] BY <1>1
<1> HIDE DEF h
<1>3. h.kind = turn BY DEF h
<1>4. h.member \in Members /\ h = Job(turn, h.member) BY <1>2, <1>3 DEF Jobs, Job
<1>5. ASSUME NEW c \in {"release", "next"}, NEW k \in Members
      PROVE  Times(Tail(jobs), Job(c, k)) = Times(jobs, Job(c, k)) - IF c = turn /\ k = h.member THEN 1 ELSE 0
  <2>1. Job(turn, h.member) = Job(c, k) <=> c = turn /\ k = h.member BY DEF Job
  <2>2. Times(Tail(jobs), Job(c, k)) = Times(jobs, Job(c, k)) - (IF Head(jobs) = Job(c, k) THEN 1 ELSE 0)
    BY <1>1, TimesAfter
  <2> HIDE DEF Job
  <2>3. (Head(jobs) = Job(c, k)) <=> (c = turn /\ k = h.member) BY <1>4, <2>1 DEF h
  <2> QED BY <2>2, <2>3
<1>6. Times(jobs, Job(turn, h.member)) \in Nat \ {0}
  <2>1. Times(jobs, Job(turn, h.member)) \in Nat
        /\ (Times(jobs, Job(turn, h.member)) = 0 <=> \A i \in 1..Len(jobs) : jobs[i] # Job(turn, h.member))
    BY <1>1, TimesCount
  <2> QED BY <1>2, <1>4, <2>1
<1> QED BY <1>2, <1>4, <1>5, <1>6 DEF h

LEMMA Advanced ==
  ASSUME HubType, NEW m \in Members, NEW from, NEW to \in ChainSteps,
         \E i \in 1..Len(taken[m]) : taken[m][i] = from, Advance(m, from, to)
  PROVE  /\ taken' \in [Members -> Seq(ChainSteps)] /\ \A k \in Members : k # m => taken'[k] = taken[k]
         /\ \A k \in Members : taken[k] # << >> => taken'[k] # << >>
         /\ \A x : /\ Times(taken[m], x) \in Nat
                   /\ Times(taken'[m], x) = Times(taken[m], x) - (IF from = x THEN 1 ELSE 0) + (IF to = x THEN 1 ELSE 0)
<1> DEFINE s == taken[m]
           i == First(m, from)
           r == [s EXCEPT ![i] = to]
<1>1. taken \in [Members -> Seq(ChainSteps)] /\ s \in Seq(ChainSteps) BY DEF HubType
<1>2. i \in 1..Len(s) /\ s[i] = from BY <1>1, FirstIs
<1>3. taken' = [taken EXCEPT ![m] = r] BY DEF Advance
<1> HIDE DEF s, i
<1>4. r \in Seq(ChainSteps) /\ \A x : Times(r, x) = Times(s, x) - (IF from = x THEN 1 ELSE 0) + (IF to = x THEN 1 ELSE 0)
  BY <1>1, <1>2, TimesChanged
<1>5. \A x : Times(s, x) \in Nat BY <1>1, TimesCount
<1>6. r # << >>
  <2>1. i \in DOMAIN r /\ DOMAIN << >> = {} BY <1>1, <1>2
  <2> QED BY <2>1
<1> HIDE DEF r
<1>7. taken'[m] = r /\ \A k \in Members : k # m => taken'[k] = taken[k] BY <1>1, <1>3
<1>8. taken' \in [Members -> Seq(ChainSteps)] BY <1>1, <1>3, <1>4
<1> QED BY <1>4, <1>5, <1>6, <1>7, <1>8 DEF s

LEMMA CountsAre ==
  /\ \A m, x : Times(taken[m], x)' = Times(taken'[m], x)
  /\ \A m : /\ Times(jobs, Job("release", m))' = Times(jobs', Job("release", m))
            /\ Times(jobs, Job("next", m))' = Times(jobs', Job("next", m))
BY DEF Times, Occurs, Job

LEMMA TransportSettlesKeeps == ASSUME HubInv, NEW m \in Members, TransportSettles(m) PROVE HubInv'
<1>1. /\ HubType /\ QueuesRise /\ LogsRise /\ ChainsAreKnown /\ NoBacklogIsStranded /\ Seamless BY DEF HubInv
<1>2. /\ Advance(m, "sent", "settled") /\ jobs' = Append(jobs, Job("release", m))
      /\ UNCHANGED << topic, pending, outstanding, retained, published, scheduled, hubTimer,
                      draining, memo, delivered, misframed, gapped, stalled >>
  BY DEF TransportSettles
<1>3. \E i \in 1..Len(taken[m]) : taken[m][i] = "sent"
  <2>1. taken[m] \in Seq(ChainSteps) BY <1>1 DEF HubType
  <2>2. DOMAIN taken[m] = 1..Len(taken[m]) BY <2>1
  <2> QED BY <2>2 DEF TransportSettles
<1>4. /\ taken' \in [Members -> Seq(ChainSteps)] /\ \A k \in Members : k # m => taken'[k] = taken[k]
      /\ \A k \in Members : taken[k] # << >> => taken'[k] # << >>
      /\ \A x : /\ Times(taken[m], x) \in Nat
                /\ Times(taken'[m], x) = Times(taken[m], x) - (IF "sent" = x THEN 1 ELSE 0) + (IF "settled" = x THEN 1 ELSE 0)
  BY <1>1, <1>2, <1>3, Advanced DEF ChainSteps
<1>5. jobs \in Seq(Jobs) BY <1>1 DEF HubType
<1>6. /\ jobs' \in Seq(Jobs)
      /\ \A c \in {"release", "next"}, k \in Members :
           /\ Times(jobs, Job(c, k)) \in Nat
           /\ Times(jobs', Job(c, k)) = Times(jobs, Job(c, k)) + IF c = "release" /\ k = m THEN 1 ELSE 0
  BY <1>2, <1>5, JobsAre
<1>7. QueuesRise' /\ Seamless' /\ Queued' \subseteq Queued BY <1>1, <1>2, LeavingKeeps
<1>8. HubType' BY <1>1, <1>2, <1>4, <1>6 DEF HubType
<1>9. LogsRise' BY <1>1, <1>2 DEF LogsRise, Told, Rises, ToSet
<1>10. NoBacklogIsStranded'
  <2>1. ASSUME NEW k \in Queued'
        PROVE  \/ scheduled \/ hubTimer \/ taken'[k] # << >> \/ k \in draining \cup stalled
               \/ \E i \in DOMAIN jobs' : jobs'[i].kind = "drain"
    <3>1. k \in Queued /\ k \in Members BY <1>7 DEF Queued
    <3>2. (\E i \in DOMAIN jobs : jobs[i].kind = "drain") => \E i \in DOMAIN jobs' : jobs'[i].kind = "drain"
      BY <1>2, <1>5, DrainStays
    <3> QED BY <1>1, <1>4, <3>1, <3>2 DEF NoBacklogIsStranded
  <2> QED BY <1>2, <2>1 DEF NoBacklogIsStranded
<1>11. ChainsAreKnown'
  <2> SUFFICES ASSUME NEW k \in Members PROVE ChainIsKnown(k)' BY DEF ChainsAreKnown
  <2>1. ChainIsKnown(k) BY <1>1 DEF ChainsAreKnown
  <2>2. /\ Times(jobs', Job("release", k)) = Times(jobs, Job("release", k)) + (IF k = m THEN 1 ELSE 0)
        /\ Times(jobs', Job("next", k)) = Times(jobs, Job("next", k))
    BY <1>6
  <2>3. CASE k = m
    <3>1. /\ Times(taken'[m], "sent") = Times(taken[m], "sent") - 1
          /\ Times(taken'[m], "settled") = Times(taken[m], "settled") + 1
          /\ Times(taken'[m], "released") = Times(taken[m], "released")
          /\ Times(taken[m], "sent") \in Nat /\ Times(taken[m], "settled") \in Nat
      BY <1>4
    <3> QED BY <1>2, <2>1, <2>2, <2>3, <3>1, CountsAre DEF ChainIsKnown
  <2>4. CASE k # m
    <3>1. taken'[k] = taken[k] /\ outstanding'[k] = outstanding[k] BY <1>2, <1>4, <2>4
    <3>2. Times(jobs', Job("release", k)) = Times(jobs, Job("release", k)) BY <1>6, <2>4
    <3> QED BY <2>1, <2>2, <3>1, <3>2, CountsAre DEF ChainIsKnown
  <2> QED BY <2>3, <2>4
<1> QED BY <1>7, <1>8, <1>9, <1>10, <1>11 DEF HubInv

LEMMA ReleaseJobKeeps == ASSUME HubInv, ReleaseJob PROVE HubInv'
<1> DEFINE m == Head(jobs).member
<1>1. /\ HubType /\ QueuesRise /\ LogsRise /\ ChainsAreKnown /\ NoBacklogIsStranded /\ Seamless BY DEF HubInv
<1>2. /\ jobs # << >> /\ Head(jobs).kind = "release"
      /\ outstanding' = [outstanding EXCEPT ![m] = @ - 1]
      /\ Advance(m, "settled", "released")
      /\ jobs' = Append(Tail(jobs), Job("next", m))
      /\ UNCHANGED << topic, pending, retained, published, scheduled, hubTimer, draining,
                      memo, delivered, misframed, gapped, stalled >>
  BY DEF ReleaseJob
<1>3. /\ m \in Members /\ Tail(jobs) \in Seq(Jobs)
      /\ Times(jobs, Job("release", m)) \in Nat \ {0}
      /\ \A c \in {"release", "next"}, k \in Members :
           Times(Tail(jobs), Job(c, k)) = Times(jobs, Job(c, k)) - IF c = "release" /\ k = m THEN 1 ELSE 0
  BY <1>1, <1>2, JobTaken
<1> HIDE DEF m
<1>4. ChainIsKnown(m) /\ taken[m] \in Seq(ChainSteps) /\ outstanding \in [Members -> Nat] /\ jobs \in Seq(Jobs)
  BY <1>1, <1>3 DEF ChainsAreKnown, HubType
<1>5. Times(taken[m], "settled") \in Nat \ {0} BY <1>3, <1>4 DEF ChainIsKnown
<1>6. \E i \in 1..Len(taken[m]) : taken[m][i] = "settled" BY <1>4, <1>5, TimesCount
<1>7. /\ taken' \in [Members -> Seq(ChainSteps)] /\ \A k \in Members : k # m => taken'[k] = taken[k]
      /\ \A k \in Members : taken[k] # << >> => taken'[k] # << >>
      /\ \A x : /\ Times(taken[m], x) \in Nat
                /\ Times(taken'[m], x) = Times(taken[m], x) - (IF "settled" = x THEN 1 ELSE 0) + (IF "released" = x THEN 1 ELSE 0)
  BY <1>1, <1>2, <1>3, <1>6, Advanced DEF ChainSteps
<1>8. /\ jobs' \in Seq(Jobs)
      /\ \A c \in {"release", "next"}, k \in Members :
           /\ Times(Tail(jobs), Job(c, k)) \in Nat
           /\ Times(jobs', Job(c, k)) = Times(Tail(jobs), Job(c, k)) + IF c = "next" /\ k = m THEN 1 ELSE 0
  <2> DEFINE s == Tail(jobs)
  <2>1. s \in Seq(Jobs) /\ "next" \in {"release", "next"} /\ jobs' = Append(s, Job("next", m)) BY <1>2, <1>3
  <2> HIDE DEF s
  <2>2. /\ Append(s, Job("next", m)) \in Seq(Jobs)
        /\ \A c \in {"release", "next"}, k \in Members :
             /\ Times(s, Job(c, k)) \in Nat
             /\ Times(Append(s, Job("next", m)), Job(c, k)) = Times(s, Job(c, k)) + IF c = "next" /\ k = m THEN 1 ELSE 0
    BY <1>3, <2>1, JobsAre
  <2> QED BY <2>1, <2>2 DEF s
<1>9. QueuesRise' /\ Seamless' /\ Queued' \subseteq Queued BY <1>1, <1>2, LeavingKeeps
<1>10. outstanding' \in [Members -> Nat]
  <2>1. outstanding[m] - 1 \in Nat
    <3>1. outstanding[m] = Times(taken[m], "sent") + Times(taken[m], "settled") /\ Times(taken[m], "sent") \in Nat
      BY <1>4, <1>7 DEF ChainIsKnown
    <3> QED BY <1>5, <3>1
  <2> QED BY <1>2, <1>4, <2>1
<1>11. HubType' BY <1>1, <1>2, <1>7, <1>8, <1>10 DEF HubType
<1>12. LogsRise' BY <1>1, <1>2 DEF LogsRise, Told, Rises, ToSet
<1>13. NoBacklogIsStranded'
  <2>1. ASSUME NEW k \in Queued'
        PROVE  \/ scheduled \/ hubTimer \/ taken'[k] # << >> \/ k \in draining \cup stalled
               \/ \E i \in DOMAIN jobs' : jobs'[i].kind = "drain"
    <3>1. k \in Queued /\ k \in Members BY <1>9 DEF Queued
    <3>2. (\E i \in DOMAIN jobs : jobs[i].kind = "drain") => \E i \in DOMAIN Tail(jobs) : Tail(jobs)[i].kind = "drain"
      BY <1>2, <1>4, DrainStays
    <3>3. (\E i \in DOMAIN Tail(jobs) : Tail(jobs)[i].kind = "drain") => \E i \in DOMAIN jobs' : jobs'[i].kind = "drain"
      BY <1>2, <1>3, DrainStays
    <3> QED BY <1>1, <1>7, <3>1, <3>2, <3>3 DEF NoBacklogIsStranded
  <2> QED BY <1>2, <2>1 DEF NoBacklogIsStranded
<1>14. ChainsAreKnown'
  <2> SUFFICES ASSUME NEW k \in Members PROVE ChainIsKnown(k)' BY DEF ChainsAreKnown
  <2>1. ChainIsKnown(k) BY <1>1 DEF ChainsAreKnown
  <2>2. Times(jobs, Job("release", k)) \in Nat /\ Times(jobs, Job("next", k)) \in Nat BY <1>4, TimesCount
  <2>3. /\ Times(Tail(jobs), Job("release", k)) = Times(jobs, Job("release", k)) - (IF k = m THEN 1 ELSE 0)
        /\ Times(Tail(jobs), Job("next", k)) = Times(jobs, Job("next", k))
    BY <1>3, <2>2
  <2>4. /\ Times(jobs', Job("release", k)) = Times(jobs, Job("release", k)) - (IF k = m THEN 1 ELSE 0)
        /\ Times(jobs', Job("next", k)) = Times(jobs, Job("next", k)) + (IF k = m THEN 1 ELSE 0)
    BY <1>8, <2>2, <2>3
  <2>5. CASE k = m
    <3>1. /\ Times(taken'[m], "sent") = Times(taken[m], "sent")
          /\ Times(taken'[m], "settled") = Times(taken[m], "settled") - 1
          /\ Times(taken'[m], "released") = Times(taken[m], "released") + 1
          /\ Times(taken[m], "sent") \in Nat /\ Times(taken[m], "settled") \in Nat
      BY <1>7
    <3>2. outstanding'[m] = outstanding[m] - 1 BY <1>2, <1>3, <1>4
    <3> QED BY <2>1, <2>2, <2>4, <2>5, <3>1, <3>2, CountsAre DEF ChainIsKnown
  <2>6. CASE k # m
    <3>1. taken'[k] = taken[k] /\ outstanding'[k] = outstanding[k] BY <1>2, <1>4, <1>7, <2>6
    <3> QED BY <2>1, <2>2, <2>4, <2>6, <3>1, CountsAre DEF ChainIsKnown
  <2> QED BY <2>5, <2>6
<1> QED BY <1>9, <1>11, <1>12, <1>13, <1>14 DEF HubInv

(* The chain ends or takes the next batch: one step of it less, and        *)
(* possibly one more.                                                      *)
LEMMA NextJobKeeps == ASSUME HubInv, NextJob PROVE HubInv'
<1> DEFINE m == Head(jobs).member
           i == First(m, "released")
           rest == RemoveAt(taken[m], i)
<1>1. /\ HubType /\ QueuesRise /\ LogsRise /\ ChainsAreKnown /\ NoBacklogIsStranded /\ Seamless BY DEF HubInv
<1>2. /\ jobs # << >> /\ Head(jobs).kind = "next" /\ jobs' = Tail(jobs)
      /\ UNCHANGED << topic, retained, published, scheduled, hubTimer, draining, gapped >>
  BY DEF NextJob
<1>3. \/ /\ ~Continues(m) /\ taken' = [taken EXCEPT ![m] = rest]
         /\ UNCHANGED << pending, delivered, outstanding, memo, misframed, stalled >>
      \/ Continues(m) /\ \E throws \in BOOLEAN :
           /\ pending' = [pending EXCEPT ![m] = Rest(m)]
           /\ delivered' = [delivered EXCEPT ![m] = @ \o Batch(m)]
           /\ outstanding' = [outstanding EXCEPT ![m] = IF throws THEN @ ELSE @ + 1]
           /\ taken' = [taken EXCEPT ![m] = IF throws THEN rest ELSE Append(rest, "sent")]
           /\ memo' = Encoded(<< m >>).memo /\ misframed' = Encoded(<< m >>).wrong
           /\ stalled' = IF throws THEN stalled \cup {m} ELSE stalled \ {m}
  BY DEF NextJob, Rest
<1>4. /\ m \in Members /\ Tail(jobs) \in Seq(Jobs)
      /\ Times(jobs, Job("next", m)) \in Nat \ {0}
      /\ \A c \in {"release", "next"}, k \in Members :
           Times(Tail(jobs), Job(c, k)) = Times(jobs, Job(c, k)) - IF c = "next" /\ k = m THEN 1 ELSE 0
  BY <1>1, <1>2, JobTaken
<1> HIDE DEF m
<1>5. /\ ChainIsKnown(m) /\ taken \in [Members -> Seq(ChainSteps)] /\ taken[m] \in Seq(ChainSteps)
      /\ outstanding \in [Members -> Nat] /\ jobs \in Seq(Jobs)
      /\ pending \in [Members -> Seq(Pubs)] /\ delivered \in [Members -> Seq(Pubs)]
  BY <1>1, <1>4 DEF ChainsAreKnown, HubType
<1>6. Times(taken[m], "released") \in Nat \ {0} BY <1>4, <1>5 DEF ChainIsKnown
<1>7. \E j \in 1..Len(taken[m]) : taken[m][j] = "released" BY <1>5, <1>6, TimesCount
<1>8. i \in 1..Len(taken[m]) /\ taken[m][i] = "released" BY <1>4, <1>5, <1>7, FirstIs
<1> HIDE DEF i
<1>9. /\ rest \in Seq(ChainSteps)
      /\ \A x : /\ Times(taken[m], x) \in Nat
                /\ Times(rest, x) = Times(taken[m], x) - (IF "released" = x THEN 1 ELSE 0)
  BY <1>5, <1>8, TimesWithout, TimesCount
<1> HIDE DEF rest
<1>10. /\ Times(rest, "sent") = Times(taken[m], "sent") /\ Times(rest, "settled") = Times(taken[m], "settled")
       /\ Times(rest, "released") = Times(taken[m], "released") - 1
       /\ Times(taken[m], "sent") \in Nat /\ Times(taken[m], "settled") \in Nat
  BY <1>9
<1>11. ASSUME NEW k \in Members
       PROVE  /\ Times(jobs', Job("release", k)) = Times(jobs, Job("release", k))
              /\ Times(jobs', Job("next", k)) = Times(jobs, Job("next", k)) - (IF k = m THEN 1 ELSE 0)
  <2>1. Times(jobs, Job("release", k)) \in Nat /\ Times(jobs, Job("next", k)) \in Nat BY <1>5, TimesCount
  <2> QED BY <1>2, <1>4, <2>1
<1>12. jobs' \in Seq(Jobs) BY <1>2, <1>4
<1>13. LogsRise' BY <1>1, <1>2 DEF LogsRise, Told, Rises, ToSet
<1>14. (\E j \in DOMAIN jobs : jobs[j].kind = "drain") => \E j \in DOMAIN jobs' : jobs'[j].kind = "drain"
  BY <1>2, <1>5, DrainStays
<1>15. ASSUME NEW k \in Members, k # m, taken'[k] = taken[k], outstanding'[k] = outstanding[k] PROVE ChainIsKnown(k)'
  <2>1. ChainIsKnown(k) BY <1>1 DEF ChainsAreKnown
  <2>2. Times(jobs, Job("next", k)) \in Nat BY <1>5, TimesCount
  <2>3. Times(jobs', Job("next", k)) = Times(jobs, Job("next", k)) BY <1>11, <1>15, <2>2
  <2> QED BY <1>11, <1>15, <2>1, <2>3, CountsAre DEF ChainIsKnown
<1>16. CASE ~Continues(m)
  <2>1. /\ taken' = [taken EXCEPT ![m] = rest]
        /\ UNCHANGED << pending, delivered, outstanding, memo, misframed, stalled >>
    BY <1>3, <1>16
  <2>2. QueuesRise' /\ Seamless' /\ Queued' \subseteq Queued BY <1>1, <1>2, <2>1, LeavingKeeps
  <2>3. taken' \in [Members -> Seq(ChainSteps)] /\ taken'[m] = rest /\ \A k \in Members : k # m => taken'[k] = taken[k]
    BY <1>4, <1>5, <1>9, <2>1
  <2>4. HubType' BY <1>1, <1>2, <1>12, <2>1, <2>3 DEF HubType
  <2>5. NoBacklogIsStranded'
    <3>1. ASSUME NEW k \in Queued'
          PROVE  \/ scheduled \/ hubTimer \/ taken'[k] # << >> \/ k \in draining \cup stalled
                 \/ \E j \in DOMAIN jobs' : jobs'[j].kind = "drain"
      <4>1. k \in Queued /\ k \in Members /\ k # m BY <1>16, <2>2 DEF Queued, Continues
      <4> QED BY <1>1, <1>14, <2>3, <4>1 DEF NoBacklogIsStranded
    <3> QED BY <1>2, <2>1, <3>1 DEF NoBacklogIsStranded
  <2>6. ChainsAreKnown'
    <3> SUFFICES ASSUME NEW k \in Members PROVE ChainIsKnown(k)' BY DEF ChainsAreKnown
    <3>1. CASE k = m
      <4>1. Times(jobs, Job("next", m)) = Times(taken[m], "released") BY <1>5 DEF ChainIsKnown
      <4> QED BY <1>4, <1>5, <1>10, <1>11, <2>1, <2>3, <3>1, <4>1, CountsAre DEF ChainIsKnown
    <3>2. CASE k # m BY <1>15, <2>1, <2>3, <3>2
    <3> QED BY <3>1, <3>2
  <2> QED BY <1>13, <2>2, <2>4, <2>5, <2>6 DEF HubInv
<1>17. CASE Continues(m)
  <2>1. PICK throws \in BOOLEAN :
           /\ pending' = [pending EXCEPT ![m] = Rest(m)]
           /\ delivered' = [delivered EXCEPT ![m] = @ \o Batch(m)]
           /\ outstanding' = [outstanding EXCEPT ![m] = IF throws THEN @ ELSE @ + 1]
           /\ taken' = [taken EXCEPT ![m] = IF throws THEN rest ELSE Append(rest, "sent")]
           /\ memo' = Encoded(<< m >>).memo /\ misframed' = Encoded(<< m >>).wrong
           /\ stalled' = IF throws THEN stalled \cup {m} ELSE stalled \ {m}
    BY <1>3, <1>17
  <2>2. << m >> \in Seq(Members) /\ ToSet(<< m >>) = {m}
    <3>1. << m >> \in Seq(Members) /\ Len(<< m >>) = 1 /\ << m >>[1] = m BY <1>4
    <3>2. \A x : x \in ToSet(<< m >>) <=> \E j \in 1..Len(<< m >>) : << m >>[j] = x BY <3>1, PlacesAre
    <3>3. \A x : x \in ToSet(<< m >>) <=> x = m
      <4> HIDE DEF ToSet
      <4>1. \A j : j \in 1..1 <=> j = 1 OBVIOUS
      <4> QED BY <3>1, <3>2, <4>1
    <3> QED BY <3>1, <3>3
  <2>3. Sends(<< m >>)
    <3>1. pending' = [k \in Members |-> IF k \in {m} THEN Rest(k) ELSE pending[k]] BY <1>5, <2>1
    <3>2. delivered' = [k \in Members |-> IF k \in {m} THEN delivered[k] \o Batch(k) ELSE delivered[k]] BY <1>5, <2>1
    <3> QED BY <2>1, <2>2, <3>1, <3>2 DEF Sends
  <2>4. ToSet(<< m >>) \subseteq Going BY <1>17, <2>2 DEF Continues, Queued, Going
  <2>5. /\ pending' \in [Members -> Seq(Pubs)] /\ delivered' \in [Members -> Seq(Pubs)]
        /\ memo' \in Seq(Pubs) /\ misframed' \in BOOLEAN
        /\ QueuesRise' /\ LogsRise' /\ Seamless'
        /\ \A k \in Members : pending'[k] # << >> => pending[k] # << >>
    BY <1>1, <1>2, <2>2, <2>3, <2>4, SendsKeeps
  <2> DEFINE r == IF throws THEN rest ELSE Append(rest, "sent")
  <2>6. r \in Seq(ChainSteps)
    <3>1. "sent" \in ChainSteps BY DEF ChainSteps
    <3> QED BY <1>9, <3>1
  <2>7. /\ taken' \in [Members -> Seq(ChainSteps)] /\ taken'[m] = r /\ \A k \in Members : k # m => taken'[k] = taken[k]
    <3>1. taken' = [taken EXCEPT ![m] = r] BY <2>1
    <3> HIDE DEF r
    <3> QED BY <1>4, <1>5, <2>6, <3>1
  <2>8. /\ outstanding' \in [Members -> Nat] /\ outstanding'[m] = outstanding[m] + (IF throws THEN 0 ELSE 1)
        /\ \A k \in Members : k # m => outstanding'[k] = outstanding[k]
    BY <1>4, <1>5, <2>1
  <2>9. HubType' BY <1>1, <1>2, <1>12, <2>5, <2>7, <2>8 DEF HubType
  <2>10. NoBacklogIsStranded'
    <3>1. ASSUME NEW k \in Queued'
          PROVE  \/ scheduled \/ hubTimer \/ taken'[k] # << >> \/ k \in draining \cup stalled'
                 \/ \E j \in DOMAIN jobs' : jobs'[j].kind = "drain"
      <4>1. k \in Queued /\ k \in Members BY <1>2, <2>5 DEF Queued, Live
      <4>2. CASE k = m
        <5>1. CASE throws BY <2>1, <4>2, <5>1
        <5>2. CASE ~throws
          <6>1. Append(rest, "sent") # << >> BY <1>9
          <6> QED BY <2>7, <4>2, <5>2, <6>1
        <5> QED BY <5>1, <5>2
      <4>3. CASE k # m
        <5>1. taken'[k] = taken[k] /\ (k \in stalled => k \in stalled') BY <2>1, <2>7, <4>1, <4>3
        <5> QED BY <1>1, <1>14, <4>1, <5>1 DEF NoBacklogIsStranded
      <4> QED BY <4>2, <4>3
    <3> QED BY <1>2, <3>1 DEF NoBacklogIsStranded
  <2>11. ChainsAreKnown'
    <3> SUFFICES ASSUME NEW k \in Members PROVE ChainIsKnown(k)' BY DEF ChainsAreKnown
    <3>1. CASE k = m
      <4>1. /\ Times(r, "sent") = Times(rest, "sent") + (IF throws THEN 0 ELSE 1)
            /\ Times(r, "settled") = Times(rest, "settled") /\ Times(r, "released") = Times(rest, "released")
        <5>1. Times(rest, "sent") \in Nat /\ Times(rest, "settled") \in Nat /\ Times(rest, "released") \in Nat
          BY <1>9, TimesCount
        <5>2. CASE throws BY <5>1, <5>2
        <5>3. CASE ~throws
          <6>1. /\ Times(Append(rest, "sent"), "sent") = Times(rest, "sent") + IF "sent" = "sent" THEN 1 ELSE 0
                /\ Times(Append(rest, "sent"), "settled") = Times(rest, "settled") + IF "sent" = "settled" THEN 1 ELSE 0
                /\ Times(Append(rest, "sent"), "released") = Times(rest, "released") + IF "sent" = "released" THEN 1 ELSE 0
            BY <1>9, TimesAppended
          <6>2. r = Append(rest, "sent") BY <5>3
          <6> HIDE DEF r
          <6> QED BY <5>1, <5>3, <6>1, <6>2
        <5> QED BY <5>2, <5>3
      <4> HIDE DEF r
      <4>2. /\ outstanding[m] = Times(taken[m], "sent") + Times(taken[m], "settled")
            /\ Times(jobs, Job("release", m)) = Times(taken[m], "settled")
            /\ Times(jobs, Job("next", m)) = Times(taken[m], "released")
        BY <1>5 DEF ChainIsKnown
      <4>3. outstanding'[m] = Times(r, "sent") + Times(r, "settled") BY <1>10, <2>8, <4>1, <4>2
      <4>4. Times(jobs', Job("release", m)) = Times(r, "settled") /\ Times(jobs', Job("next", m)) = Times(r, "released")
        BY <1>4, <1>10, <1>11, <4>1, <4>2
      <4> QED BY <2>7, <3>1, <4>3, <4>4, CountsAre DEF ChainIsKnown
    <3>2. CASE k # m BY <1>15, <2>7, <2>8, <3>2
    <3> QED BY <3>1, <3>2
  <2> QED BY <2>5, <2>9, <2>10, <2>11 DEF HubInv
<1> QED BY <1>16, <1>17

LEMMA HubStep == ASSUME HubInv, HubNext PROVE HubInv'
<1>1. ASSUME NEW m \in Members, \/ Unsubscribe(m) \/ DrainerResumes(m) \/ TransportSettles(m)
                                \/ \E t \in Topics : Subscribe(m, t)
      PROVE  HubInv'
  BY <1>1, UnsubscribeKeeps, DrainerResumesKeeps, TransportSettlesKeeps, SubscribeKeeps
<1> QED BY <1>1, CloseHubKeeps, DrainJobKeeps, DrainTimerKeeps, FlushHubKeeps, ReleaseJobKeeps, NextJobKeeps,
           PublishKeeps DEF HubNext

LEMMA HubStands == ASSUME HubInv, UNCHANGED hubVars PROVE HubInv'
<1>1. /\ HubType /\ QueuesRise /\ LogsRise /\ ChainsAreKnown /\ NoBacklogIsStranded /\ Seamless BY DEF HubInv
<1>2. UNCHANGED << topic, pending, outstanding, taken, retained, published, scheduled, hubTimer, jobs, draining,
                   memo, delivered, misframed, gapped, stalled >>
  BY DEF hubVars
<1>3. QueuesRise' /\ Seamless' /\ Queued' \subseteq Queued BY <1>1, <1>2, LeavingKeeps
<1>4. HubType' BY <1>1, <1>2 DEF HubType
<1>5. LogsRise' BY <1>1, <1>2 DEF LogsRise, Told, Rises, ToSet
<1>6. ChainsAreKnown' BY <1>1, <1>2, ChainsStand
<1>7. NoBacklogIsStranded' BY <1>1, <1>2, <1>3 DEF NoBacklogIsStranded
<1> QED BY <1>3, <1>4, <1>5, <1>6, <1>7 DEF HubInv

-----------------------------------------------------------------------------
(* Of the hub: a slow subscriber has a bounded queue and is sent what was  *)
(* published in its order, once; what is queued for a live subscriber has  *)
(* something at work for it; and the frame that is remembered is the frame *)
(* of its batch while values differ and no queue has gaps                  *)
(* (powerRealtimeHub.js: publish, _enqueue, _flushSubscriber,              *)
(* _encodeBatch).                                                          *)
THEOREM HubAlwaysDelivers == Spec => []HubDelivers
<1> DEFINE I == part = "hub" => HubInv
<1>1. Init => I BY HubStarts DEF Init
<1>2. I /\ [Next]_realtimeVars => I'
  <2> SUFFICES ASSUME I, [Next]_realtimeVars PROVE I'
    OBVIOUS
  <2>1. CASE Next
    <3>1. part' = part /\ (part = "hub" => HubNext) BY <2>1 DEF Next, ClientNext, ChannelNext
    <3> QED BY <3>1, HubStep
  <2>2. CASE UNCHANGED realtimeVars
    <3>1. part' = part /\ UNCHANGED hubVars BY <2>2 DEF realtimeVars
    <3> QED BY <3>1, HubStands
  <2> QED BY <2>1, <2>2
<1>3. I => HubDelivers BY HubHolds DEF HubDelivers
<1> QED BY <1>1, <1>2, <1>3, PTL DEF Spec
=============================================================================
