------------------------- MODULE WebTransportClient -------------------------
(***************************************************************************)
(* PowerWebTransportClient (src/helpers/powerWebTransportClient.js): a     *)
(* session with one bidirectional stream, opened in two awaited steps.     *)
(*                                                                         *)
(* Sessions are numbered in the order _open() makes them.  What a session  *)
(* promises (ready, a stream, closed) is settled by the environment, and   *)
(* each settlement is heard some time later: what has not been heard yet   *)
(* is in news.  The caller does not call connect() while a reconnect is    *)
(* due (WebSocketClient shows what happens then).                          *)
(***************************************************************************)
EXTENDS Integers, FiniteSets

CONSTANTS
  Sessions,                    \* 1..n
  MaxWtAttempts, MaxWtConnects \* maxReconnectAttempts; how often connect() is called

ASSUME WtConstants ==
  Sessions \subseteq Nat \ {0} /\ {MaxWtAttempts, MaxWtConnects} \subseteq Nat

VARIABLES
  wtState,            \* _state
  session,            \* _transport, or 0
  current,            \* the session _connectionGeneration was taken for, or 0
  writer,             \* the session _writer belongs to, or 0
  remote,             \* external: what has become of each session
  news,               \* external: settlements that have not been heard
  wtOpening,          \* the promise of the _open() that made each session
  wtByUser, wtAttempts, wtExhausted,
  wtTimer, wtRetry,   \* the session _connectTimer is for, or 0; _reconnectTimer is set
  wtBeat, wtDeadline, \* _heartbeatTimer, _heartbeatDeadline
  wtConnects,         \* calls of connect()
  broken, ghost,      \* history: a session aborted before it was open; one closed while its stream was made
  wtThrew             \* history: the constructor threw in the last _open()

wtLink == << wtState, session, current, writer >>
wtWorld == << remote, news >>
wtPlan == << wtByUser, wtAttempts, wtExhausted, wtTimer, wtRetry >>
wtPulse == << wtBeat, wtDeadline >>
wtPast == << wtConnects, broken, ghost, wtThrew >>
wtVars == << wtLink, wtWorld, wtOpening, wtPlan, wtPulse, wtPast >>

WtInit ==
  /\ wtState = "closed" /\ session = 0 /\ current = 0 /\ writer = 0
  /\ remote = [s \in Sessions |-> "none"] /\ news = [s \in Sessions |-> {}]
  /\ wtOpening = [s \in Sessions |-> "none"]
  /\ wtByUser = FALSE /\ wtAttempts = 0 /\ wtExhausted = FALSE /\ wtTimer = 0 /\ wtRetry = FALSE
  /\ wtBeat = FALSE /\ wtDeadline = FALSE
  /\ wtConnects = 0 /\ broken = FALSE /\ ghost = FALSE /\ wtThrew = FALSE

Settled(s, how) == [wtOpening EXCEPT ![s] = IF @ = "pending" THEN how ELSE @]

\* done(): the promise is settled once, which clears the connect timer.
DoneWith(s, how) ==
  /\ wtOpening' = Settled(s, how)
  /\ wtTimer' = IF wtOpening[s] = "pending" THEN 0 ELSE wtTimer

\* A session that has not ended; a mute one has no promise `ready`.
Living == {"connecting", "ready", "mute"}

\* What a close by this side does to a session.
ClosedHere(s) ==
  IF s # 0 /\ remote[s] \in Living
  THEN /\ remote' = [remote EXCEPT ![s] = "closed"]
       /\ news' = [news EXCEPT ![s] = (@ \ {"ready"}) \cup {"closed"}]
  ELSE UNCHANGED wtWorld

-----------------------------------------------------------------------------
(* Opening                                                                  *)

\* _open(): without `ready` its promise rejects at once and no connect timer is set, but
\* the client stays connecting.
SessionMade ==
  \E s \in Sessions, mute \in BOOLEAN :
    /\ remote[s] = "none" /\ \A r \in Sessions : r < s => remote[r] # "none"
    /\ wtState' = "connecting" /\ session' = s /\ current' = s /\ wtThrew' = FALSE
    /\ remote' = [remote EXCEPT ![s] = IF mute THEN "mute" ELSE "connecting"]
    /\ wtOpening' = [wtOpening EXCEPT ![s] = IF mute THEN "rejected" ELSE "pending"]
    /\ wtTimer' = IF mute THEN 0 ELSE s

\* The constructor throws: the promise rejects, and nothing is scheduled.
SessionThrows ==
  /\ wtState' = "closed" /\ current' = 0 /\ wtTimer' = 0 /\ wtThrew' = TRUE
  /\ UNCHANGED << session, remote, wtOpening >>

OpenSession == SessionMade \/ SessionThrows

WtConnect ==
  /\ wtConnects < MaxWtConnects /\ wtState = "closed" /\ ~wtRetry
  /\ wtConnects' = wtConnects + 1 /\ wtByUser' = FALSE
  /\ OpenSession
  /\ UNCHANGED << writer, news, wtAttempts, wtExhausted, wtRetry, wtPulse, broken, ghost >>

WtRetries ==
  /\ wtRetry /\ wtRetry' = FALSE
  /\ IF wtByUser THEN UNCHANGED << wtState, session, current, remote, wtOpening, wtTimer, wtThrew >>
     ELSE OpenSession
  /\ UNCHANGED << writer, news, wtByUser, wtAttempts, wtExhausted, wtPulse, wtConnects, broken, ghost >>

\* The environment settles a promise of a session: ready or not, closed cleanly or not.
Happens(s) ==
  /\ \/ /\ remote[s] = "connecting"
        /\ \/ remote' = [remote EXCEPT ![s] = "ready"] /\ news' = [news EXCEPT ![s] = @ \cup {"ready"}]
           \/ remote' = [remote EXCEPT ![s] = "closed"]
              /\ news' = [news EXCEPT ![s] = @ \cup {"unready", "aborted"}]
     \/ /\ remote[s] = "ready" /\ remote' = [remote EXCEPT ![s] = "closed"]
        /\ \/ news' = [news EXCEPT ![s] = @ \cup {"closed"}]
           \/ news' = [news EXCEPT ![s] = @ \cup {"aborted", "unreadable"}]
     \/ /\ remote[s] = "mute" /\ remote' = [remote EXCEPT ![s] = "closed"]
        /\ \E how \in {"closed", "aborted"} : news' = [news EXCEPT ![s] = @ \cup {how}]
  /\ broken' = (broken \/ (wtState # "open" /\ "aborted" \in news'[s]))
  /\ UNCHANGED << wtLink, wtOpening, wtPlan, wtPulse, wtConnects, ghost, wtThrew >>

\* _handleOpen() up to the await: a stream is asked for.
Ready(s) ==
  /\ "ready" \in news[s]
  /\ IF current = s /\ wtState = "connecting"
     THEN wtAttempts' = 0 /\ news' = [news EXCEPT ![s] = (@ \ {"ready"}) \cup {"stream"}]
     ELSE news' = [news EXCEPT ![s] = @ \ {"ready"}] /\ UNCHANGED wtAttempts
  /\ UNCHANGED << wtLink, remote, wtOpening, wtByUser, wtExhausted, wtTimer, wtRetry, wtPulse, wtPast >>

\* Bug: after the await nothing is asked again.
ResumesAlways(s) == TRUE

\* After the await it is the generation that is compared.
Resumes(s) == current = s

\* The stream is there, or none is to be had, or the session refuses it.
StreamMade(s, how) ==
  /\ "stream" \in news[s] /\ news' = [news EXCEPT ![s] = @ \ {"stream"}]
  /\ how \in (IF remote[s] = "ready" THEN {"made", "none", "refused"} ELSE {"made", "refused"})
  /\ writer' = IF how = "made" /\ current = s /\ session = s THEN s ELSE writer
  /\ IF how # "refused" /\ Resumes(s)
     THEN /\ wtState' = "open" /\ wtBeat' = TRUE /\ DoneWith(s, "resolved")
          /\ ghost' = (ghost \/ session # s) /\ UNCHANGED broken
     ELSE /\ IF how = "refused" THEN DoneWith(s, "rejected") ELSE UNCHANGED << wtOpening, wtTimer >>
          /\ broken' = (broken \/ (how = "refused" /\ current = s)) /\ UNCHANGED << wtState, wtBeat, ghost >>
  /\ UNCHANGED << session, current, remote, wtByUser, wtAttempts, wtExhausted, wtRetry, wtDeadline,
                  wtConnects, wtThrew >>

\* `ready` rejects: the promise does too, and nothing else happens.
Unready(s) ==
  /\ "unready" \in news[s] /\ news' = [news EXCEPT ![s] = @ \ {"unready"}]
  /\ DoneWith(s, "rejected") /\ broken' = (broken \/ current = s)
  /\ UNCHANGED << wtLink, remote, wtByUser, wtAttempts, wtExhausted, wtRetry, wtPulse, wtConnects, ghost, wtThrew >>

\* The connect timer: the client is closed, and the session is told to.
WtTimesOut ==
  /\ wtTimer # 0 /\ wtTimer' = 0
  /\ IF wtState = "open" THEN UNCHANGED << wtState, wtOpening, wtWorld >>
     ELSE wtState' = "closed" /\ wtOpening' = Settled(wtTimer, "rejected") /\ ClosedHere(session)
  /\ UNCHANGED << session, current, writer, wtByUser, wtAttempts, wtExhausted, wtRetry, wtPulse, wtPast >>

-----------------------------------------------------------------------------
(* Closing                                                                  *)

\* close(): announced at once, and whatever the session reports later is not heard.
WtClose ==
  /\ wtConnects > 0 /\ wtByUser' = TRUE /\ current' = 0 /\ wtState' = "closed"
  /\ wtTimer' = 0 /\ wtRetry' = FALSE /\ wtBeat' = FALSE /\ wtDeadline' = FALSE
  /\ writer' = 0 /\ session' = 0 /\ ClosedHere(session)
  /\ UNCHANGED << wtOpening, wtAttempts, wtExhausted, wtPast >>

\* _handleClose() and the decision to retry.
WtHandleClose ==
  /\ wtBeat' = FALSE /\ wtDeadline' = FALSE /\ wtState' = "closed" /\ writer' = 0 /\ session' = 0
  /\ IF wtByUser THEN UNCHANGED << wtAttempts, wtExhausted, wtRetry >>
     ELSE IF wtAttempts >= MaxWtAttempts THEN wtExhausted' = TRUE /\ UNCHANGED << wtAttempts, wtRetry >>
     ELSE wtAttempts' = wtAttempts + 1 /\ wtRetry' = TRUE /\ UNCHANGED wtExhausted

\* `closed` fulfils: the session is over.
ClosedHeard(s) ==
  /\ "closed" \in news[s] /\ news' = [news EXCEPT ![s] = @ \ {"closed"}]
  /\ IF current = s THEN WtHandleClose /\ DoneWith(s, "resolved")
     ELSE UNCHANGED << wtBeat, wtDeadline, wtState, writer, session, wtAttempts, wtExhausted, wtRetry, wtOpening, wtTimer >>
  /\ UNCHANGED << current, remote, wtByUser, wtPast >>

\* `closed` rejects: an error is reported, and that is all.
AbortHeard(s) ==
  /\ "aborted" \in news[s] /\ news' = [news EXCEPT ![s] = @ \ {"aborted"}]
  /\ IF current = s THEN DoneWith(s, "rejected") ELSE UNCHANGED << wtOpening, wtTimer >>
  /\ UNCHANGED << wtLink, remote, wtByUser, wtAttempts, wtExhausted, wtRetry, wtPulse, wtPast >>

\* _handleStreamFailure() only acts for the session in use, on an open client.
Fails(s) == current = s /\ session = s /\ wtState = "open" /\ ~wtByUser

\* The stream, if one was made, reports the end of the session; without one nothing does.
StreamFails(s) ==
  /\ "unreadable" \in news[s] /\ "stream" \notin news[s]
  /\ news' = [news EXCEPT ![s] = @ \ {"unreadable"}]
  /\ IF writer = s /\ Fails(s) THEN WtHandleClose /\ current' = 0
     ELSE UNCHANGED << wtBeat, wtDeadline, wtState, writer, session, wtAttempts, wtExhausted, wtRetry, current >>
  /\ UNCHANGED << remote, wtOpening, wtByUser, wtTimer, wtPast >>

-----------------------------------------------------------------------------
(* Heartbeats are frames on the stream                                      *)

WtBeats ==
  /\ wtBeat /\ wtBeat' = (wtState = "open")
  /\ wtDeadline' = (wtDeadline \/ writer # 0)
  /\ UNCHANGED << wtLink, wtWorld, wtOpening, wtPlan, wtPast >>

WtPong ==
  /\ wtDeadline /\ wtDeadline' = FALSE
  /\ UNCHANGED << wtLink, wtWorld, wtOpening, wtPlan, wtBeat, wtPast >>

WtDeadlinePasses ==
  /\ wtDeadline /\ wtDeadline' = FALSE /\ wtBeat' = FALSE
  /\ IF wtByUser THEN UNCHANGED wtWorld ELSE ClosedHere(session)
  /\ UNCHANGED << wtLink, wtOpening, wtPlan, wtPast >>

WtNext ==
  \/ WtConnect \/ WtRetries \/ WtTimesOut \/ WtClose \/ WtBeats \/ WtPong \/ WtDeadlinePasses
  \/ \E s \in Sessions :
       \/ Happens(s) \/ Ready(s) \/ Unready(s) \/ ClosedHeard(s) \/ AbortHeard(s) \/ StreamFails(s)
       \/ \E how \in {"made", "none", "refused"} : StreamMade(s, how)

-----------------------------------------------------------------------------
\* Whatever is heard late belongs to a session that is over: an open client has a session,
\* one at most is alive, and after close() nothing is left that could open another.
OneSession ==
  /\ wtState = "open" => session # 0 \/ ghost
  /\ Cardinality({s \in Sessions : remote[s] \in Living}) <= 1
  /\ wtByUser => /\ wtState = "closed" /\ session = 0 /\ ~wtRetry /\ wtTimer = 0 /\ ~wtBeat /\ ~wtDeadline
                 /\ \A s \in Sessions : remote[s] \notin Living
  /\ writer # 0 => writer = session

\* A closed client that has not given up has something to come that opens the next session,
\* unless a session aborted before it was open or the last constructor threw.  One that is
\* left connecting, by a session without `ready` or by one that aborted, is not closed.
WtKeepsTrying ==
  wtState = "closed" /\ wtConnects > 0 /\ ~wtByUser /\ ~wtExhausted /\ ~broken /\ ~ghost /\ ~wtThrew =>
    wtRetry \/ (current # 0 /\ "closed" \in news[current])

WtIsSound == OneSession /\ WtKeepsTrying
=============================================================================
