-------------------------------- MODULE Cron --------------------------------
(***************************************************************************)
(* PowerCron (src/helpers/powerCron.js): a task on an absolute schedule.   *)
(* A run may be asynchronous, and is then in flight until it finishes; a   *)
(* task does not call the cron's own methods.                              *)
(***************************************************************************)
EXTENDS Integers

CONSTANTS Interval, MaxCatchUp, LastCronTick, MaxInFlight

ASSUME CronConstants ==
  /\ Interval \in Nat \ {0}
  /\ {MaxCatchUp, LastCronTick, MaxInFlight} \subseteq Nat

VARIABLES
  cronClock, policy, overlap,
  running, timerOn, nextAt,    \* _running, _timer, _nextAt
  runningTask, inFlight,       \* _runningTask; the runs that have not finished
  anchor,                      \* history: when start() was called
  told,                        \* history: periods run, or reported as missed, since then
  blocked,                     \* history: periods given up because a run was in flight
  excused                      \* history: runs may overlap, by runNow(), a restart or a replay

cronVars == << cronClock, policy, overlap, running, timerOn, nextAt, runningTask, inFlight,
               anchor, told, blocked, excused >>

CronInit ==
  /\ cronClock = 0 /\ policy \in {"skip", "catch-up", "run-once"} /\ overlap \in BOOLEAN
  /\ running = FALSE /\ timerOn = FALSE /\ nextAt = 0
  /\ runningTask = FALSE /\ inFlight = 0
  /\ anchor = 0 /\ told = 0 /\ blocked = 0 /\ excused = FALSE

\* _run() n times over: a synchronous task has finished when it returns.
RunTask(n, async) ==
  /\ inFlight + n <= MaxInFlight
  /\ runningTask' = async
  /\ inFlight' = IF async THEN inFlight + n ELSE inFlight
  /\ excused' = (excused \/ (inFlight > 0 \/ (async /\ n > 1)))

\* start() arms first, then runs the task when runOnStart is set.
Start(runOnStart, async) ==
  /\ ~running /\ running' = TRUE /\ timerOn' = TRUE
  /\ nextAt' = cronClock + Interval /\ anchor' = cronClock /\ told' = 0 /\ blocked' = 0
  /\ IF runOnStart THEN RunTask(1, async)
     ELSE excused' = (excused \/ inFlight > 0) /\ UNCHANGED << runningTask, inFlight >>
  /\ UNCHANGED << cronClock, policy, overlap >>

Stop ==
  /\ running /\ running' = FALSE /\ runningTask' = FALSE /\ timerOn' = FALSE
  /\ UNCHANGED << cronClock, policy, overlap, nextAt, inFlight, anchor, told, blocked, excused >>

RunNow(async) ==
  /\ RunTask(1, async)
  /\ UNCHANGED << cronClock, policy, overlap, running, timerOn, nextAt, anchor, told, blocked >>

MissedPeriods == (cronClock - nextAt) \div Interval

Replayed == IF policy = "catch-up" THEN (IF MissedPeriods < MaxCatchUp THEN MissedPeriods ELSE MaxCatchUp) ELSE 0

\* Bug: the run after the replays reports the periods that were replayed once more.
ReportedAgain == MissedPeriods

\* What the run that follows reports as missed.
Reported == IF policy = "catch-up" THEN MissedPeriods - Replayed ELSE MissedPeriods

\* The periods of one tick: the next target is counted from this one, never from now.
Advance == nextAt' = nextAt + (MissedPeriods + 1) * Interval

Blocked == ~overlap /\ runningTask

TickIsBlocked ==
  /\ running /\ timerOn /\ cronClock >= nextAt /\ Blocked
  /\ Advance
  /\ blocked' = blocked + MissedPeriods + 1
  /\ UNCHANGED << cronClock, policy, overlap, running, timerOn, runningTask, inFlight, anchor, told, excused >>

TickRuns(async) ==
  /\ running /\ timerOn /\ cronClock >= nextAt /\ ~Blocked
  /\ Advance
  /\ RunTask(Replayed + 1, async)
  /\ told' = told + Replayed + Reported + 1
  /\ UNCHANGED << cronClock, policy, overlap, running, timerOn, anchor, blocked >>

\* A run in flight is fulfilled or rejected.
Finish ==
  /\ inFlight > 0 /\ inFlight' = inFlight - 1 /\ runningTask' = FALSE
  /\ UNCHANGED << cronClock, policy, overlap, running, timerOn, nextAt, anchor, told, blocked, excused >>

CronTick ==
  /\ cronClock < LastCronTick /\ cronClock' = cronClock + 1
  /\ UNCHANGED << policy, overlap, running, timerOn, nextAt, runningTask, inFlight,
                  anchor, told, blocked, excused >>

CronNext ==
  \/ \E async \in BOOLEAN : (\E s \in BOOLEAN : Start(s, async)) \/ RunNow(async) \/ TickRuns(async)
  \/ Stop \/ TickIsBlocked \/ Finish \/ CronTick

\* Every period since start() has been run, reported as missed, or given up to a run that
\* was in flight, each one once, and the schedule has not drifted from start().
PeriodsAreAccounted ==
  running => /\ timerOn
             /\ nextAt = anchor + (told + blocked + 1) * Interval

\* Without overlap two runs are in flight together only after a runNow(), a restart or a
\* replay put one there.
RunsDoNotOverlap == ~overlap /\ inFlight > 1 => excused
=============================================================================
