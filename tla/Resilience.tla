----------------------------- MODULE Resilience -----------------------------
(***************************************************************************)
(* PowerTaskGroup, PowerDeadline, PowerRetry with its budget, and          *)
(* PowerCircuit at work together (src/helpers/powerTaskGroup.js,           *)
(* powerDeadline.js, powerRetry.js, powerCircuit.js).  The operations of a *)
(* group are of three kinds, and all are given the group's abort signal:   *)
(*                                                                         *)
(*   "retry"     PowerRetry.run(fn, { circuit, budget, signal, hedgeDelay, *)
(*               attemptTimeout }), every attempt through the circuit      *)
(*   "deadline"  PowerDeadline.run(fn, { signal, totalTimeout,             *)
(*               attemptTimeout }), which retries without a budget         *)
(*   "call"      circuit.call(fn, { signal })                              *)
(*                                                                         *)
(* A leg is one call of fn, << operation, attempt, number >>; the second   *)
(* leg of an attempt is its hedge.  A leg may outlive the attempt, and the *)
(* operation, that started it.                                             *)
(***************************************************************************)
EXTENDS Naturals, FiniteSets

CONSTANTS
  Threshold,       \* options.threshold of the circuit
  HalfOpenProbes,  \* options.halfOpenProbes
  Ops,             \* the operations users start
  MaxAttempts,     \* options.maxAttempts
  Capacity,        \* options.capacity of the retry budget, in quarters of a token
  Ratio,           \* options.ratio, in quarters
  Scenarios        \* the kinds of the operations and their options, to start from

Kinds == {"retry", "deadline", "call"}

ASSUME CircuitConstants ==
  /\ Threshold \in Nat \ {0}
  /\ HalfOpenProbes \in Nat \ {0}

ASSUME ResilienceConstants ==
  /\ IsFiniteSet(Ops)
  /\ MaxAttempts \in Nat \ {0}
  /\ Capacity \in Nat \ {0} /\ Ratio \in 0..4
  /\ Scenarios \subseteq [ kind          : [Ops -> Kinds],
                           hedges        : SUBSET Ops,     \* hedgeIf() lets them hedge
                           cancelOnError : BOOLEAN,        \* of the group
                           operated      : BOOLEAN ]       \* the circuit is reset by hand

VARIABLES
  scenario,   \* one of Scenarios
  run,        \* each operation's progress
  circuit,    \* the circuit shared by "retry" and "call"
  budget,     \* the retry budget shared by "retry"
  legs,       \* the calls of fn that run, and those told to stop by their signal
  group,      \* the task group
  probes      \* history: operations admitted as probes in this half-open period

vars == << scenario, run, circuit, budget, legs, group, probes >>

Token == 4
Legs == Ops \X (1..MaxAttempts) \X (1..2)
Results == {"none", "ok", "failed", "EABORT", "ETIMEOUT", "EDEADLINE", "ECIRCUITOPEN",
            "ECIRCUITDISPOSED", "refused"}

RunType ==
  [ phase   : {"new", "attempt", "judging", "sleep", "done"},
    attempt : 0..MaxAttempts,
    hedge   : {"off", "armed", "launched"},    \* of the first attempt
    expired : BOOLEAN,      \* the clock has passed deadlineAt
    result  : Results ]     \* what the promise settled with; before that, the last error

-----------------------------------------------------------------------------
(***************************************************************************)
(* The circuit, each method as an operator from circuit record to circuit  *)
(* record.  A call is three operators: the test that refuses it, its       *)
(* admission, and the settlement that its catch and finally blocks make of *)
(* its result, which may come at any later time and find the circuit in    *)
(* any state.  How long the open window lasts (_drawOpenWindow) is left to *)
(* the environment, which says when it has elapsed; notifications are left *)
(* out.                                                                    *)
(***************************************************************************)

CircuitType ==
  [ state    : {"closed", "open", "half-open"},   \* _state
    failures : 0..Threshold,                      \* _failures
    elapsed  : BOOLEAN,   \* now - _openedAt has reached _openWindowMs
    trials   : 0..HalfOpenProbes,                 \* _trialInFlight
    disposed : BOOLEAN ]

NewCircuit ==
  [ state |-> "closed", failures |-> 0, elapsed |-> FALSE, trials |-> 0, disposed |-> FALSE ]

\* Nothing changes when the circuit is in that state already.
SetState(k, new) ==
  IF k.state = new THEN k
  ELSE [k EXCEPT !.state = new,
                 !.elapsed = FALSE,
                 !.trials = IF new = "half-open" THEN @ ELSE 0]

(* call() throws ECIRCUITOPEN without running anything.  A disposed        *)
(* circuit has another call(), which rejects with another code.            *)
Refuses(k) ==
  \/ k.state = "open" /\ ~k.elapsed
  \/ k.state = "half-open" /\ k.trials >= HalfOpenProbes

(* The first call after the window is the first probe. *)
AfterAdmit(k) ==
  LET now == IF k.state = "open" THEN SetState(k, "half-open") ELSE k
  IN  IF now.state = "half-open" THEN [now EXCEPT !.trials = @ + 1] ELSE now

\* A faulty form: the finally block of a call forgets its slot.
GiveBackNothing(k) == k

(* The finally block: any call that ends while the circuit is not closed   *)
(* gives a slot back, whether or not it took one.                          *)
GiveBack(k) ==
  IF k.state # "closed" /\ k.trials > 0 THEN [k EXCEPT !.trials = @ - 1] ELSE k

(* A success closes the circuit, also that of a call older than the        *)
(* opening.                                                                *)
AfterSuccess(k) == GiveBack(SetState([k EXCEPT !.failures = 0], "closed"))

AfterFailure(k) ==
  LET failures == k.failures + 1
      counted ==
        IF k.state = "half-open" \/ failures >= Threshold
        THEN [SetState(k, "open") EXCEPT !.failures = 0]
        ELSE [k EXCEPT !.failures = failures]
  IN  GiveBack(counted)

(* A call whose signal was aborted is neither a success nor a failure. *)
AfterAborted(k) == GiveBack(k)

AfterReset(k) == [NewCircuit EXCEPT !.disposed = k.disposed]

AfterDispose(k) == [AfterReset(k) EXCEPT !.disposed = TRUE]

-----------------------------------------------------------------------------
Init ==
  /\ scenario \in Scenarios
  /\ run = [o \in Ops |-> [ phase |-> "new", attempt |-> 0, hedge |-> "off",
                            expired |-> FALSE, result |-> "none" ]]
  /\ circuit = NewCircuit
  /\ budget = [ tokens |-> Capacity, retries |-> 0, funded |-> 0 ]
  /\ legs = [ running |-> {}, told |-> {} ]
  /\ group = [ aborted |-> FALSE, disposed |-> FALSE, awaited |-> {}, cancelled |-> "no" ]
  /\ probes = {}

Kind(o) == scenario.kind[o]
Unsettled == { o \in Ops : run[o].phase \notin {"new", "done"} }
LegsOf(o, n) == { leg \in legs.running : leg[1] = o /\ leg[2] = n }
CurrentLegs(o) == LegsOf(o, run[o].attempt)
Timed(o) == Kind(o) \in {"retry", "deadline"}    \* runs under PowerRetry

-----------------------------------------------------------------------------
(***************************************************************************)
(* The retry budget.                                                       *)
(***************************************************************************)

Smaller(a, b) == IF a < b THEN a ELSE b
Less(a, b) == IF a > b THEN a - b ELSE 0

AfterRecordRequest(b) ==
  [b EXCEPT !.funded = @ + 1, !.tokens = Smaller(Capacity, @ + Ratio)]

CanRetry(b) == b.tokens >= Token

AfterConsumeRetry(b) == [b EXCEPT !.tokens = @ - Token, !.retries = @ + 1]

(* recordOutcome(), given what classifyError makes of the error. *)
Penalty(error) == IF error = "ETIMEOUT" THEN 2 ELSE 1

AfterOutcome(b, error) == [b EXCEPT !.tokens = Less(@, Penalty(error))]

-----------------------------------------------------------------------------
(***************************************************************************)
(* Steps shared by the three kinds.                                        *)
(***************************************************************************)

(* The promise of an operation settles.  The group's wrapper rethrows an   *)
(* error and aborts the siblings.                                          *)
Settles(o, result) ==
  /\ run' = [run EXCEPT ![o].phase = "done", ![o].result = result]
  /\ group' = IF result # "ok" /\ scenario.cancelOnError /\ ~group.disposed
              THEN [group EXCEPT !.aborted = TRUE] ELSE group

(* The circuit's part of a step, with the history of its probes. *)
CircuitTo(k, probing) ==
  /\ circuit' = k
  /\ probes' = IF k.state = "half-open" THEN probing ELSE {}

NoCircuit == UNCHANGED << circuit, probes >>

\* A faulty form: an attempt that settles leaves its other leg alone.
LosersOfNone(o, winners) ==
  legs' = [legs EXCEPT !.running = @ \ winners]

(* The attempt of o is over: its winner has ended, and the controller of   *)
(* every other leg is aborted.                                             *)
LosersOf(o, winners) ==
  LET running == legs.running \ winners
  IN  legs' = [ running |-> running,
                told    |-> (legs.told \cap running) \cup (CurrentLegs(o) \ winners) ]

Hedged(o, n, b) == n = 1 /\ o \in scenario.hedges /\ CanRetry(b)

\* A faulty form: a hedge is free.
AfterHedgeUnpaid(o, n, b) == b

(* A hedge is paid for when its timer is armed. *)
AfterHedge(o, n, b) == IF Hedged(o, n, b) THEN AfterConsumeRetry(b) ELSE b

(* Attempt n of o begins, at the top of the loop of PowerRetry.run() or in *)
(* circuit.call(), unless it is refused there.  b is the budget then.      *)
Begins(o, n, b) ==
  /\ run' = [run EXCEPT ![o].phase = "attempt", ![o].attempt = n,
                        ![o].hedge = IF Hedged(o, n, b) THEN "armed"
                                     ELSE IF @ = "launched" THEN @ ELSE "off"]
  /\ legs' = [legs EXCEPT !.running = @ \cup {<< o, n, 1 >>}]
  /\ budget' = AfterHedge(o, n, b)
  /\ UNCHANGED group

(* The call() of a disposed circuit looks at no signal; PowerRetry.run()   *)
(* has looked at its own before.                                           *)
MeetsDisposed(o) ==
  /\ Kind(o) # "deadline" /\ circuit.disposed
  /\ Kind(o) = "retry" => ~group.aborted

(* It rejects with ECIRCUITDISPOSED and runs nothing.  PowerRetry.run()    *)
(* gives up at once only on ECIRCUITOPEN and takes this for the failure of *)
(* an attempt, which the budget is penalised for and retryIf() judges.     *)
FailsDisposed(o, n, b) ==
  /\ IF Kind(o) = "call" THEN Settles(o, "ECIRCUITDISPOSED") /\ budget' = b
     ELSE /\ run' = [run EXCEPT ![o].phase = "judging", ![o].attempt = n,
                                ![o].hedge = IF @ = "launched" THEN @ ELSE "off",
                                ![o].result = "ECIRCUITDISPOSED"]
          /\ budget' = AfterOutcome(b, "ECIRCUITDISPOSED")
          /\ UNCHANGED group
  /\ NoCircuit /\ UNCHANGED legs

LoopTop(o, n, b) ==
  LET stop == CASE Kind(o) = "deadline" /\ run[o].expired -> "EDEADLINE"
                [] group.aborted -> "EABORT"
                [] Kind(o) # "deadline" /\ Refuses(circuit) -> "ECIRCUITOPEN"
                [] OTHER -> "none"
  IN  CASE MeetsDisposed(o) -> FailsDisposed(o, n, b)
        [] ~MeetsDisposed(o) /\ stop # "none" ->
             /\ Settles(o, stop)
             /\ budget' = b
             /\ NoCircuit /\ UNCHANGED legs
        [] OTHER ->
             /\ Begins(o, n, b)
             /\ IF Kind(o) = "deadline" THEN NoCircuit
                ELSE CircuitTo(AfterAdmit(circuit), probes \cup {o})

(* An attempt has failed: the circuit counts it, the budget is penalised,  *)
(* and PowerRetry.run() awaits retryIf(), whose answer is a step of its    *)
(* own.  A "call" has no loop around it and settles.                       *)
AttemptFails(o, error) ==
  /\ IF Kind(o) = "deadline" THEN NoCircuit
     ELSE CircuitTo(AfterFailure(circuit), probes \ {o})
  /\ budget' = IF Kind(o) = "retry" THEN AfterOutcome(budget, error) ELSE budget
  /\ IF Kind(o) = "call" THEN Settles(o, error)
     ELSE /\ run' = [run EXCEPT ![o].phase = "judging", ![o].result = error]
          /\ UNCHANGED group

AttemptSucceeds(o) ==
  /\ Settles(o, "ok")
  /\ IF Kind(o) = "deadline" THEN NoCircuit
     ELSE CircuitTo(AfterSuccess(circuit), probes \ {o})
  /\ UNCHANGED budget

-----------------------------------------------------------------------------
(***************************************************************************)
(* Actions.                                                                *)
(***************************************************************************)

(* group.run(): a disposed group refuses; otherwise the operation starts   *)
(* within the call.                                                        *)
Start(o) ==
  /\ run[o].phase = "new"
  /\ IF group.disposed
     THEN /\ run' = [run EXCEPT ![o].phase = "done", ![o].result = "refused"]
          /\ UNCHANGED << circuit, budget, legs, group, probes >>
     ELSE LoopTop(o, 1, IF Kind(o) = "retry" THEN AfterRecordRequest(budget) ELSE budget)
  /\ UNCHANGED scenario

HedgeTimer(o) ==
  /\ run[o].phase = "attempt" /\ run[o].hedge = "armed"
  /\ run' = [run EXCEPT ![o].hedge = "launched"]
  /\ legs' = [legs EXCEPT !.running = @ \cup {<< o, run[o].attempt, 2 >>}]
  /\ UNCHANGED << scenario, circuit, budget, group, probes >>

(* fn settles.  Nobody listens to a leg whose attempt is over, or to one   *)
(* whose race the abort has won.                                           *)
Heard(leg) ==
  LET o == leg[1]
  IN  /\ run[o].phase = "attempt" /\ leg[2] = run[o].attempt
      /\ Kind(o) # "retry" => ~group.aborted

LegEnds(leg, ok) ==
  /\ leg \in legs.running
  /\ IF Heard(leg)
     THEN /\ LosersOf(leg[1], {leg})
          /\ IF ok THEN AttemptSucceeds(leg[1]) ELSE AttemptFails(leg[1], "failed")
     ELSE /\ legs' = [ running |-> legs.running \ {leg}, told |-> legs.told \ {leg} ]
          /\ UNCHANGED << run, circuit, budget, group, probes >>
  /\ UNCHANGED scenario

AttemptTimer(o) ==
  /\ Timed(o) /\ run[o].phase = "attempt"
  /\ LosersOf(o, {})
  /\ AttemptFails(o, "ETIMEOUT")
  /\ UNCHANGED scenario

(* retryIf() has answered. *)
Judge(o, retry) ==
  /\ run[o].phase = "judging"
  /\ IF ~retry \/ run[o].attempt = MaxAttempts \/ (Kind(o) = "retry" /\ ~CanRetry(budget))
     THEN Settles(o, run[o].result) /\ UNCHANGED budget
     ELSE /\ run' = [run EXCEPT ![o].phase = "sleep"]
          /\ budget' = IF Kind(o) = "retry" THEN AfterConsumeRetry(budget) ELSE budget
          /\ UNCHANGED group
  /\ UNCHANGED << scenario, circuit, legs, probes >>

(* The backoff ends.  PowerDeadline gives PowerRetry no signal, so its     *)
(* sleep goes on through an abort and past the deadline.                   *)
Wake(o) ==
  /\ run[o].phase = "sleep"
  /\ Kind(o) = "retry" => ~group.aborted
  /\ LoopTop(o, run[o].attempt + 1, budget)
  /\ UNCHANGED scenario

AbortSleep(o) ==
  /\ run[o].phase = "sleep" /\ Kind(o) = "retry" /\ group.aborted
  /\ Settles(o, "EABORT")
  /\ UNCHANGED << scenario, circuit, budget, legs, probes >>

Expire(o) ==
  /\ Kind(o) = "deadline" /\ o \in Unsettled /\ ~run[o].expired
  /\ run' = [run EXCEPT ![o].expired = TRUE]
  /\ UNCHANGED << scenario, circuit, budget, legs, group, probes >>

(* The deadline timer of the attempt: EDEADLINE is not retried. *)
DeadlineTimer(o) ==
  /\ Kind(o) = "deadline" /\ run[o].phase = "attempt" /\ run[o].expired
  /\ LosersOf(o, {})
  /\ Settles(o, "EDEADLINE")
  /\ UNCHANGED << scenario, circuit, budget, probes >>

(* The abort reaches an attempt of PowerDeadline, whose fn is told, or a   *)
(* circuit.call(), whose fn was given no signal.  PowerRetry lets its      *)
(* attempt finish.                                                         *)
AbortAttempt(o) ==
  /\ Kind(o) # "retry" /\ run[o].phase = "attempt" /\ group.aborted
  /\ LosersOf(o, {})
  /\ Settles(o, "EABORT")
  /\ IF Kind(o) = "call" THEN CircuitTo(AfterAborted(circuit), probes \ {o}) ELSE NoCircuit
  /\ UNCHANGED << scenario, budget >>

WindowElapses ==
  /\ circuit.state = "open" /\ ~circuit.elapsed
  /\ CircuitTo([circuit EXCEPT !.elapsed = TRUE], {})
  /\ UNCHANGED << scenario, run, budget, legs, group >>

ResetCircuit ==
  /\ scenario.operated /\ circuit # NewCircuit /\ ~circuit.disposed
  /\ CircuitTo(AfterReset(circuit), {})
  /\ UNCHANGED << scenario, run, budget, legs, group >>

DisposeCircuit ==
  /\ scenario.operated /\ ~circuit.disposed
  /\ CircuitTo(AfterDispose(circuit), {})
  /\ UNCHANGED << scenario, run, budget, legs, group >>

\* A faulty form: cancel() waits for the tasks without aborting them.
CancelOnlyWaits ==
  /\ ~group.disposed
  /\ group' = [group EXCEPT !.disposed = TRUE, !.cancelled = "waiting", !.awaited = Unsettled]
  /\ UNCHANGED << scenario, run, circuit, budget, legs, probes >>

(* group.cancel() disposes, aborts and awaits the tasks there are.         *)
Cancel ==
  /\ ~group.disposed
  /\ group' = [ aborted |-> TRUE, disposed |-> TRUE,
                cancelled |-> "waiting", awaited |-> Unsettled ]
  /\ UNCHANGED << scenario, run, circuit, budget, legs, probes >>

CancelReturns ==
  /\ group.cancelled = "waiting" /\ group.awaited \cap Unsettled = {}
  /\ group' = [group EXCEPT !.cancelled = "done", !.awaited = {}]
  /\ UNCHANGED << scenario, run, circuit, budget, legs, probes >>

(* group[Symbol.dispose](): as cancel(), without the wait. *)
DisposeGroup ==
  /\ ~group.disposed
  /\ group' = [group EXCEPT !.aborted = TRUE, !.disposed = TRUE]
  /\ UNCHANGED << scenario, run, circuit, budget, legs, probes >>

Next ==
  \/ \E o \in Ops :
       \/ Start(o) \/ HedgeTimer(o) \/ AttemptTimer(o)
       \/ \E retry \in BOOLEAN : Judge(o, retry)
       \/ Wake(o) \/ AbortSleep(o)
       \/ Expire(o) \/ DeadlineTimer(o) \/ AbortAttempt(o)
  \/ \E leg \in Legs, ok \in BOOLEAN : LegEnds(leg, ok)
  \/ WindowElapses \/ ResetCircuit \/ DisposeCircuit
  \/ Cancel \/ CancelReturns \/ DisposeGroup

(* Timers fire and promise reactions run; retryIf() answers.  No call of   *)
(* fn ever needs to return.                                                *)
Fairness ==
  /\ \A o \in Ops :
       /\ WF_vars(AttemptTimer(o))
       /\ WF_vars(\E retry \in BOOLEAN : Judge(o, retry))
       /\ WF_vars(Wake(o))
       /\ WF_vars(AbortSleep(o))
       /\ WF_vars(AbortAttempt(o))
  /\ WF_vars(CancelReturns)

Spec == Init /\ [][Next]_vars /\ Fairness

-----------------------------------------------------------------------------
(***************************************************************************)
(* Properties.                                                             *)
(***************************************************************************)

TypeOK ==
  /\ scenario \in Scenarios
  /\ run \in [Ops -> RunType]
  /\ circuit \in CircuitType
  /\ budget \in [ tokens : 0..Capacity, retries : Nat, funded : Nat ]
  /\ legs \in [ running : SUBSET Legs, told : SUBSET Legs ]
  /\ group \in [ aborted : BOOLEAN, disposed : BOOLEAN, awaited : SUBSET Ops,
                 cancelled : {"no", "waiting", "done"} ]
  /\ probes \subseteq Ops

(* A half-open circuit counts its probes: no slot stays taken by a call    *)
(* that has settled, which would leave the circuit refusing for ever, and  *)
(* as long as no call was aborted none is free that is in use, however     *)
(* many calls older than the opening settle meanwhile.                     *)
ProbeSlots ==
  circuit.state = "half-open" =>
    /\ circuit.trials <= Cardinality(probes)
    /\ ~group.aborted => circuit.trials = Cardinality(probes)

(* Every request beyond the first of its run, retry or hedge, was paid for *)
(* with a whole token: over any time the budget lets through no more than  *)
(* its capacity and its share of the requests made.                        *)
ExtraRequests ==
  LET retried(o) == IF Kind(o) = "retry" THEN 1..(run[o].attempt - 1) ELSE {}
      hedged(o) == IF run[o].hedge = "launched" THEN {0} ELSE {}
  IN  Cardinality({ x \in Ops \X (0..MaxAttempts) : x[2] \in retried(x[1]) \cup hedged(x[1]) })

ExtraWorkIsPaid ==
  /\ ExtraRequests <= budget.retries
  /\ budget.tokens + Token * budget.retries <= Capacity + Ratio * budget.funded

(* No work is left running by mistake: a call of fn that nobody waits for  *)
(* any more, because its attempt timed out, lost to its hedge, met the     *)
(* deadline or was aborted, has had its signal aborted.  circuit.call()    *)
(* gives fn no signal and cannot promise this.                             *)
NoOrphan ==
  \A leg \in legs.running :
    LET o == leg[1]
    IN  \/ Kind(o) = "call"
        \/ run[o].phase = "attempt" /\ leg[2] = run[o].attempt
        \/ leg \in legs.told

(* Every run settles although fn may never return: by its result, its      *)
(* timers, the circuit, the budget or the abort; and cancel() returns,     *)
(* although what it waits for may be a call without a timeout.             *)
EveryRunSettles ==
  /\ \A o \in Ops : (Timed(o) /\ run[o].phase # "new") ~> (run[o].phase = "done")
  /\ (group.cancelled = "waiting") ~> (group.cancelled = "done")
=============================================================================
