---------------------------- MODULE MCPowerPool ----------------------------
(* The scenarios that PowerPool is model-checked in. *)
EXTENDS PowerPool

CONSTANTS
  r1, r2, r3, f1,    \* requests and a post without a response
  k0,                \* a correlation id several requests may share
  d1, d2             \* drains

ThreeRequests == {r1, r2, r3}
FourCalls == {r1, r2, r3, f1}
ThreeCalls == {r1, r2, f1}
AllKeys == Calls \cup {k0}
RequestSymmetry == Permutations(Calls \ {f1})

\* Requests with signals and correlation ids of their own, one task per worker.
Plain ==
  [ options |->
      [ requests |-> Calls \ {f1}, keyOf |-> [c \in Calls |-> c],
        prio |-> [c \in Calls |-> 0], zeroCopy |-> {}, mayThrow |-> {},
        signalled |-> Calls \ {f1}, deadlined |-> {}, maxTasks |-> 1, maxQueue |-> 2,
        maxDrains |-> 1, policy |-> "enqueue", taskQueue |-> TRUE, readyGate |-> FALSE, aging |-> FALSE, limits |-> {},
        spawnMayFail |-> FALSE ],
    minSize |-> 1, maxSize |-> 2, uses |-> {} ]

\* Callers post and abort, responses time out, workers die, a drain waits.
Core ==
  [ Plain EXCEPT !.uses = {"post", "abort", "timeout", "exit", "drain", "giveUp", "close",
                           "shutdown"} ]

\* The pool is paused, grown, shrunk and reaped under load.
Operated ==
  [ Plain EXCEPT
      !.options.maxTasks = 2, !.options.policy = "drop-oldest", !.options.spawnMayFail = TRUE,
      !.uses = {"post", "postTo", "broadcast", "pause", "add", "remove", "resize", "reap",
                "drain"} ]

\* The pool is reset, drained, closed and shut down while workers die.
Reset ==
  [ Plain EXCEPT
      !.options.policy = "drop-newest", !.options.spawnMayFail = TRUE,
      !.uses = {"post", "stopThePress", "exit", "close", "drain"} ]

\* Workers also post messages that answer nothing.
Chatty ==
  [ Plain EXCEPT !.options.maxTasks = 2,
                 !.uses = {"post", "chatter", "exit", "drain", "timeout"} ]

\* A pool of fixed size whose workers announce that they are ready; one request
\* is urgent and the plain post has a deadline.
Ready ==
  { [ Plain EXCEPT
        !.options.readyGate = TRUE, !.options.deadlined = {f1}, !.options.maxTasks = 2,
        !.options.prio = [c \in Calls |-> IF c = urgent THEN 1 ELSE 0],
        !.minSize = 2,
        !.uses = {"post", "ready", "overdue", "elapse", "pause"} ] : urgent \in Calls \ {f1} }

\* A pool that grows: a post gives a worker its first task before it is ready.
Eager ==
  [ Plain EXCEPT
      !.options.readyGate = TRUE, !.options.maxTasks = 2, !.minSize = 0,
      !.uses = {"post", "ready", "overdue", "exit", "resize"} ]

\* The requests share one correlation id.
OneKey ==
  [ Plain EXCEPT
      !.options.keyOf = [c \in Calls |-> IF c = f1 THEN c ELSE k0],
      !.uses = {"post", "batch", "abort", "timeout", "exit"} ]

\* Batches that await nothing, one of which may be for a worker, while workers die.
Batched ==
  { [ Plain EXCEPT
        !.options.requests = {}, !.options.signalled = {}, !.options.policy = policy,
        !.options.mayThrow = {f1}, !.options.spawnMayFail = size = 2, !.maxSize = size,
        !.uses = {"batch", "post", "exit", "drain"} \cup
                 IF policy = "enqueue" THEN {"batchTo"} ELSE {"stopThePressBatch"} ] :
      policy \in {"enqueue", "drop-oldest", "drop-newest", "reject"}, size \in {1, 2} }

\* Batches that await responses, and no queue.
Unqueued ==
  [ Plain EXCEPT !.options.taskQueue = FALSE, !.uses = {"batch", "batchTo", "exit", "drain"} ]

\* The pool is scaled by its latencies, within an adaptive limit on the tasks in flight.
Scaled ==
  [ Plain EXCEPT
      !.options.limits = {1, 2}, !.options.maxTasks = 2,
      !.uses = {"post", "batch", "autoscale", "drain", "pause"} ]

\* Priorities age: the plain post is urgent, and the requests that wait may outweigh it.
Aged ==
  [ Plain EXCEPT
      !.options.aging = TRUE, !.options.maxQueue = 3, !.maxSize = 1,
      !.options.prio = [c \in Calls |-> IF c = f1 THEN 1 ELSE 0],
      !.uses = {"post", "batch", "abort", "exit", "pause"} ]

SafetyScenarios ==
  {Core, Operated, Reset, Chatty, Eager, OneKey, Unqueued, Scaled, Aged} \cup Ready \cup Batched

\* Workers answer and announce themselves, and the queue is resumed.
LiveScenarios ==
  { [ Plain EXCEPT !.maxSize = 1, !.uses = {"post", "pause", "drain", "close"} ],
    [ Plain EXCEPT !.maxSize = 1, !.options.readyGate = TRUE,
                   !.uses = {"post", "ready", "drain"} ],
    [ Plain EXCEPT !.maxSize = 1, !.options.maxTasks = 2, !.options.limits = {1, 2},
                   !.uses = {"batch", "autoscale", "drain"} ] }

\* A queued item whose post to the worker throws.
ThrowScenarios ==
  { [ Plain EXCEPT !.maxSize = 1, !.options.mayThrow = Calls \ {f1}, !.uses = {"post"} ] }

\* A worker dies while tasks are queued.
ExitScenarios ==
  { [ Plain EXCEPT !.maxSize = 1, !.uses = {"post", "exit", "drain"} ] }
=============================================================================
