------------------------------ MODULE Memoizer ------------------------------
(***************************************************************************)
(* PowerMemoizer (src/helpers/cache/memoizer.js) around an asynchronous    *)
(* function: a call is answered by the cache, joins the run registered in  *)
(* _inflight for its key, or runs the function.  What evicts an entry of   *)
(* the cache (capacity, expiry) is a choice of the environment.  Only the  *)
(* promise of the wrapper stores the value and takes the run out of        *)
(* _inflight, by key and whatever is registered there by then.             *)
(***************************************************************************)
EXTENDS Integers, FiniteSets

CONSTANTS MKeys, Runs, Callers, NoRun

ASSUME MemoConstants == NoRun \notin Runs

VARIABLES
  store,       \* key -> the run whose value the cache holds, or NoRun
  memoFlight,  \* _inflight
  runs,        \* each run's key and state: "none", "running", "ok", "failed"
  callers,     \* each caller: "new", "waiting" on a run, "done" with a run's outcome
  given        \* history: keys dropped by delete() or clear() while a run was registered

mvars == << store, memoFlight, runs, callers, given >>

MInit ==
  /\ store = [k \in MKeys |-> NoRun] /\ memoFlight = [k \in MKeys |-> NoRun]
  /\ runs = [r \in Runs |-> [key |-> NoRun, state |-> "none"]]
  /\ callers = [i \in Callers |-> [state |-> "new", run |-> NoRun]]
  /\ given = {}

\* Runs begin, and calls are made, in the order of their numbers.
MayBegin(r) == runs[r].state = "none" /\ \A q \in Runs : q < r => runs[q].state # "none"
MayCall(i) == callers[i].state = "new" /\ \A j \in Callers : j < i => callers[j].state # "new"
MemoAnswered(i, r) == [callers EXCEPT ![i] = [state |-> "done", run |-> r]]
Waiting(i, r) == [callers EXCEPT ![i] = [state |-> "waiting", run |-> r]]

MemoHit(i, k) ==
  /\ MayCall(i) /\ store[k] # NoRun
  /\ callers' = MemoAnswered(i, store[k])
  /\ UNCHANGED << store, memoFlight, runs, given >>

MemoJoin(i, k) ==
  /\ MayCall(i) /\ store[k] = NoRun /\ memoFlight[k] # NoRun
  /\ callers' = Waiting(i, memoFlight[k])
  /\ UNCHANGED << store, memoFlight, runs, given >>

MemoRun(i, k) ==
  /\ MayCall(i) /\ store[k] = NoRun /\ memoFlight[k] = NoRun
  /\ \E r \in Runs :
       /\ MayBegin(r)
       /\ runs' = [runs EXCEPT ![r] = [key |-> k, state |-> "running"]]
       /\ memoFlight' = [memoFlight EXCEPT ![k] = r]
       /\ callers' = Waiting(i, r)
  /\ UNCHANGED << store, given >>

\* Bug: a run that fails stays registered.
ReleasedIfOk(k, ok) == IF ok THEN [memoFlight EXCEPT ![k] = NoRun] ELSE memoFlight

\* What finally leaves of _inflight.
Released(k, ok) == [memoFlight EXCEPT ![k] = NoRun]

RunEnds(r, ok) ==
  LET k == runs[r].key
  IN  /\ runs[r].state = "running"
      /\ runs' = [runs EXCEPT ![r].state = IF ok THEN "ok" ELSE "failed"]
      /\ store' = IF ok THEN [store EXCEPT ![k] = r] ELSE store
      /\ memoFlight' = Released(k, ok)
      /\ callers' = [i \in Callers |-> IF callers[i] = [state |-> "waiting", run |-> r]
                                       THEN [state |-> "done", run |-> r] ELSE callers[i]]
      /\ UNCHANGED given

Lose(k) ==
  /\ store[k] # NoRun /\ store' = [store EXCEPT ![k] = NoRun]
  /\ UNCHANGED << memoFlight, runs, callers, given >>

Give(S) == given' = given \cup { k \in S : memoFlight[k] # NoRun }

MemoDelete(k) ==
  /\ Give({k})
  /\ memoFlight' = [memoFlight EXCEPT ![k] = NoRun]
  /\ store' = [store EXCEPT ![k] = NoRun]
  /\ UNCHANGED << runs, callers >>

MemoClear ==
  /\ Give(MKeys)
  /\ memoFlight' = [k \in MKeys |-> NoRun] /\ store' = [k \in MKeys |-> NoRun]
  /\ UNCHANGED << runs, callers >>

MNext ==
  \/ \E k \in MKeys :
       \/ \E i \in Callers : MemoHit(i, k) \/ MemoJoin(i, k) \/ MemoRun(i, k)
       \/ Lose(k) \/ MemoDelete(k)
  \/ \E r \in Runs, ok \in BOOLEAN : RunEnds(r, ok)
  \/ MemoClear

\* A key has one run at a time unless it was given up while one ran; a caller waits on a
\* run that runs, and is answered by a run of its own key's value.
RunsAreShared ==
  /\ \A q, r \in Runs : runs[q].state = "running" /\ runs[r].state = "running"
       /\ runs[q].key = runs[r].key => q = r \/ runs[q].key \in given
  /\ \A k \in MKeys : memoFlight[k] # NoRun => runs[memoFlight[k]] = [key |-> k, state |-> "running"]
  /\ \A i \in Callers : callers[i].state = "waiting" => runs[callers[i].run].state = "running"
  /\ \A k \in MKeys : store[k] # NoRun => runs[store[k]] = [key |-> k, state |-> "ok"]
=============================================================================
