-------------------------- MODULE Resilience_proofs --------------------------
(***************************************************************************)
(* The safety of the retried operations, their circuit, their budget and   *)
(* their group, for every set of operations, every scenario and every      *)
(* value of the options.                                                   *)
(***************************************************************************)
EXTENDS Resilience, FiniteSetTheorems, TLAPS

\* What holds of the circuit beside its type: slots are taken while it is half-open.
CircuitSound(k) == k \in CircuitType /\ (k.state # "half-open" => k.trials = 0)

\* Probes are attempts in progress, and exist while the circuit is half-open.
CircuitInv ==
  /\ CircuitSound(circuit)
  /\ circuit.state # "half-open" => probes = {}
  /\ \A o \in probes : run[o].phase = "attempt" /\ Kind(o) # "deadline"
  /\ ProbeSlots

\* Request k beyond the first of operation o has been paid for: its hedge (0) from when the
\* timer is armed, retry k from when the sleep before it begins.
PaidFor(o, k) ==
  \/ k = 0 /\ run[o].hedge \in {"armed", "launched"}
  \/ /\ k \in 1..run[o].attempt /\ Kind(o) = "retry"
     /\ k < run[o].attempt \/ run[o].phase = "sleep"

Paid == {x \in Ops \X (0..MaxAttempts) : PaidFor(x[1], x[2])}

\* The tokens that are left and those that were spent have all been put in.
Funded(b) == b.tokens + Token * b.retries <= Capacity + Ratio * b.funded

BudgetInv == Cardinality(Paid) <= budget.retries /\ Funded(budget)

\* Attempts are numbered from 1, and a backoff sleep is followed by one more.
Numbered(r) ==
  /\ r.phase \in {"attempt", "judging", "sleep"} => r.attempt # 0
  /\ r.phase = "sleep" => r.attempt # MaxAttempts

TypeInv == TypeOK /\ \A o \in Ops : Numbered(run[o])

\* The inductive invariant.
IInv == TypeInv /\ CircuitInv /\ BudgetInv /\ NoOrphan

-----------------------------------------------------------------------------
(* Types.                                                                  *)

States == {"closed", "open", "half-open"}

(* The state of a circuit is set, and with it its slots.                   *)
LEMMA StateSet ==
  ASSUME NEW k \in CircuitType, NEW new \in States
  PROVE  /\ SetState(k, new) \in CircuitType
         /\ SetState(k, new).state = new
         /\ k.state # new => SetState(k, new).trials = IF new = "half-open" THEN k.trials ELSE 0
         /\ k.state = new => SetState(k, new) = k
<1> DEFINE t == IF new = "half-open" THEN k.trials ELSE 0
           h == [k EXCEPT !.state = new, !.elapsed = FALSE, !.trials = t]
<1>1. t \in 0..HalfOpenProbes BY CircuitConstants DEF CircuitType
<1>2. SetState(k, new) = IF k.state = new THEN k ELSE h BY DEF SetState
<1>3. h.state = new /\ h.trials = t BY DEF CircuitType
<1> HIDE DEF t
<1>4. h \in CircuitType BY <1>1 DEF CircuitType, States
<1> QED BY <1>2, <1>3, <1>4 DEF t

(* The slots of a circuit are counted without the other fields.            *)
LEMMA TrialsSet ==
  ASSUME NEW k \in CircuitType, NEW n \in 0..HalfOpenProbes
  PROVE  /\ [k EXCEPT !.trials = n] \in CircuitType
         /\ [k EXCEPT !.trials = n].state = k.state
         /\ [k EXCEPT !.trials = n].trials = n
BY DEF CircuitType

(* call() is admitted: in a circuit that is not closed it takes a slot.    *)
LEMMA Admitted ==
  ASSUME NEW k, CircuitSound(k), ~Refuses(k)
  PROVE  LET h == AfterAdmit(k)
         IN  /\ CircuitSound(h)
             /\ k.state = "closed" => h = k
             /\ k.state # "closed" => h.state = "half-open" /\ h.trials = k.trials + 1
<1>1. /\ k \in CircuitType /\ k.state \in States /\ k.trials \in 0..HalfOpenProbes
      /\ k.state # "half-open" => k.trials = 0
  BY DEF CircuitSound, CircuitType, States
<1>2. k.state # "closed" => k.trials + 1 \in 0..HalfOpenProbes
  BY <1>1, CircuitConstants DEF Refuses, States
<1>3. CASE k.state = "closed"
  BY <1>3 DEF AfterAdmit, CircuitSound
<1>4. CASE k.state = "half-open"
  <2>1. AfterAdmit(k) = [k EXCEPT !.trials = k.trials + 1] BY <1>4 DEF AfterAdmit
  <2> QED BY <1>1, <1>2, <1>4, <2>1, TrialsSet DEF CircuitSound
<1>5. CASE k.state = "open"
  <2> DEFINE now == SetState(k, "half-open")
  <2>1. now \in CircuitType /\ now.state = "half-open" /\ now.trials = k.trials
    BY <1>1, <1>5, StateSet DEF States
  <2>2. AfterAdmit(k) = [now EXCEPT !.trials = now.trials + 1]
    BY <1>5, <2>1 DEF AfterAdmit
  <2> HIDE DEF now
  <2> QED BY <1>2, <1>5, <2>1, <2>2, TrialsSet DEF CircuitSound
<1> QED BY <1>1, <1>3, <1>4, <1>5 DEF States

(* A call ends: it gives back a slot of a circuit that is not closed.      *)
LEMMA GivenBack ==
  ASSUME NEW k \in CircuitType
  PROVE  /\ GiveBack(k) \in CircuitType
         /\ GiveBack(k).state = k.state
         /\ GiveBack(k).trials = IF k.state # "closed" /\ k.trials > 0 THEN k.trials - 1
                                 ELSE k.trials
<1>1. k.trials \in Nat /\ k.trials \in 0..HalfOpenProbes BY CircuitConstants DEF CircuitType
<1>2. k.trials > 0 => k.trials - 1 \in 0..HalfOpenProbes BY <1>1, CircuitConstants
<1> QED BY <1>2, TrialsSet DEF GiveBack

(* A success closes the circuit, whatever its state.                       *)
LEMMA Succeeded ==
  ASSUME NEW k, CircuitSound(k)
  PROVE  CircuitSound(AfterSuccess(k)) /\ AfterSuccess(k).state = "closed"
<1> DEFINE c == [k EXCEPT !.failures = 0]
           h == SetState(c, "closed")
<1>1. c \in CircuitType /\ c.state = k.state /\ c.trials = k.trials
  BY CircuitConstants DEF CircuitSound, CircuitType
<1>2. AfterSuccess(k) = GiveBack(h) BY DEF AfterSuccess
<1> HIDE DEF c
<1>3. h \in CircuitType /\ h.state = "closed" /\ h.trials = 0
  BY <1>1, StateSet DEF CircuitSound, States
<1> HIDE DEF h
<1> QED BY <1>2, <1>3, GivenBack DEF CircuitSound

(* A failure leaves the circuit closed, or opens it.                       *)
LEMMA Failed ==
  ASSUME NEW k, CircuitSound(k)
  PROVE  CircuitSound(AfterFailure(k)) /\ AfterFailure(k).state # "half-open"
<1> DEFINE n == k.failures + 1
           s == SetState(k, "open")
           o == [s EXCEPT !.failures = 0]
           c == [k EXCEPT !.failures = n]
           counted == IF k.state = "half-open" \/ n >= Threshold THEN o ELSE c
<1>1. k \in CircuitType /\ k.failures \in 0..Threshold /\ Threshold \in Nat \ {0}
  BY CircuitConstants DEF CircuitSound, CircuitType
<1>2. s \in CircuitType /\ s.state = "open" /\ s.trials = 0
  BY <1>1, StateSet DEF CircuitSound, States
<1>3. o \in CircuitType /\ o.state = "open" /\ o.trials = 0
  <2> HIDE DEF s
  <2> QED BY <1>1, <1>2 DEF CircuitType
<1>4. ASSUME n < Threshold
      PROVE  c \in CircuitType /\ c.state = k.state /\ c.trials = k.trials
  <2>1. n \in 0..Threshold BY <1>1, <1>4
  <2> HIDE DEF n
  <2> QED BY <1>1, <2>1 DEF CircuitType
<1>5. AfterFailure(k) = GiveBack(counted) BY DEF AfterFailure
<1>6. counted \in CircuitType /\ counted.state # "half-open" /\ counted.trials = 0
  <2> HIDE DEF o, c
  <2>1. n \in Nat BY <1>1
  <2> HIDE DEF n
  <2> QED BY <1>1, <1>3, <1>4, <2>1 DEF CircuitSound
<1> HIDE DEF counted
<1> QED BY <1>5, <1>6, GivenBack DEF CircuitSound

(* A circuit that is reset or disposed of is closed.                       *)
LEMMA Restarted ==
  ASSUME NEW k, CircuitSound(k)
  PROVE  /\ CircuitSound(AfterReset(k)) /\ AfterReset(k).state = "closed"
         /\ CircuitSound(AfterDispose(k)) /\ AfterDispose(k).state = "closed"
<1>1. k.disposed \in BOOLEAN BY DEF CircuitSound, CircuitType
<1>2. NewCircuit \in CircuitType /\ NewCircuit.state = "closed" /\ NewCircuit.trials = 0
  BY CircuitConstants DEF NewCircuit, CircuitType
<1> DEFINE h == AfterReset(k)
<1>3. h \in CircuitType /\ h.state = "closed" /\ h.trials = 0
  <2> DEFINE d == k.disposed
  <2> HIDE DEF d
  <2>1. d \in BOOLEAN BY <1>1 DEF d
  <2>2. h = [NewCircuit EXCEPT !.disposed = d] BY DEF AfterReset, d
  <2> HIDE DEF h
  <2> QED BY <1>2, <2>1, <2>2 DEF CircuitType
<1>4. AfterDispose(k) = [h EXCEPT !.disposed = TRUE] BY DEF AfterDispose
<1> HIDE DEF h
<1>5. [h EXCEPT !.disposed = TRUE] \in CircuitType /\ [h EXCEPT !.disposed = TRUE].state = "closed"
      /\ [h EXCEPT !.disposed = TRUE].trials = 0
  BY <1>3 DEF CircuitType
<1> QED BY <1>3, <1>4, <1>5 DEF CircuitSound, h

BudgetType == [ tokens : 0..Capacity, retries : Nat, funded : Nat ]

(* The budget keeps its type under each of its methods.                    *)
LEMMA BudgetTyped ==
  ASSUME NEW b \in BudgetType
  PROVE  /\ AfterRecordRequest(b) \in BudgetType
         /\ CanRetry(b) => AfterConsumeRetry(b) \in BudgetType
         /\ \A error : AfterOutcome(b, error) \in BudgetType
         /\ \A o, n : AfterHedge(o, n, b) \in BudgetType
<1>0. /\ b.tokens \in 0..Capacity /\ b.retries \in Nat /\ b.funded \in Nat
      /\ Capacity \in Nat /\ Ratio \in 0..4
  BY ResilienceConstants DEF BudgetType
<1>1. AfterRecordRequest(b) \in BudgetType
  <2> DEFINE t == Smaller(Capacity, b.tokens + Ratio)
  <2>1. t \in 0..Capacity /\ b.funded + 1 \in Nat BY <1>0 DEF Smaller
  <2> HIDE DEF t
  <2> QED BY <2>1 DEF AfterRecordRequest, BudgetType, t
<1>2. ASSUME CanRetry(b) PROVE AfterConsumeRetry(b) \in BudgetType
  <2>1. b.tokens - Token \in 0..Capacity /\ b.retries + 1 \in Nat
    BY <1>0, <1>2 DEF CanRetry, Token
  <2> QED BY <2>1 DEF AfterConsumeRetry, BudgetType
<1>3. ASSUME NEW error PROVE AfterOutcome(b, error) \in BudgetType
  <2> DEFINE t == Less(b.tokens, Penalty(error))
  <2>1. t \in 0..Capacity BY <1>0 DEF Less, Penalty
  <2> HIDE DEF t
  <2> QED BY <2>1 DEF AfterOutcome, BudgetType, t
<1>4. ASSUME NEW o, NEW n PROVE AfterHedge(o, n, b) \in BudgetType
  BY <1>2 DEF AfterHedge, Hedged
<1> QED BY <1>1, <1>2, <1>3, <1>4

-----------------------------------------------------------------------------
(* What an action does to one operation and to the group.                  *)

GroupType ==
  [ aborted : BOOLEAN, disposed : BOOLEAN, awaited : SUBSET Ops,
    cancelled : {"no", "waiting", "done"} ]

Phases == {"new", "attempt", "judging", "sleep", "done"}

(* One operation's record is replaced.                                     *)
LEMMA OneRun ==
  ASSUME run \in [Ops -> RunType], NEW o \in Ops, NEW r \in RunType,
         run' = [run EXCEPT ![o] = r]
  PROVE  run' \in [Ops -> RunType] /\ run'[o] = r /\ \A p \in Ops \ {o} : run'[p] = run[p]
OBVIOUS

(* An operation reaches a phase with a result, or with the last error.     *)
LEMMA RunResults ==
  ASSUME run \in [Ops -> RunType], NEW o \in Ops, NEW ph \in Phases, NEW result \in Results,
         run' = [run EXCEPT ![o].phase = ph, ![o].result = result]
  PROVE  /\ run' \in [Ops -> RunType] /\ run'[o].phase = ph
         /\ run'[o].attempt = run[o].attempt /\ run'[o].hedge = run[o].hedge
         /\ \A p \in Ops \ {o} : run'[p] = run[p]
<1> DEFINE r == [run[o] EXCEPT !.phase = ph, !.result = result]
<1>1. run' = [run EXCEPT ![o] = r] BY Zenon DEF RunType
<1>2. run[o] \in RunType OBVIOUS
<1>3. /\ r \in RunType /\ r.phase = ph
      /\ r.attempt = run[o].attempt /\ r.hedge = run[o].hedge
  BY <1>2 DEF RunType, Phases
<1> HIDE DEF r
<1> QED BY <1>1, <1>3, OneRun

\* Operation o reaches attempt n.
Reaches(o, ph, n, h) ==
  run' = [run EXCEPT ![o].phase = ph, ![o].attempt = n, ![o].hedge = h]

(* What an operation that reaches an attempt has become.                   *)
LEMMA RunAttempts ==
  ASSUME run \in [Ops -> RunType], NEW o \in Ops, NEW ph \in Phases,
         NEW n \in 0..MaxAttempts, NEW h \in {"off", "armed", "launched"},
         Reaches(o, ph, n, h)
  PROVE  /\ run' \in [Ops -> RunType] /\ run'[o].phase = ph
         /\ run'[o].attempt = n /\ run'[o].hedge = h
         /\ \A p \in Ops \ {o} : run'[p] = run[p]
<1> DEFINE r == [run[o] EXCEPT !.phase = ph, !.attempt = n, !.hedge = h]
<1>1. run' = [run EXCEPT ![o] = r] BY Zenon DEF RunType, Reaches
<1>2. run[o] \in RunType OBVIOUS
<1>3. r \in RunType /\ r.phase = ph /\ r.attempt = n /\ r.hedge = h
  BY <1>2 DEF RunType, Phases
<1> HIDE DEF r
<1> QED BY <1>1, <1>3, OneRun

\* A step that concerns operation o alone; a group stays aborted.
Moves(o) ==
  /\ run' \in [Ops -> RunType]
  /\ \A p \in Ops \ {o} : run'[p] = run[p]
  /\ scenario' = scenario
  /\ group.aborted => group'.aborted

(* Aborting a group changes nothing else of it.                            *)
LEMMA AbortedGroup ==
  ASSUME NEW g \in GroupType
  PROVE  [g EXCEPT !.aborted = TRUE] \in GroupType /\ [g EXCEPT !.aborted = TRUE].aborted
BY DEF GroupType

(* A promise settles, and may abort the group with it.                     *)
LEMMA SettlesEffect ==
  ASSUME TypeInv, NEW o \in Ops, NEW result \in Results, Settles(o, result),
         scenario' = scenario
  PROVE  /\ Moves(o)
         /\ run'[o].phase = "done" /\ run'[o].attempt = run[o].attempt
         /\ run'[o].hedge = run[o].hedge
         /\ group' \in GroupType
<1>1. run \in [Ops -> RunType] /\ group \in GroupType BY DEF TypeInv, TypeOK, GroupType
<1>2. run' = [run EXCEPT ![o].phase = "done", ![o].result = result] BY DEF Settles
<1>3. /\ run' \in [Ops -> RunType] /\ run'[o].phase = "done"
      /\ run'[o].attempt = run[o].attempt /\ run'[o].hedge = run[o].hedge
      /\ \A p \in Ops \ {o} : run'[p] = run[p]
  BY <1>1, <1>2, RunResults DEF Phases
<1>4. group' = group \/ group' = [group EXCEPT !.aborted = TRUE] BY DEF Settles
<1>5. group' \in GroupType /\ (group.aborted => group'.aborted) BY <1>1, <1>4, AbortedGroup
<1> QED BY <1>3, <1>5 DEF Moves

(* An attempt begins.                                                      *)
LEMMA BeginsEffect ==
  ASSUME TypeInv, NEW o \in Ops, NEW n \in 1..MaxAttempts, NEW b, Begins(o, n, b),
         scenario' = scenario
  PROVE  /\ Moves(o)
         /\ run'[o].phase = "attempt" /\ run'[o].attempt = n
         /\ run'[o].hedge = IF Hedged(o, n, b) THEN "armed"
                            ELSE IF run[o].hedge = "launched" THEN "launched" ELSE "off"
<1> DEFINE h == IF Hedged(o, n, b) THEN "armed"
                ELSE IF run[o].hedge = "launched" THEN "launched" ELSE "off"
<1>1. run \in [Ops -> RunType] BY DEF TypeInv, TypeOK
<1>2. run' = [run EXCEPT ![o].phase = "attempt", ![o].attempt = n, ![o].hedge = h]
  BY DEF Begins
<1>3. h \in {"off", "armed", "launched"} /\ n \in 0..MaxAttempts
  BY ResilienceConstants
<1> DEFINE ph == "attempt"
<1>6. Reaches(o, ph, n, h) /\ ph \in Phases BY <1>2 DEF Phases, Reaches
<1>7. ph = "attempt" OBVIOUS
<1> HIDE DEF h, ph
<1>8. /\ run' \in [Ops -> RunType] /\ run'[o].phase = ph
      /\ run'[o].attempt = n /\ run'[o].hedge = h
      /\ \A p \in Ops \ {o} : run'[p] = run[p]
  BY <1>1, <1>3, <1>6, RunAttempts
<1>4. /\ run' \in [Ops -> RunType] /\ run'[o].phase = "attempt"
      /\ run'[o].attempt = n /\ run'[o].hedge = h
      /\ \A p \in Ops \ {o} : run'[p] = run[p]
  BY <1>7, <1>8
<1>5. group' = group BY DEF Begins
<1> QED BY <1>4, <1>5 DEF Moves, h

-----------------------------------------------------------------------------
(* The circuit and its probes.                                             *)

(* The circuit is not touched, and no probe ends.                          *)
LEMMA CircuitKept ==
  ASSUME IInv, NEW o \in Ops, Moves(o), NoCircuit,
         o \in probes => run'[o].phase = "attempt"
  PROVE  CircuitInv'
<1>1. circuit' = circuit /\ probes' = probes /\ probes \subseteq Ops
  BY DEF NoCircuit, IInv, TypeInv, TypeOK
<1>2. ProbeSlots' BY <1>1 DEF IInv, CircuitInv, ProbeSlots, Moves
<1>3. \A p \in probes' : run'[p].phase = "attempt" /\ Kind(p)' # "deadline"
  BY <1>1 DEF IInv, CircuitInv, Moves, Kind
<1> QED BY <1>1, <1>2, <1>3 DEF IInv, CircuitInv

(* An operation that is not in an attempt is no probe.                     *)
LEMMA ProbesAttempt ==
  ASSUME IInv, NEW o \in Ops, run[o].phase # "attempt" \/ Kind(o) = "deadline"
  PROVE  o \notin probes
BY DEF IInv, CircuitInv

(* An attempt is admitted.                                                 *)
LEMMA CircuitAdmits ==
  ASSUME IInv, NEW o \in Ops, Moves(o), ~Refuses(circuit),
         run[o].phase # "attempt", run'[o].phase = "attempt", Kind(o) # "deadline",
         CircuitTo(AfterAdmit(circuit), probes \cup {o})
  PROVE  CircuitInv'
<1> DEFINE h == AfterAdmit(circuit)
<1>1. /\ circuit' = h /\ probes' = IF h.state = "half-open" THEN probes \cup {o} ELSE {}
      /\ o \notin probes /\ probes \subseteq Ops /\ IsFiniteSet(probes)
  BY ProbesAttempt, FS_Subset, ResilienceConstants DEF CircuitTo, IInv, TypeInv, TypeOK
<1>2. CircuitSound(circuit) /\ circuit.trials \in Nat /\ circuit.state \in States
  BY CircuitConstants DEF IInv, CircuitInv, CircuitSound, CircuitType, States
<1>3. /\ CircuitSound(h)
      /\ circuit.state = "closed" => h = circuit
      /\ circuit.state # "closed" => h.state = "half-open" /\ h.trials = circuit.trials + 1
  BY <1>2, Admitted
<1> HIDE DEF h
<1>4. circuit'.state # "half-open" => probes' = {} BY <1>1
<1>5. \A p \in probes' : run'[p].phase = "attempt" /\ Kind(p)' # "deadline"
  BY <1>1 DEF IInv, CircuitInv, Moves, Kind
<1>6. Cardinality(probes \cup {o}) = Cardinality(probes) + 1 /\ Cardinality(probes) \in Nat
  BY <1>1, FS_AddElement, FS_CardinalityType
<1>7. ASSUME circuit'.state = "half-open"
      PROVE  /\ h.trials = circuit.trials + 1 /\ probes' = probes \cup {o}
             /\ circuit.trials <= Cardinality(probes)
             /\ ~group.aborted => circuit.trials = Cardinality(probes)
  <2>1. circuit.state # "closed" BY <1>1, <1>3, <1>7
  <2>2. CASE circuit.state = "half-open"
    BY <1>1, <1>3, <1>7, <2>1, <2>2 DEF IInv, CircuitInv, ProbeSlots
  <2>3. CASE circuit.state = "open"
    <3>1. circuit.trials = 0 /\ probes = {} BY <1>2, <2>3 DEF CircuitSound, IInv, CircuitInv
    <3> QED BY <1>1, <1>3, <1>7, <2>1, <3>1, FS_EmptySet
  <2> QED BY <1>2, <2>1, <2>2, <2>3 DEF States
<1>8. ProbeSlots'
  <2> SUFFICES ASSUME circuit'.state = "half-open"
               PROVE  /\ circuit'.trials <= Cardinality(probes')
                      /\ ~group'.aborted => circuit'.trials = Cardinality(probes')
    BY DEF ProbeSlots
  <2>1. group.aborted => group'.aborted BY DEF Moves
  <2> QED BY <1>1, <1>2, <1>6, <1>7, <2>1
<1> QED BY <1>1, <1>3, <1>4, <1>5, <1>8 DEF CircuitInv

(* The circuit leaves the half-open state, or stays out of it.             *)
LEMMA CircuitSettles ==
  ASSUME NEW k, CircuitSound(k), k.state # "half-open", NEW P, CircuitTo(k, P)
  PROVE  CircuitInv'
<1>1. circuit' = k /\ probes' = {} BY DEF CircuitTo
<1> QED BY <1>1 DEF CircuitInv, ProbeSlots

(* A call ends by an abort: it gives back a slot, its own or a probe's.    *)
LEMMA CircuitAborts ==
  ASSUME IInv, NEW o \in Ops, Moves(o), group.aborted,
         CircuitTo(AfterAborted(circuit), probes \ {o})
  PROVE  CircuitInv'
<1> DEFINE h == GiveBack(circuit)
<1>1. /\ circuit' = h /\ probes' = IF h.state = "half-open" THEN probes \ {o} ELSE {}
      /\ probes \subseteq Ops /\ IsFiniteSet(probes) /\ group'.aborted
  BY FS_Subset, ResilienceConstants DEF CircuitTo, AfterAborted, IInv, TypeInv, TypeOK, Moves
<1>2. /\ CircuitSound(circuit) /\ circuit.trials \in Nat
      /\ circuit.state = "half-open" => circuit.trials <= Cardinality(probes)
  BY CircuitConstants DEF IInv, CircuitInv, CircuitSound, CircuitType, ProbeSlots
<1>3. /\ h \in CircuitType /\ h.state = circuit.state
      /\ h.trials = IF circuit.state # "closed" /\ circuit.trials > 0 THEN circuit.trials - 1
                    ELSE circuit.trials
  BY <1>2, GivenBack DEF CircuitSound
<1> HIDE DEF h
<1>4. CircuitSound(h) BY <1>2, <1>3 DEF CircuitSound
<1>5. Cardinality(probes \ {o}) >= Cardinality(probes) - 1 /\ Cardinality(probes) \in Nat
      /\ Cardinality(probes \ {o}) \in Nat
  <2> DEFINE n == Cardinality(probes)
             m == Cardinality(probes \ {o})
  <2>1. n \in Nat BY <1>1, FS_CardinalityType
  <2>2. CASE o \in probes
    <3>1. IsFiniteSet(probes \ {o}) /\ m = n - 1 BY <1>1, <2>2, FS_RemoveElement
    <3>2. m \in Nat BY <3>1, FS_CardinalityType
    <3> HIDE DEF n, m
    <3>3. m >= n - 1 BY <2>1, <3>1
    <3> QED BY <2>1, <3>2, <3>3 DEF n, m
  <2>3. CASE o \notin probes
    <3>1. probes \ {o} = probes BY <2>3
    <3>2. m = n BY <3>1
    <3> HIDE DEF n, m
    <3>3. m >= n - 1 /\ m \in Nat BY <2>1, <3>2
    <3> QED BY <2>1, <3>3 DEF n, m
  <2> QED BY <2>2, <2>3
<1>6. ProbeSlots'
  <2> SUFFICES ASSUME h.state = "half-open"
               PROVE  h.trials <= Cardinality(probes \ {o})
    BY <1>1 DEF ProbeSlots
  <2> QED BY <1>2, <1>3, <1>5
<1>7. \A p \in probes' : run'[p].phase = "attempt" /\ Kind(p)' # "deadline"
  BY <1>1 DEF IInv, CircuitInv, Moves, Kind
<1> QED BY <1>1, <1>4, <1>6, <1>7 DEF CircuitInv

-----------------------------------------------------------------------------
(* The budget and what it has paid for.                                    *)

(* Whatever is put in or taken out of the budget, it does not overdraw.    *)
LEMMA FundedKept ==
  ASSUME NEW b \in BudgetType, Funded(b)
  PROVE  /\ Funded(AfterRecordRequest(b))
         /\ Funded(AfterConsumeRetry(b))
         /\ \A error : Funded(AfterOutcome(b, error))
         /\ AfterRecordRequest(b).retries = b.retries
         /\ AfterConsumeRetry(b).retries = b.retries + 1
         /\ \A error : AfterOutcome(b, error).retries = b.retries
<1>0. /\ b.tokens \in Nat /\ b.retries \in Nat /\ b.funded \in Nat
      /\ Capacity \in Nat /\ Ratio \in Nat
      /\ b.tokens + 4 * b.retries <= Capacity + Ratio * b.funded
  BY ResilienceConstants DEF BudgetType, Funded, Token
<1>1. LET h == AfterRecordRequest(b) IN Funded(h) /\ h.retries = b.retries
  <2> DEFINE h == AfterRecordRequest(b)
  <2>1. /\ h.tokens = Smaller(Capacity, b.tokens + Ratio) /\ h.funded = b.funded + 1
        /\ h.retries = b.retries
    BY DEF AfterRecordRequest, BudgetType
  <2>2. h.tokens <= b.tokens + Ratio /\ h.tokens \in Nat BY <1>0, <2>1 DEF Smaller
  <2>3. Ratio * (b.funded + 1) = Ratio * b.funded + Ratio /\ Ratio * b.funded \in Nat BY <1>0
  <2> HIDE DEF h
  <2>4. h.tokens + 4 * h.retries <= Capacity + Ratio * h.funded
    BY <1>0, <2>1, <2>2, <2>3
  <2> QED BY <2>1, <2>4 DEF Funded, Token, h
<1>2. LET h == AfterConsumeRetry(b) IN Funded(h) /\ h.retries = b.retries + 1
  <2> DEFINE h == AfterConsumeRetry(b)
  <2>1. /\ h.tokens = b.tokens - 4 /\ h.funded = b.funded /\ h.retries = b.retries + 1
    BY DEF AfterConsumeRetry, BudgetType, Token
  <2> HIDE DEF h
  <2>2. h.tokens + 4 * h.retries = b.tokens + 4 * b.retries BY <1>0, <2>1
  <2> QED BY <1>0, <2>1, <2>2 DEF Funded, Token, h
<1>3. ASSUME NEW error PROVE LET h == AfterOutcome(b, error) IN Funded(h) /\ h.retries = b.retries
  <2> DEFINE h == AfterOutcome(b, error)
  <2>1. /\ h.tokens = Less(b.tokens, Penalty(error)) /\ h.funded = b.funded
        /\ h.retries = b.retries
    BY DEF AfterOutcome, BudgetType
  <2>2. h.tokens <= b.tokens /\ h.tokens \in Nat BY <1>0, <2>1 DEF Less, Penalty
  <2>3. Ratio * b.funded \in Nat BY <1>0
  <2> HIDE DEF h
  <2>4. h.tokens + 4 * h.retries <= Capacity + Ratio * h.funded BY <1>0, <2>1, <2>2, <2>3
  <2> QED BY <2>1, <2>4 DEF Funded, Token, h
<1> QED BY <1>1, <1>2, <1>3

(* What has been paid for is a finite set.                                 *)
LEMMA PaidFinite == IsFiniteSet(Paid) /\ IsFiniteSet(Paid')
<1>1. IsFiniteSet(0..MaxAttempts) BY FS_Interval, ResilienceConstants
<1>2. IsFiniteSet(Ops \X (0..MaxAttempts)) BY <1>1, FS_Product, ResilienceConstants
<1>3. Paid \subseteq Ops \X (0..MaxAttempts) /\ Paid' \subseteq Ops \X (0..MaxAttempts)
  BY DEF Paid
<1> QED BY <1>2, <1>3, FS_Subset

(* A step by which nothing more is owed.                                   *)
LEMMA NothingOwed ==
  ASSUME IInv, NEW o \in Ops, Moves(o), budget' \in BudgetType, Funded(budget'),
         budget'.retries >= budget.retries,
         \A k \in 0..MaxAttempts : PaidFor(o, k)' => PaidFor(o, k)
  PROVE  BudgetInv'
<1>1. \A p \in Ops \ {o}, k \in 0..MaxAttempts : PaidFor(p, k)' => PaidFor(p, k)
  BY DEF PaidFor, Moves, Kind
<1>2. Paid' \subseteq Paid BY <1>1 DEF Paid
<1>3. Cardinality(Paid') <= Cardinality(Paid) /\ Cardinality(Paid) \in Nat
      /\ Cardinality(Paid') \in Nat
  BY <1>2, PaidFinite, FS_Subset, FS_CardinalityType
<1>4. budget.retries \in Nat /\ budget'.retries \in Nat /\ Cardinality(Paid) <= budget.retries
  BY DEF IInv, TypeInv, TypeOK, BudgetInv, BudgetType
<1> QED BY <1>3, <1>4 DEF BudgetInv

(* A step by which one more request is owed and paid for.                  *)
LEMMA OneOwed ==
  ASSUME IInv, NEW o \in Ops, Moves(o), budget' \in BudgetType, Funded(budget'),
         budget'.retries = budget.retries + 1, NEW x \in 0..MaxAttempts,
         \A k \in 0..MaxAttempts : PaidFor(o, k)' => PaidFor(o, k) \/ k = x
  PROVE  BudgetInv'
<1>1. \A p \in Ops \ {o}, k \in 0..MaxAttempts : PaidFor(p, k)' => PaidFor(p, k)
  BY DEF PaidFor, Moves, Kind
<1>2. Paid' \subseteq Paid \cup {<< o, x >>} BY <1>1 DEF Paid
<1> DEFINE n == Cardinality(Paid)
           m == Cardinality(Paid')
           u == Cardinality(Paid \cup {<< o, x >>})
<1>3. n \in Nat /\ m \in Nat BY PaidFinite, FS_CardinalityType
<1>4. IsFiniteSet(Paid \cup {<< o, x >>}) /\ (u = n \/ u = n + 1)
  BY PaidFinite, FS_AddElement
<1>5. m <= u BY <1>2, <1>4, FS_Subset
<1>6. budget.retries \in Nat /\ n <= budget.retries
  BY DEF IInv, TypeInv, TypeOK, BudgetInv
<1> HIDE DEF n, m, u
<1>7. m <= budget'.retries BY <1>3, <1>4, <1>5, <1>6
<1> QED BY <1>7 DEF BudgetInv, m

-----------------------------------------------------------------------------
(* The calls of fn that run.                                               *)

LegsType == [ running : SUBSET Legs, told : SUBSET Legs ]

(* No call is touched, and an attempt in progress goes on.                 *)
LEMMA LegsKept ==
  ASSUME IInv, NEW o \in Ops, Moves(o), UNCHANGED legs,
         run[o].phase = "attempt" =>
           run'[o].phase = "attempt" /\ run'[o].attempt = run[o].attempt
  PROVE  NoOrphan' /\ legs' \in LegsType
<1>1. legs' = legs /\ legs \in LegsType BY DEF IInv, TypeInv, TypeOK, LegsType
<1>2. ASSUME NEW leg \in legs.running
      PROVE  \/ Kind(leg[1])' = "call"
             \/ run'[leg[1]].phase = "attempt" /\ leg[2] = run'[leg[1]].attempt
             \/ leg \in legs.told
  <2>1. leg[1] \in Ops BY <1>1 DEF Legs, LegsType
  <2> QED BY <2>1 DEF IInv, NoOrphan, Moves, Kind
<1> QED BY <1>1, <1>2 DEF NoOrphan

(* An attempt is over: whoever still runs for it has been told to stop.    *)
LEMMA LosersTold ==
  ASSUME IInv, NEW o \in Ops, Moves(o), NEW winners, winners \subseteq legs.running,
         \A leg \in winners : leg[1] = o, LosersOf(o, winners)
  PROVE  NoOrphan' /\ legs' \in LegsType
<1> DEFINE running == legs.running \ winners
           told == (legs.told \cap running) \cup (CurrentLegs(o) \ winners)
<1>1. /\ legs' = [running |-> running, told |-> told] /\ legs \in LegsType
      /\ CurrentLegs(o) = {leg \in legs.running : leg[1] = o /\ leg[2] = run[o].attempt}
  BY DEF LosersOf, IInv, TypeInv, TypeOK, LegsType, CurrentLegs, LegsOf
<1>2. legs' \in LegsType BY <1>1 DEF LegsType
<1>3. ASSUME NEW leg \in running
      PROVE  \/ Kind(leg[1])' = "call"
             \/ run'[leg[1]].phase = "attempt" /\ leg[2] = run'[leg[1]].attempt
             \/ leg \in told
  <2>1. leg[1] \in Ops BY <1>1 DEF Legs, LegsType
  <2>2. \/ Kind(leg[1]) = "call" \/ leg \in legs.told
        \/ run[leg[1]].phase = "attempt" /\ leg[2] = run[leg[1]].attempt
    BY DEF IInv, NoOrphan
  <2>3. CASE leg[1] = o BY <1>1, <2>2, <2>3 DEF Moves, Kind
  <2>4. CASE leg[1] # o BY <2>1, <2>2, <2>4 DEF Moves, Kind
  <2> QED BY <2>3, <2>4
<1>4. legs'.running = running /\ legs'.told = told BY <1>1
<1> HIDE DEF running, told
<1> QED BY <1>2, <1>3, <1>4 DEF NoOrphan

(* A call of fn begins for the attempt that is then current.               *)
LEMMA LegBegins ==
  ASSUME IInv, NEW o \in Ops, Moves(o), NEW leg \in Legs, leg[1] = o,
         legs' = [legs EXCEPT !.running = @ \cup {leg}],
         run'[o].phase = "attempt", leg[2] = run'[o].attempt,
         run[o].phase = "attempt" => run'[o].attempt = run[o].attempt
  PROVE  NoOrphan' /\ legs' \in LegsType
<1>1. legs \in LegsType BY DEF IInv, TypeInv, TypeOK, LegsType
<1>2. legs' \in LegsType /\ legs'.running = legs.running \cup {leg} /\ legs'.told = legs.told
  BY <1>1 DEF LegsType
<1>3. ASSUME NEW l \in legs.running \cup {leg}
      PROVE  \/ Kind(l[1])' = "call"
             \/ run'[l[1]].phase = "attempt" /\ l[2] = run'[l[1]].attempt
             \/ l \in legs.told
  <2>1. l[1] \in Ops BY <1>1 DEF Legs, LegsType
  <2>2. CASE l = leg BY <2>2
  <2>3. CASE l # leg BY <2>1, <2>3 DEF IInv, NoOrphan, Moves, Kind
  <2> QED BY <2>2, <2>3
<1> QED BY <1>2, <1>3 DEF NoOrphan

-----------------------------------------------------------------------------
(* The parts of a step, put together.                                      *)

(* A step of one operation preserves the invariant when its parts do.      *)
LEMMA Assembled ==
  ASSUME IInv, NEW o \in Ops, Moves(o), group' \in GroupType,
         CircuitInv', probes' \subseteq Ops,
         BudgetInv', budget' \in BudgetType, NoOrphan', legs' \in LegsType,
         Numbered(run'[o])
  PROVE  IInv'
<1>1. TypeOK'
  BY DEF IInv, TypeInv, TypeOK, Moves, GroupType, CircuitInv, CircuitSound, BudgetType, LegsType
<1>2. \A p \in Ops : Numbered(run'[p])
  BY DEF IInv, TypeInv, Moves
<1> QED BY <1>1, <1>2 DEF IInv, TypeInv

(* The types, as the lemmas below use them.                                *)
LEMMA Typed ==
  ASSUME IInv
  PROVE  /\ run \in [Ops -> RunType] /\ group \in GroupType /\ budget \in BudgetType
         /\ legs \in LegsType /\ probes \subseteq Ops
         /\ CircuitSound(circuit) /\ Funded(budget)
         /\ \A o \in Ops : run[o].attempt \in 0..MaxAttempts /\ Numbered(run[o])
BY DEF IInv, TypeInv, TypeOK, RunType, GroupType, BudgetType, LegsType, CircuitInv, BudgetInv

(* A promise settles in a step that touches neither circuit nor calls.     *)
LEMMA StopSound ==
  ASSUME IInv, NEW o \in Ops, NEW result \in Results, Settles(o, result),
         run[o].phase # "attempt" \/ Kind(o) = "deadline",
         scenario' = scenario, NoCircuit,
         budget' \in BudgetType, Funded(budget'), budget'.retries = budget.retries,
         NoOrphan' /\ legs' \in LegsType
  PROVE  IInv'
<1>1. /\ Moves(o) /\ run'[o].phase = "done" /\ run'[o].attempt = run[o].attempt
      /\ run'[o].hedge = run[o].hedge /\ group' \in GroupType
  BY SettlesEffect DEF IInv
<1>2. CircuitInv' /\ probes' \subseteq Ops
  BY <1>1, CircuitKept, ProbesAttempt, Typed DEF NoCircuit
<1>3. \A k \in 0..MaxAttempts : PaidFor(o, k)' => PaidFor(o, k)
  BY <1>1 DEF PaidFor, Kind
<1>4. BudgetInv'
  <2>1. budget'.retries >= budget.retries BY Typed DEF BudgetType
  <2> QED BY <1>1, <1>3, <2>1, NothingOwed
<1> QED BY <1>1, <1>2, <1>4, Assembled DEF Numbered

(* An attempt meets a disposed circuit: it fails, paid for and without a   *)
(* call of fn.                                                             *)
LEMMA FailsDisposedSound ==
  ASSUME IInv, NEW o \in Ops, NEW n \in 1..MaxAttempts, NEW b \in BudgetType, Funded(b),
         b.retries = budget.retries,
         \/ run[o].phase = "new" /\ n = 1
         \/ run[o].phase = "sleep" /\ n = run[o].attempt + 1,
         FailsDisposed(o, n, b), scenario' = scenario
  PROVE  IInv'
<1>1. "ECIRCUITDISPOSED" \in Results BY DEF Results
<1>2. CASE Kind(o) = "call"
  <2>1. Settles(o, "ECIRCUITDISPOSED") /\ budget' = b /\ NoCircuit /\ UNCHANGED legs
    BY <1>2 DEF FailsDisposed
  <2>2. Moves(o) BY <1>1, <2>1, SettlesEffect DEF IInv
  <2>3. NoOrphan' /\ legs' \in LegsType BY <2>1, <2>2, LegsKept
  <2> QED BY <1>1, <2>1, <2>3, StopSound
<1>3. CASE Kind(o) # "call"
  <2> DEFINE hedge == IF run[o].hedge = "launched" THEN run[o].hedge ELSE "off"
  <2>1. /\ run' = [run EXCEPT ![o].phase = "judging", ![o].attempt = n,
                              ![o].hedge = hedge, ![o].result = "ECIRCUITDISPOSED"]
        /\ budget' = AfterOutcome(b, "ECIRCUITDISPOSED") /\ group' = group
        /\ NoCircuit /\ legs' = legs
    BY <1>3 DEF FailsDisposed
  <2>2. n \in 0..MaxAttempts /\ n # 0 BY ResilienceConstants
  <2>3. /\ run' \in [Ops -> RunType] /\ run'[o].phase = "judging"
        /\ run'[o].attempt = n /\ run'[o].hedge = hedge
        /\ \A p \in Ops \ {o} : run'[p] = run[p]
    <3> DEFINE r == [run[o] EXCEPT !.phase = "judging", !.attempt = n, !.hedge = hedge,
                                   !.result = "ECIRCUITDISPOSED"]
    <3>1. run' = [run EXCEPT ![o] = r] BY <2>1, Typed, Zenon DEF RunType
    <3>2. run[o] \in RunType BY Typed
    <3>3. r \in RunType /\ r.phase = "judging" /\ r.attempt = n /\ r.hedge = hedge
      BY <1>1, <2>2, <3>2 DEF RunType
    <3> HIDE DEF r, hedge
    <3> QED BY <3>1, <3>3, OneRun, Typed
  <2>4. Moves(o) BY <2>1, <2>3 DEF Moves
  <2>5. CircuitInv' /\ probes' \subseteq Ops
    BY <2>1, <2>4, CircuitKept, ProbesAttempt, Typed DEF NoCircuit
  <2>6. budget' \in BudgetType /\ Funded(budget') /\ budget'.retries = budget.retries
    BY <2>1, BudgetTyped, FundedKept
  <2>7. BudgetInv'
    <3>1. \A k \in 0..MaxAttempts : PaidFor(o, k)' => PaidFor(o, k)
      BY <2>3, Typed DEF PaidFor, Kind
    <3>2. budget'.retries >= budget.retries BY <2>6, Typed DEF BudgetType
    <3> QED BY <2>4, <2>6, <3>1, <3>2, NothingOwed
  <2>8. NoOrphan' /\ legs' \in LegsType BY <2>1, <2>4, LegsKept
  <2>9. group' \in GroupType /\ Numbered(run'[o]) BY <2>1, <2>2, <2>3, Typed DEF Numbered
  <2> QED BY <2>4, <2>5, <2>6, <2>7, <2>8, <2>9, Assembled
<1> QED BY <1>2, <1>3

(* The top of the loop: an operation is refused, or its attempt begins.    *)
LEMMA LoopTopSound ==
  ASSUME IInv, NEW o \in Ops, NEW n \in 1..MaxAttempts, NEW b \in BudgetType, Funded(b),
         b.retries = budget.retries,
         \/ run[o].phase = "new" /\ n = 1
         \/ run[o].phase = "sleep" /\ n = run[o].attempt + 1,
         LoopTop(o, n, b), scenario' = scenario
  PROVE  IInv'
<1> DEFINE stop == CASE Kind(o) = "deadline" /\ run[o].expired -> "EDEADLINE"
                     [] group.aborted -> "EABORT"
                     [] Kind(o) # "deadline" /\ Refuses(circuit) -> "ECIRCUITOPEN"
                     [] OTHER -> "none"
<1>1. /\ MeetsDisposed(o) => FailsDisposed(o, n, b)
      /\ ~MeetsDisposed(o) /\ stop # "none" =>
           /\ Settles(o, stop) /\ budget' = b
           /\ NoCircuit /\ UNCHANGED legs
      /\ ~MeetsDisposed(o) /\ stop = "none" =>
           /\ Begins(o, n, b)
           /\ IF Kind(o) = "deadline" THEN NoCircuit
              ELSE CircuitTo(AfterAdmit(circuit), probes \cup {o})
  BY DEF LoopTop
<1>0. CASE MeetsDisposed(o)
  <2>1. FailsDisposed(o, n, b) BY <1>0, <1>1
  <2> QED BY <2>1, FailsDisposedSound
<1>2. CASE ~MeetsDisposed(o) /\ stop # "none"
  <2>1. stop \in Results BY <1>2 DEF Results
  <2>2. Settles(o, stop) /\ budget' = b /\ NoCircuit /\ UNCHANGED legs BY <1>1, <1>2
  <2> HIDE DEF stop
  <2>3. Moves(o) BY <2>1, <2>2, SettlesEffect DEF IInv
  <2>4. NoOrphan' /\ legs' \in LegsType BY <2>2, <2>3, LegsKept
  <2> QED BY <2>1, <2>2, <2>4, StopSound
<1>3. CASE ~MeetsDisposed(o) /\ stop = "none"
  <2>1. /\ Begins(o, n, b)
        /\ IF Kind(o) = "deadline" THEN NoCircuit
           ELSE CircuitTo(AfterAdmit(circuit), probes \cup {o})
    BY <1>1, <1>3
  <2>2. Kind(o) # "deadline" => ~Refuses(circuit) BY <1>3
  <2> HIDE DEF stop
  <2>3. /\ Moves(o) /\ run'[o].phase = "attempt" /\ run'[o].attempt = n
        /\ run'[o].hedge = IF Hedged(o, n, b) THEN "armed"
                           ELSE IF run[o].hedge = "launched" THEN "launched" ELSE "off"
    BY <2>1, BeginsEffect DEF IInv
  <2>4. CircuitInv' /\ probes' \subseteq Ops
    <3>1. CASE Kind(o) = "deadline"
      <4>1. NoCircuit BY <2>1, <3>1
      <4> QED BY <2>3, <4>1, CircuitKept, Typed DEF NoCircuit
    <3>2. CASE Kind(o) # "deadline"
      <4>1. CircuitTo(AfterAdmit(circuit), probes \cup {o}) BY <2>1, <3>2
      <4>2. CircuitInv' BY <2>2, <2>3, <3>2, <4>1, CircuitAdmits
      <4> QED BY <4>1, <4>2, Typed DEF CircuitTo
    <3> QED BY <3>1, <3>2
  <2>5. budget' \in BudgetType /\ Funded(budget') /\ BudgetInv'
    <3>1. \A k \in 0..MaxAttempts :
            PaidFor(o, k)' => PaidFor(o, k) \/ (k = 0 /\ Hedged(o, n, b))
      BY <2>3, Typed DEF PaidFor, Kind
    <3>2. CASE Hedged(o, n, b)
      <4>1. budget' = AfterConsumeRetry(b) /\ CanRetry(b)
        BY <2>1, <3>2 DEF Begins, AfterHedge, Hedged
      <4>2. budget' \in BudgetType /\ Funded(budget') /\ budget'.retries = budget.retries + 1
        BY <4>1, BudgetTyped, FundedKept
      <4>3. 0 \in 0..MaxAttempts BY ResilienceConstants
      <4> QED BY <2>3, <3>1, <4>2, <4>3, OneOwed
    <3>3. CASE ~Hedged(o, n, b)
      <4>1. budget' = b BY <2>1, <3>3 DEF Begins, AfterHedge
      <4>2. budget'.retries >= budget.retries BY <4>1, Typed DEF BudgetType
      <4> QED BY <2>3, <3>1, <3>3, <4>1, <4>2, NothingOwed
    <3> QED BY <3>2, <3>3
  <2>6. NoOrphan' /\ legs' \in LegsType
    <3>1. << o, n, 1 >> \in Legs BY DEF Legs
    <3>2. legs' = [legs EXCEPT !.running = @ \cup {<< o, n, 1 >>}] BY <2>1 DEF Begins
    <3> QED BY <2>3, <3>1, <3>2, LegBegins
  <2>7. group' \in GroupType BY <2>1, Typed DEF Begins
  <2> QED BY <2>3, <2>4, <2>5, <2>6, <2>7, Assembled DEF Numbered
<1> QED BY <1>0, <1>2, <1>3

-----------------------------------------------------------------------------
(* The actions.                                                            *)

(* The attempt of o is over with an error.                                 *)
LEMMA AttemptFailsSound ==
  ASSUME IInv, NEW o \in Ops, run[o].phase = "attempt", NEW error \in Results,
         AttemptFails(o, error), scenario' = scenario,
         NEW winners, winners \subseteq legs.running, \A leg \in winners : leg[1] = o,
         LosersOf(o, winners)
  PROVE  IInv'
<1>1. /\ Moves(o) /\ run'[o].phase \in {"done", "judging"}
      /\ run'[o].attempt = run[o].attempt /\ run'[o].hedge = run[o].hedge
      /\ group' \in GroupType
  <2>1. CASE Kind(o) = "call"
    <3>1. Settles(o, error) BY <2>1 DEF AttemptFails
    <3> QED BY <3>1, SettlesEffect DEF IInv
  <2>2. CASE Kind(o) # "call"
    <3>1. run' = [run EXCEPT ![o].phase = "judging", ![o].result = error] /\ group' = group
      BY <2>2 DEF AttemptFails
    <3>2. /\ run' \in [Ops -> RunType] /\ run'[o].phase = "judging"
          /\ run'[o].attempt = run[o].attempt /\ run'[o].hedge = run[o].hedge
          /\ \A p \in Ops \ {o} : run'[p] = run[p]
      BY <3>1, Typed, RunResults DEF Phases
    <3> QED BY <3>1, <3>2, Typed DEF Moves
  <2> QED BY <2>1, <2>2
<1>2. CircuitInv' /\ probes' \subseteq Ops
  <2>1. CASE Kind(o) = "deadline"
    <3>1. NoCircuit BY <2>1 DEF AttemptFails
    <3> QED BY <1>1, <2>1, <3>1, CircuitKept, ProbesAttempt, Typed DEF NoCircuit
  <2>2. CASE Kind(o) # "deadline"
    <3>1. CircuitTo(AfterFailure(circuit), probes \ {o}) BY <2>2 DEF AttemptFails
    <3>2. CircuitSound(AfterFailure(circuit)) /\ AfterFailure(circuit).state # "half-open"
      BY Typed, Failed
    <3> QED BY <3>1, <3>2, CircuitSettles, Typed DEF CircuitTo
  <2> QED BY <2>1, <2>2
<1>3. budget' \in BudgetType /\ Funded(budget') /\ budget'.retries = budget.retries
  BY BudgetTyped, FundedKept, Typed DEF AttemptFails
<1>4. BudgetInv'
  <2>1. \A k \in 0..MaxAttempts : PaidFor(o, k)' => PaidFor(o, k)
    BY <1>1 DEF PaidFor, Kind
  <2>2. budget'.retries >= budget.retries BY <1>3, Typed DEF BudgetType
  <2> QED BY <1>1, <1>3, <2>1, <2>2, NothingOwed
<1>5. NoOrphan' /\ legs' \in LegsType BY <1>1, LosersTold
<1>6. Numbered(run'[o])
  <2>1. Numbered(run[o]) BY Typed
  <2> QED BY <1>1, <2>1 DEF Numbered
<1> QED BY <1>1, <1>2, <1>3, <1>4, <1>5, <1>6, Assembled

(* The attempt of o is over and its promise settles: with the result of fn *)
(* or by an abort.                                                         *)
LEMMA AttemptSettlesSound ==
  ASSUME IInv, NEW o \in Ops, run[o].phase = "attempt", NEW result \in Results,
         Settles(o, result), scenario' = scenario, UNCHANGED budget,
         \/ Kind(o) = "deadline" /\ NoCircuit
         \/ CircuitTo(AfterSuccess(circuit), probes \ {o})
         \/ group.aborted /\ CircuitTo(AfterAborted(circuit), probes \ {o}),
         NEW winners, winners \subseteq legs.running, \A leg \in winners : leg[1] = o,
         LosersOf(o, winners)
  PROVE  IInv'
<1>1. /\ Moves(o) /\ run'[o].phase = "done" /\ run'[o].attempt = run[o].attempt
      /\ run'[o].hedge = run[o].hedge /\ group' \in GroupType
  BY SettlesEffect DEF IInv
<1>2. CircuitInv' /\ probes' \subseteq Ops
  <2>1. CASE Kind(o) = "deadline" /\ NoCircuit
    BY <1>1, <2>1, CircuitKept, ProbesAttempt, Typed DEF NoCircuit
  <2>2. CASE CircuitTo(AfterSuccess(circuit), probes \ {o})
    <3>1. CircuitSound(AfterSuccess(circuit)) /\ AfterSuccess(circuit).state # "half-open"
      BY Typed, Succeeded
    <3> QED BY <2>2, <3>1, CircuitSettles, Typed DEF CircuitTo
  <2>3. CASE group.aborted /\ CircuitTo(AfterAborted(circuit), probes \ {o})
    BY <1>1, <2>3, CircuitAborts, Typed DEF CircuitTo
  <2> QED BY <2>1, <2>2, <2>3
<1>3. budget' \in BudgetType /\ Funded(budget') /\ budget'.retries >= budget.retries
  BY Typed DEF BudgetType
<1>4. BudgetInv'
  <2>1. \A k \in 0..MaxAttempts : PaidFor(o, k)' => PaidFor(o, k)
    BY <1>1 DEF PaidFor, Kind
  <2> QED BY <1>1, <1>3, <2>1, NothingOwed
<1>5. NoOrphan' /\ legs' \in LegsType BY <1>1, LosersTold
<1>6. Numbered(run'[o])
  <2>1. Numbered(run[o]) BY Typed
  <2> QED BY <1>1, <2>1 DEF Numbered
<1> QED BY <1>1, <1>2, <1>3, <1>4, <1>5, <1>6, Assembled

(* fn settles.                                                             *)
LEMMA LegEndsSound ==
  ASSUME IInv, NEW leg \in Legs, NEW ok \in BOOLEAN, LegEnds(leg, ok)
  PROVE  IInv'
<1> DEFINE o == leg[1]
<1>1. leg \in legs.running /\ scenario' = scenario /\ o \in Ops
      /\ {leg} \subseteq legs.running /\ \A l \in {leg} : l[1] = o
  BY DEF LegEnds, Legs
<1>2. CASE Heard(leg)
  <2>1. run[o].phase = "attempt" /\ LosersOf(o, {leg}) BY <1>2 DEF Heard, LegEnds
  <2>2. CASE ok
    <3>1. AttemptSucceeds(o) BY <1>2, <2>2 DEF LegEnds
    <3>2. /\ Settles(o, "ok") /\ UNCHANGED budget /\ "ok" \in Results
          /\ \/ Kind(o) = "deadline" /\ NoCircuit
             \/ CircuitTo(AfterSuccess(circuit), probes \ {o})
      BY <3>1 DEF AttemptSucceeds, Results
    <3> QED BY <1>1, <2>1, <3>2, AttemptSettlesSound
  <2>3. CASE ~ok
    <3>1. AttemptFails(o, "failed") /\ "failed" \in Results
      BY <1>2, <2>3 DEF LegEnds, Results
    <3> QED BY <1>1, <2>1, <3>1, AttemptFailsSound
  <2> QED BY <2>2, <2>3
<1>3. CASE ~Heard(leg)
  <2>1. /\ legs' = [running |-> legs.running \ {leg}, told |-> legs.told \ {leg}]
        /\ UNCHANGED << run, circuit, budget, group, probes >>
    BY <1>3 DEF LegEnds
  <2>2. Moves(o) /\ NoCircuit BY <1>1, <2>1, Typed DEF Moves, NoCircuit
  <2>3. CircuitInv' /\ probes' \subseteq Ops
    <3>1. o \in probes => run'[o].phase = "attempt" BY <2>1 DEF IInv, CircuitInv
    <3> QED BY <1>1, <2>2, <3>1, CircuitKept, Typed DEF NoCircuit
  <2>4. BudgetInv' BY <1>1, <2>1 DEF IInv, BudgetInv, Funded, Paid, PaidFor, Kind
  <2>5. legs' \in LegsType BY <2>1, Typed DEF LegsType
  <2>6. NoOrphan'
    BY <1>1, <2>1 DEF IInv, NoOrphan, Kind
  <2>7. Numbered(run'[o]) BY <1>1, <2>1, Typed
  <2> QED BY <1>1, <2>1, <2>2, <2>3, <2>4, <2>5, <2>6, <2>7, Typed, Assembled
<1> QED BY <1>2, <1>3

(* retryIf() has answered.                                                 *)
LEMMA JudgeSound ==
  ASSUME IInv, NEW o \in Ops, NEW retry \in BOOLEAN, Judge(o, retry)
  PROVE  IInv'
<1> DEFINE stops == \/ ~retry \/ run[o].attempt = MaxAttempts
                    \/ Kind(o) = "retry" /\ ~CanRetry(budget)
           n == run[o].attempt
<1>1. run[o].phase = "judging" /\ scenario' = scenario /\ NoCircuit /\ legs' = legs
  BY DEF Judge, NoCircuit
<1>2. CASE stops
  <2>1. Settles(o, run[o].result) /\ UNCHANGED budget BY <1>2 DEF Judge
  <2>2. run[o].result \in Results BY Typed DEF RunType
  <2>3. Moves(o) BY <1>1, <2>1, <2>2, SettlesEffect DEF IInv
  <2>4. NoOrphan' /\ legs' \in LegsType BY <1>1, <2>3, LegsKept
  <2>5. budget' \in BudgetType /\ Funded(budget') /\ budget'.retries = budget.retries
    BY <2>1, Typed
  <2> QED BY <1>1, <2>1, <2>2, <2>4, <2>5, StopSound
<1>3. CASE ~stops
  <2>1. /\ run' = [run EXCEPT ![o].phase = "sleep"] /\ group' = group
        /\ budget' = IF Kind(o) = "retry" THEN AfterConsumeRetry(budget) ELSE budget
        /\ n # MaxAttempts /\ n \in 0..MaxAttempts
        /\ Kind(o) = "retry" => CanRetry(budget)
    BY <1>3, Typed DEF Judge
  <2>2. /\ run' \in [Ops -> RunType] /\ run'[o].phase = "sleep"
        /\ run'[o].attempt = n /\ run'[o].hedge = run[o].hedge
        /\ \A p \in Ops \ {o} : run'[p] = run[p]
    BY <2>1, Typed DEF RunType
  <2>3. Moves(o) BY <1>1, <2>1, <2>2 DEF Moves
  <2>4. CircuitInv' /\ probes' \subseteq Ops
    BY <1>1, <2>3, CircuitKept, ProbesAttempt, Typed DEF NoCircuit
  <2>5. NoOrphan' /\ legs' \in LegsType BY <1>1, <2>3, LegsKept
  <2>6. budget' \in BudgetType /\ Funded(budget') /\ BudgetInv'
    <3>1. CASE Kind(o) = "retry"
      <4>1. budget' \in BudgetType /\ Funded(budget') /\ budget'.retries = budget.retries + 1
        BY <2>1, <3>1, BudgetTyped, FundedKept, Typed
      <4>2. \A k \in 0..MaxAttempts : PaidFor(o, k)' => PaidFor(o, k) \/ k = n
        BY <1>1, <2>1, <2>2 DEF PaidFor, Kind
      <4> QED BY <2>1, <2>3, <4>1, <4>2, OneOwed
    <3>2. CASE Kind(o) # "retry"
      <4>1. budget' = budget /\ budget'.retries >= budget.retries
        BY <2>1, <3>2, Typed DEF BudgetType
      <4>2. \A k \in 0..MaxAttempts : PaidFor(o, k)' => PaidFor(o, k)
        BY <1>1, <2>2, <3>2 DEF PaidFor, Kind
      <4> QED BY <2>3, <4>1, <4>2, Typed, NothingOwed
    <3> QED BY <3>1, <3>2
  <2>7. Numbered(run'[o])
    <3>1. Numbered(run[o]) BY Typed
    <3> QED BY <1>1, <2>1, <2>2, <3>1 DEF Numbered
  <2> QED BY <2>1, <2>2, <2>3, <2>4, <2>5, <2>6, <2>7, Typed, Assembled
<1> QED BY <1>2, <1>3

(* A step that leaves the operations and the budget as they are.           *)
LEMMA QuietSound ==
  ASSUME IInv, UNCHANGED << scenario, run, budget, legs >>,
         group' \in GroupType, group.aborted => group'.aborted,
         \/ NoCircuit
         \/ \E k : CircuitSound(k) /\ k.state # "half-open" /\ CircuitTo(k, {})
  PROVE  IInv'
<1>1. CircuitInv' /\ probes' \subseteq Ops
  <2>1. CASE NoCircuit
    <3>1. circuit' = circuit /\ probes' = probes BY <2>1 DEF NoCircuit
    <3>2. ProbeSlots' BY <3>1 DEF IInv, CircuitInv, ProbeSlots
    <3> QED BY <3>1, <3>2, Typed DEF IInv, CircuitInv, Kind
  <2>2. ASSUME NEW k, CircuitSound(k), k.state # "half-open", CircuitTo(k, {})
        PROVE  CircuitInv' /\ probes' \subseteq Ops
    BY <2>2, CircuitSettles DEF CircuitTo
  <2> QED BY <2>1, <2>2
<1>2. TypeInv'
  BY <1>1 DEF IInv, TypeInv, TypeOK, GroupType, CircuitInv, CircuitSound
<1>3. BudgetInv' BY DEF IInv, BudgetInv, Funded, Paid, PaidFor, Kind
<1>4. NoOrphan' BY DEF IInv, NoOrphan, Kind
<1> QED BY <1>1, <1>2, <1>3, <1>4 DEF IInv

(* A step that only concerns what an operation knows of its timers.        *)
LEMMA TimerSound ==
  ASSUME IInv, NEW o \in Ops, HedgeTimer(o) \/ Expire(o)
  PROVE  IInv'
<1>1. UNCHANGED << scenario, circuit, budget, group, probes >> BY DEF HedgeTimer, Expire
<1>2. /\ run' \in [Ops -> RunType] /\ \A p \in Ops \ {o} : run'[p] = run[p]
      /\ run'[o].phase = run[o].phase /\ run'[o].attempt = run[o].attempt
      /\ run'[o].hedge = run[o].hedge \/ (HedgeTimer(o) /\ run[o].hedge = "armed")
  <2>1. CASE HedgeTimer(o)
    <3>1. run' = [run EXCEPT ![o].hedge = "launched"] /\ run[o].hedge = "armed"
      BY <2>1 DEF HedgeTimer
    <3> QED BY <2>1, <3>1, Typed DEF RunType
  <2>2. CASE Expire(o)
    <3> DEFINE t == TRUE
    <3>1. run' = [run EXCEPT ![o].expired = t] /\ t \in BOOLEAN BY <2>2 DEF Expire
    <3> HIDE DEF t
    <3> QED BY <3>1, Typed DEF RunType
  <2> QED BY <2>1, <2>2
<1>3. Moves(o) /\ NoCircuit BY <1>1, <1>2 DEF Moves, NoCircuit
<1>4. CircuitInv' /\ probes' \subseteq Ops
  <2>1. o \in probes => run'[o].phase = "attempt" BY <1>2 DEF IInv, CircuitInv
  <2> QED BY <1>3, <2>1, CircuitKept, Typed DEF NoCircuit
<1>5. BudgetInv' /\ budget' \in BudgetType
  <2>1. \A k \in 0..MaxAttempts : PaidFor(o, k)' => PaidFor(o, k)
    BY <1>1, <1>2 DEF PaidFor, Kind
  <2>2. budget' = budget /\ budget'.retries >= budget.retries
    BY <1>1, Typed DEF BudgetType
  <2> QED BY <1>3, <2>1, <2>2, Typed, NothingOwed
<1>6. NoOrphan' /\ legs' \in LegsType
  <2>1. CASE HedgeTimer(o)
    <3> DEFINE leg == << o, run[o].attempt, 2 >>
    <3>1. run[o].phase = "attempt" /\ legs' = [legs EXCEPT !.running = @ \cup {leg}]
      BY <2>1 DEF HedgeTimer
    <3>2. leg \in Legs /\ leg[1] = o /\ leg[2] = run[o].attempt
      BY <3>1, Typed, ResilienceConstants DEF Legs, Numbered
    <3> HIDE DEF leg
    <3> QED BY <1>2, <1>3, <3>1, <3>2, LegBegins
  <2>2. CASE Expire(o)
    <3>1. legs' = legs BY <2>2 DEF Expire
    <3> QED BY <1>2, <1>3, <3>1, LegsKept
  <2> QED BY <2>1, <2>2
<1>7. Numbered(run'[o])
  <2>1. Numbered(run[o]) BY Typed
  <2> QED BY <1>2, <2>1 DEF Numbered
<1> QED BY <1>1, <1>3, <1>4, <1>5, <1>6, <1>7, Typed, Assembled

(* An operation starts, and a disposed group refuses it.                   *)
LEMMA StartSound ==
  ASSUME IInv, NEW o \in Ops, Start(o)
  PROVE  IInv'
<1>1. run[o].phase = "new" /\ scenario' = scenario BY DEF Start
<1>2. CASE group.disposed
  <2>1. /\ run' = [run EXCEPT ![o].phase = "done", ![o].result = "refused"]
        /\ UNCHANGED << circuit, budget, legs, group, probes >>
    BY <1>2 DEF Start
  <2>2. /\ run' \in [Ops -> RunType] /\ run'[o].phase = "done"
        /\ run'[o].attempt = run[o].attempt /\ run'[o].hedge = run[o].hedge
        /\ \A p \in Ops \ {o} : run'[p] = run[p]
    <3>1. run \in [Ops -> RunType] /\ "refused" \in Results BY Typed DEF Results
    <3> QED BY <2>1, <3>1, RunResults DEF Phases
  <2>3. Moves(o) /\ NoCircuit /\ UNCHANGED legs BY <1>1, <2>1, <2>2 DEF Moves, NoCircuit
  <2>4. CircuitInv' /\ probes' \subseteq Ops
    BY <1>1, <2>3, CircuitKept, ProbesAttempt, Typed DEF NoCircuit
  <2>5. BudgetInv' /\ budget' \in BudgetType
    <3>1. \A k \in 0..MaxAttempts : PaidFor(o, k)' => PaidFor(o, k)
      BY <1>1, <2>2 DEF PaidFor, Kind
    <3>2. budget' = budget /\ budget'.retries >= budget.retries
      BY <2>1, Typed DEF BudgetType
    <3> QED BY <2>3, <3>1, <3>2, Typed, NothingOwed
  <2>6. NoOrphan' /\ legs' \in LegsType BY <1>1, <2>3, LegsKept
  <2> QED BY <2>1, <2>2, <2>3, <2>4, <2>5, <2>6, Typed, Assembled DEF Numbered
<1>3. CASE ~group.disposed
  <2> DEFINE b == IF Kind(o) = "retry" THEN AfterRecordRequest(budget) ELSE budget
  <2>1. LoopTop(o, 1, b) BY <1>3 DEF Start
  <2>2. b \in BudgetType /\ Funded(b) /\ b.retries = budget.retries
    BY BudgetTyped, FundedKept, Typed
  <2>3. 1 \in 1..MaxAttempts BY ResilienceConstants
  <2> HIDE DEF b
  <2> QED BY <1>1, <2>1, <2>2, <2>3, LoopTopSound
<1> QED BY <1>2, <1>3

(* A backoff sleep ends, by its timer or by an abort.                      *)
LEMMA SleepEndsSound ==
  ASSUME IInv, NEW o \in Ops, Wake(o) \/ AbortSleep(o)
  PROVE  IInv'
<1>1. run[o].phase = "sleep" /\ scenario' = scenario BY DEF Wake, AbortSleep
<1>2. CASE Wake(o)
  <2> DEFINE n == run[o].attempt + 1
  <2>1. LoopTop(o, n, budget) BY <1>2 DEF Wake
  <2>2. n \in 1..MaxAttempts BY <1>1, Typed, ResilienceConstants DEF Numbered
  <2> QED BY <1>1, <2>1, <2>2, Typed, LoopTopSound
<1>3. CASE AbortSleep(o)
  <2>1. /\ Settles(o, "EABORT") /\ "EABORT" \in Results
        /\ NoCircuit /\ UNCHANGED legs /\ budget' = budget
    BY <1>3 DEF AbortSleep, Results, NoCircuit
  <2>2. Moves(o) BY <1>1, <2>1, SettlesEffect DEF IInv
  <2>3. NoOrphan' /\ legs' \in LegsType BY <1>1, <2>1, <2>2, LegsKept
  <2> QED BY <1>1, <2>1, <2>3, Typed, StopSound
<1> QED BY <1>2, <1>3

(* A timer or the abort ends an attempt.                                   *)
LEMMA AttemptEndsSound ==
  ASSUME IInv, NEW o \in Ops, AttemptTimer(o) \/ DeadlineTimer(o) \/ AbortAttempt(o)
  PROVE  IInv'
<1>1. /\ run[o].phase = "attempt" /\ scenario' = scenario /\ LosersOf(o, {})
      /\ {} \subseteq legs.running /\ \A leg \in {} : leg[1] = o
  BY DEF AttemptTimer, DeadlineTimer, AbortAttempt
<1>2. CASE AttemptTimer(o)
  <2>1. AttemptFails(o, "ETIMEOUT") /\ "ETIMEOUT" \in Results
    BY <1>2 DEF AttemptTimer, Results
  <2> QED BY <1>1, <2>1, AttemptFailsSound
<1>3. CASE DeadlineTimer(o)
  <2>1. /\ Settles(o, "EDEADLINE") /\ "EDEADLINE" \in Results
        /\ UNCHANGED budget /\ Kind(o) = "deadline" /\ NoCircuit
    BY <1>3 DEF DeadlineTimer, Results, NoCircuit
  <2> QED BY <1>1, <2>1, AttemptSettlesSound
<1>4. CASE AbortAttempt(o)
  <2>1. /\ Settles(o, "EABORT") /\ "EABORT" \in Results /\ UNCHANGED budget
        /\ \/ Kind(o) = "deadline" /\ NoCircuit
           \/ group.aborted /\ CircuitTo(AfterAborted(circuit), probes \ {o})
    <3>1. Kind(o) \in Kinds BY ResilienceConstants DEF IInv, TypeInv, TypeOK, Kind
    <3> QED BY <1>4, <3>1 DEF AbortAttempt, Results, Kinds
  <2> QED BY <1>1, <2>1, AttemptSettlesSound
<1> QED BY <1>2, <1>3, <1>4

(* The circuit's clock and its operator.                                   *)
LEMMA CircuitStepSound ==
  ASSUME IInv, WindowElapses \/ ResetCircuit \/ DisposeCircuit
  PROVE  IInv'
<1>1. UNCHANGED << scenario, run, budget, legs >> /\ group' = group
  BY DEF WindowElapses, ResetCircuit, DisposeCircuit
<1>2. \E k : CircuitSound(k) /\ k.state # "half-open" /\ CircuitTo(k, {})
  <2>1. CASE WindowElapses
    <3> DEFINE t == TRUE
               k == [circuit EXCEPT !.elapsed = t]
    <3>1. CircuitTo(k, {}) /\ circuit.state = "open" /\ t \in BOOLEAN BY <2>1 DEF WindowElapses
    <3>2. circuit \in CircuitType /\ circuit.trials = 0 BY <3>1, Typed DEF CircuitSound
    <3> HIDE DEF t
    <3>3. k \in CircuitType /\ k.state = "open" /\ k.trials = 0
      BY <3>1, <3>2 DEF CircuitType
    <3> HIDE DEF k
    <3> QED BY <3>1, <3>3 DEF CircuitSound
  <2>2. CASE ResetCircuit BY <2>2, Typed, Restarted DEF ResetCircuit
  <2>3. CASE DisposeCircuit BY <2>3, Typed, Restarted DEF DisposeCircuit
  <2> QED BY <2>1, <2>2, <2>3
<1> QED BY <1>1, <1>2, Typed, QuietSound

(* The group is cancelled or disposed of, and cancel() returns.            *)
LEMMA GroupStepSound ==
  ASSUME IInv, Cancel \/ CancelReturns \/ DisposeGroup
  PROVE  IInv'
<1>1. UNCHANGED << scenario, run, budget, legs >> /\ NoCircuit
  BY DEF Cancel, CancelReturns, DisposeGroup, NoCircuit
<1>2. group' \in GroupType /\ (group.aborted => group'.aborted)
  <2>1. CASE Cancel
    <3>1. /\ group'.aborted = TRUE /\ group'.disposed = TRUE
          /\ group'.cancelled = "waiting" /\ group'.awaited = Unsettled
          /\ group' = [ aborted |-> TRUE, disposed |-> TRUE,
                        cancelled |-> "waiting", awaited |-> Unsettled ]
      BY <2>1 DEF Cancel
    <3> QED BY <3>1 DEF GroupType, Unsettled
  <2>2. CASE CancelReturns
    <3>1. group' = [group EXCEPT !.cancelled = "done", !.awaited = {}]
      BY <2>2 DEF CancelReturns
    <3>2. group' \in GroupType /\ group'.aborted = group.aborted
      BY <3>1, Typed DEF GroupType
    <3> QED BY <3>2
  <2>3. CASE DisposeGroup
    <3> DEFINE t == TRUE
    <3>1. group' = [group EXCEPT !.aborted = t, !.disposed = t] /\ t \in BOOLEAN /\ t
      BY <2>3 DEF DisposeGroup
    <3> HIDE DEF t
    <3>2. group' \in GroupType /\ group'.aborted = t
      BY <3>1, Typed DEF GroupType
    <3> QED BY <3>1, <3>2
  <2> QED BY <2>1, <2>2, <2>3
<1> QED BY <1>1, <1>2, QuietSound

-----------------------------------------------------------------------------
(* The theorems.                                                           *)

(* The invariant holds at first.                                           *)
LEMMA InitSound == Init => IInv
<1> SUFFICES ASSUME Init PROVE IInv OBVIOUS
<1>1. TypeOK
  <2>1. run \in [Ops -> RunType]
    <3> DEFINE f == FALSE
               r == [ phase |-> "new", attempt |-> 0, hedge |-> "off",
                      expired |-> f, result |-> "none" ]
    <3>1. run = [o \in Ops |-> r] /\ f \in BOOLEAN BY DEF Init
    <3> HIDE DEF f
    <3>2. r \in RunType BY <3>1, ResilienceConstants DEF RunType, Results
    <3> QED BY <3>1, <3>2
  <2>2. circuit \in CircuitType BY CircuitConstants DEF Init, NewCircuit, CircuitType
  <2>3. budget \in BudgetType BY ResilienceConstants DEF Init, BudgetType
  <2>4. legs \in LegsType BY DEF Init, LegsType
  <2>5. group \in GroupType BY DEF Init, GroupType
  <2>6. scenario \in Scenarios /\ probes \subseteq Ops BY DEF Init
  <2> QED BY <2>1, <2>2, <2>3, <2>4, <2>5, <2>6 DEF TypeOK, BudgetType, LegsType, GroupType
<1>2. \A o \in Ops : run[o].phase = "new" /\ run[o].attempt = 0 /\ run[o].hedge = "off"
  BY DEF Init
<1>3. CircuitInv
  BY <1>1 DEF Init, NewCircuit, CircuitInv, CircuitSound, ProbeSlots, TypeOK
<1>4. BudgetInv
  <2>1. \A o \in Ops, k \in 0..MaxAttempts : ~PaidFor(o, k) BY <1>2 DEF PaidFor
  <2>2. Paid = {} BY <2>1 DEF Paid
  <2>3. budget.tokens = Capacity /\ budget.retries = 0 /\ budget.funded = 0 BY DEF Init
  <2>4. Funded(budget) BY <2>3, ResilienceConstants DEF Funded, Token
  <2> QED BY <2>2, <2>3, <2>4, FS_EmptySet DEF BudgetInv
<1>5. NoOrphan BY DEF Init, NoOrphan
<1> QED BY <1>1, <1>2, <1>3, <1>4, <1>5 DEF IInv, TypeInv, Numbered

(* Every step preserves the invariant.                                     *)
LEMMA StepSound == IInv /\ [Next]_vars => IInv'
<1> SUFFICES ASSUME IInv, [Next]_vars PROVE IInv' OBVIOUS
<1>1. ASSUME NEW o \in Ops, Start(o) PROVE IInv' BY <1>1, StartSound
<1>2. ASSUME NEW o \in Ops, HedgeTimer(o) \/ Expire(o) PROVE IInv' BY <1>2, TimerSound
<1>3. ASSUME NEW o \in Ops, AttemptTimer(o) \/ DeadlineTimer(o) \/ AbortAttempt(o)
      PROVE  IInv'
  BY <1>3, AttemptEndsSound
<1>4. ASSUME NEW o \in Ops, NEW retry \in BOOLEAN, Judge(o, retry) PROVE IInv'
  BY <1>4, JudgeSound
<1>5. ASSUME NEW o \in Ops, Wake(o) \/ AbortSleep(o) PROVE IInv' BY <1>5, SleepEndsSound
<1>6. ASSUME NEW leg \in Legs, NEW ok \in BOOLEAN, LegEnds(leg, ok) PROVE IInv'
  BY <1>6, LegEndsSound
<1>7. CASE WindowElapses \/ ResetCircuit \/ DisposeCircuit BY <1>7, CircuitStepSound
<1>8. CASE Cancel \/ CancelReturns \/ DisposeGroup BY <1>8, GroupStepSound
<1>9. CASE UNCHANGED vars
  <2>1. UNCHANGED << scenario, run, budget, legs, group >> /\ NoCircuit
    BY <1>9 DEF vars, NoCircuit
  <2> QED BY <2>1, Typed, QuietSound
<1> QED BY <1>1, <1>2, <1>3, <1>4, <1>5, <1>6, <1>7, <1>8, <1>9 DEF Next

(* The invariant of the retried operations, their circuit (closed, open or *)
(* disposed), their budget and their group holds in every state of every   *)
(* scenario.                                                               *)
THEOREM ResilienceSafety == Spec => []IInv
BY InitSound, StepSound, PTL DEF Spec

(* Every state has its type: a circuit never counts more slots than        *)
(* halfOpenProbes, nor a budget more tokens than its capacity.             *)
THEOREM ResilienceTypes == Spec => []TypeOK
<1>1. IInv => TypeOK BY DEF IInv, TypeInv
<1> QED BY <1>1, ResilienceSafety, PTL

(* The slots of a half-open circuit (_trialInFlight) are never more than   *)
(* its probes and, as long as no abort has ended a call, exactly as many,  *)
(* whatever calls older than the opening settle meanwhile.                 *)
THEOREM SlotsAreProbes == Spec => []ProbeSlots
<1>1. IInv => ProbeSlots BY DEF IInv, CircuitInv
<1> QED BY <1>1, ResilienceSafety, PTL

(* However retries and hedges interleave, the budget has paid for each of  *)
(* them, and never pays out more than it was given; an attempt rejected by *)
(* a disposed circuit (ECIRCUITDISPOSED) is penalised, and its retry paid  *)
(* for, like any other (PowerRetry.run).                                   *)
THEOREM BudgetHolds == Spec => []ExtraWorkIsPaid
<1>1. IInv => ExtraWorkIsPaid
  <2> SUFFICES ASSUME IInv PROVE ExtraWorkIsPaid OBVIOUS
  <2> DEFINE retried(o) == IF Kind(o) = "retry" THEN 1..(run[o].attempt - 1) ELSE {}
             hedged(o) == IF run[o].hedge = "launched" THEN {0} ELSE {}
             Extra == {x \in Ops \X (0..MaxAttempts) : x[2] \in retried(x[1]) \cup hedged(x[1])}
  <2>1. ASSUME NEW o \in Ops, NEW k \in 0..MaxAttempts, k \in retried(o) \cup hedged(o)
        PROVE  PaidFor(o, k)
    <3>1. run[o].attempt \in 0..MaxAttempts BY Typed
    <3> QED BY <2>1, <3>1 DEF PaidFor
  <2>2. Extra \subseteq Paid BY <2>1 DEF Paid
  <2> HIDE DEF Extra
  <2>3. Cardinality(Extra) <= Cardinality(Paid) /\ Cardinality(Extra) \in Nat
        /\ Cardinality(Paid) \in Nat
    BY <2>2, PaidFinite, FS_Subset, FS_CardinalityType
  <2>4. budget.retries \in Nat /\ Cardinality(Paid) <= budget.retries /\ Funded(budget)
    BY Typed DEF IInv, BudgetInv, BudgetType
  <2>5. Cardinality(Extra) <= budget.retries BY <2>3, <2>4
  <2>6. ExtraRequests = Cardinality(Extra) BY DEF ExtraRequests, Extra
  <2> QED BY <2>4, <2>5, <2>6 DEF ExtraWorkIsPaid, Funded
<1> QED BY <1>1, ResilienceSafety, PTL

(* A call of fn whose attempt is over has had its signal aborted, however  *)
(* timers, hedges, deadlines and aborts race.                              *)
THEOREM LosersAreTold == Spec => []NoOrphan
<1>1. IInv => NoOrphan BY DEF IInv
<1> QED BY <1>1, ResilienceSafety, PTL
=============================================================================
