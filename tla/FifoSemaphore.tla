---------------------------- MODULE FifoSemaphore ----------------------------
(***************************************************************************)
(* What PowerPermitGate and PowerSemaphore promise their callers when      *)
(* every call has weight one: at most Capacity calls hold a permit, at     *)
(* most QueueCapacity wait in line, a call enters ahead of nobody, and a   *)
(* permit given back goes to the head of the line in the same step.        *)
(***************************************************************************)
EXTENDS Naturals, Sequences, FiniteSets

CONSTANTS Calls, Capacity, QueueCapacity

VARIABLES
  holding,   \* the calls that hold a permit
  line       \* the calls that wait, oldest first

vars == << holding, line >>

InLine == {line[i] : i \in 1..Len(line)}

Init == holding = {} /\ line = << >>

Enter(c) ==
  /\ c \notin holding \cup InLine
  /\ Cardinality(holding) < Capacity
  /\ line = << >>
  /\ holding' = holding \cup {c}
  /\ UNCHANGED line

StandInLine(c) ==
  /\ c \notin holding \cup InLine
  /\ Cardinality(holding) = Capacity
  /\ Len(line) < QueueCapacity
  /\ line' = Append(line, c)
  /\ UNCHANGED holding

Leave(c) ==
  /\ \E i \in 1..Len(line) :
       /\ line[i] = c
       /\ line' = SubSeq(line, 1, i - 1) \o SubSeq(line, i + 1, Len(line))
  /\ UNCHANGED holding

GiveBack(c) ==
  /\ c \in holding
  /\ \/ /\ line = << >>
        /\ holding' = holding \ {c}
        /\ UNCHANGED line
     \/ /\ line # << >>
        /\ holding' = (holding \ {c}) \cup {Head(line)}
        /\ line' = Tail(line)

Clear ==
  /\ line' = << >>
  /\ UNCHANGED holding

Next ==
  \/ \E c \in Calls : Enter(c) \/ StandInLine(c) \/ Leave(c) \/ GiveBack(c)
  \/ Clear

Spec == Init /\ [][Next]_vars
=============================================================================
