---------------------------- MODULE MCResilience ----------------------------
(* Instances of Resilience for TLC. *)
EXTENDS Resilience, TLC

CONSTANTS a, b, c

MCOps == {a, b, c}

(* Two retried operations beside a plain call, in a group that goes on     *)
(* after a failure; one operation of each kind, in one that is cancelled,  *)
(* with the circuit reset and disposed by hand.                            *)
MCScenarios ==
  LET K(x, y, z, cancels) == [ kind |-> (a :> x @@ b :> y @@ c :> z), hedges |-> {a},
                        cancelOnError |-> cancels, operated |-> cancels ]
  IN  { K("retry", "retry", "call", FALSE), K("retry", "deadline", "call", TRUE) }
=============================================================================
