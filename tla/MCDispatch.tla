----------------------------- MODULE MCDispatch -----------------------------
(***************************************************************************)
(* Bounds under which TLC explores Dispatch with retried activities: how   *)
(* many activities of an order are retried, and how many drivers answer.   *)
(***************************************************************************)
EXTENDS Dispatch, TLC

CONSTANTS
  MaxRetried,          \* activities of an order that are retried
  MaxAnswers           \* accept and reject signals an order gets

Retried(o) == {a \in Activities : \E n \in Attempts \ {1} :
                 call[o][<<a, n>>].step # "idle"}

Bounds ==
  \A o \in Orders :
    /\ Cardinality(Retried(o)) <= MaxRetried
    /\ Cardinality(accepted[o]) + Cardinality(rejected[o]) <= MaxAnswers

Symmetry == Permutations(Drivers)
=============================================================================
