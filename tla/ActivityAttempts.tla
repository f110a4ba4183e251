-------------------------- MODULE ActivityAttempts --------------------------
(***************************************************************************)
(* The attempts of a Temporal activity (the retry policy of workflows.ts). *)
(* Taken alone, OrderEventStore and Payments read it as the number of      *)
(* requests of each operation that may run side by side.                   *)
(***************************************************************************)
EXTENDS Naturals

CONSTANT MaxAttempts   \* retry.maximumAttempts, 5 in the code

ASSUME AttemptsAssumption == MaxAttempts \in Nat \ {0}

Attempts == 1 .. MaxAttempts
=============================================================================
