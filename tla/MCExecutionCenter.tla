------------------------- MODULE MCExecutionCenter -------------------------
(* ExecutionCenter for TLC.  Threads of one kind are interchangeable; the  *)
(* runs that check liveness do not use the symmetry.                       *)
EXTENDS ExecutionCenter, TLC

Symmetry == Permutations(Workers) \cup Permutations(Consumers) \cup Permutations(Requests)

=============================================================================
