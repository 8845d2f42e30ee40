-------------------------- MODULE MCCreditLedger ---------------------------
(* CreditLedger for TLC: one key of each kind for one user, and another     *)
(* who is registered, created without an account or found by the backfill.  *)
EXTENDS CreditLedger, TLC

CONSTANTS u1, u2, sync, fixed, token

OwnerOf == [k \in Keys |-> u1]
ModeOf  == [k \in Keys |-> CASE k = sync -> "SYNC" [] k = fixed -> "FIXED" [] k = token -> "TOKEN"]
Entered == {2, -2}
Adjusted == [u \in Users |-> IF u = u1 THEN 2 ELSE 0]
Symmetry == Permutations(Threads)

=============================================================================
