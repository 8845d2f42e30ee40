--------------------------- MODULE PrepaidAccounts ---------------------------
(***************************************************************************)
(* What the credit system promises about money, without transactions, row  *)
(* locks and threads: an account is opened once, a bill is paid once and   *)
(* closed once, and each of the two moves one amount between the bill and  *)
(* the account of its owner.                                               *)
(***************************************************************************)
EXTENDS Integers

CONSTANTS
  Users,
  Keys,   \* what a user is billed for
  Owner,  \* the user who pays for a key
  Cost,   \* what is prepaid for a key
  Most,   \* the most that is charged on top when its bill is closed
  Grant,  \* what a new account may be given
  Amounts \* what an account may be adjusted by

VARIABLES
  opened,   \* the users that have an account
  balance,  \* what is on it
  paid,     \* what the owner of a key has paid for it, as it stands
  stage     \* of its bill: "unpaid", "paid" or "closed"

vars == <<opened, balance, paid, stage>>

Init ==
  /\ opened = {}
  /\ balance = [u \in Users |-> 0]
  /\ paid = [k \in Keys |-> 0]
  /\ stage = [k \in Keys |-> "unpaid"]

(* Several accounts may be opened at once, all of them or none. *)
Open(us, grant) ==
  /\ us \cap opened = {}
  /\ opened' = opened \cup us
  /\ balance' = [u \in Users |-> IF u \in us THEN grant ELSE balance[u]]
  /\ UNCHANGED <<paid, stage>>

(* An account somebody adjusts is open from then on. *)
Adjust(u, amount) ==
  /\ balance[u] + amount >= 0
  /\ opened' = opened \cup {u}
  /\ balance' = [balance EXCEPT ![u] = @ + amount]
  /\ UNCHANGED <<paid, stage>>

(* What an account gets its bill loses, and the other way round. *)
GiveBack(k, amount) ==
  /\ Owner[k] \in opened
  /\ balance[Owner[k]] + amount >= 0
  /\ balance' = [balance EXCEPT ![Owner[k]] = @ + amount]
  /\ paid' = [paid EXCEPT ![k] = @ - amount]
  /\ UNCHANGED opened

Pay(k) ==
  /\ stage[k] = "unpaid"
  /\ GiveBack(k, -Cost)
  /\ stage' = [stage EXCEPT ![k] = "paid"]

(* Retained, refunded, settled lower or settled higher. *)
Close(k, amount) ==
  /\ stage[k] = "paid"
  /\ GiveBack(k, amount)
  /\ stage' = [stage EXCEPT ![k] = "closed"]

Next ==
  \/ \E us \in SUBSET Users, grant \in {0, Grant} : Open(us, grant)
  \/ \E u \in Users, amount \in Amounts : Adjust(u, amount)
  \/ \E k \in Keys : Pay(k) \/ \E amount \in -Most..Cost : Close(k, amount)

Spec == Init /\ [][Next]_vars
=============================================================================
