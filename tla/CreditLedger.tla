---------------------------- MODULE CreditLedger ----------------------------
(***************************************************************************)
(* The public credit accounts: the account row of each user, the           *)
(* transactions written with it, the consumptions identified by their      *)
(* business keys, and the settlement of those that belong to an execution  *)
(* task.  Threads of any instance work on them in database transactions;   *)
(* what orders them is the row lock of the account, the row lock of the    *)
(* settlement and the unique indexes.                                      *)
(***************************************************************************)
EXTENDS Integers

CONSTANTS
  Users,        \* user_info rows, of which some exist from the start
  Keys,         \* business keys of consumptions
  Threads,      \* request and executor threads of all instances
  NoUser, NoKey,
  Owner,        \* whose consumption a key is
  Mode,         \* what the key pays for: "SYNC", "FIXED" or "TOKEN"
  Cost,         \* the price, for "TOKEN" the prepaid estimate
  Cap,          \* the most a "TOKEN" settlement charges on top
  Usage,        \* what a "TOKEN" execution may turn out to cost
  Grant,        \* register_grant_amount
  Amounts,      \* the amounts an administrator enters
  MaxAdjusted   \* bound on what administrators add to an account or take from it in all

ASSUME LedgerAssumption ==
  /\ NoUser \notin Users /\ NoKey \notin Keys
  /\ Owner \in [Keys -> Users]
  /\ Mode \in [Keys -> {"SYNC", "FIXED", "TOKEN"}]
  /\ Cost \in Nat \ {0} /\ Cap \in Nat /\ Grant \in Nat
  /\ MaxAdjusted \in [Users -> Nat]
  /\ Usage \subseteq Nat
  /\ Amounts \subseteq Int

VARIABLES
  known,      \* the users that exist
  account,    \* the user_credit_account row of each user
  journal,    \* sum of the user's committed transactions of each type
  bill,       \* the CONSUME transaction of each key, its refunds, its settlement
  thread,     \* the transaction or the paid work each thread is in
  rowLock,    \* who holds the lock of an account row
  settling,   \* who holds the lock of a settlement row
  abandoned   \* keys whose request died after it had paid

locks == <<rowLock, settling>>
vars  == <<known, account, journal, bill, thread, locks, abandoned>>

Types    == {"REGISTER_GRANT", "ADJUST_INCREASE", "ADJUST_DECREASE", "CONSUME", "REFUND"}
Statuses == {"NONE", "CHARGED", "RETAINED", "REFUNDED", "SETTLED", "SETTLED_CAPPED"}

AccountRow == [open : BOOLEAN, balance : Int, granted : Int, consumed : Int, refunded : Int]
Bill       == [charged : Nat, refunded : Nat, surcharge : Nat,
               status : Statuses, actual : Nat, delivered : BOOLEAN]
Thread     == [pc : {"idle", "lock", "post", "work", "settle", "backfill"},
               op : {"none", "adjust", "consume", "refund", "settle"},
               user : Users \cup {NoUser}, key : Keys \cup {NoKey}, amount : Int,
               mine : BOOLEAN, verdict : Statuses, usage : Nat,
               copy : AccountRow, missing : SUBSET Users]

NoAccount == [open |-> FALSE, balance |-> 0, granted |-> 0, consumed |-> 0, refunded |-> 0]
NoBill == [charged |-> 0, refunded |-> 0, surcharge |-> 0,
           status |-> "NONE", actual |-> 0, delivered |-> FALSE]
Idle == [pc |-> "idle", op |-> "none", user |-> NoUser, key |-> NoKey, amount |-> 0,
         mine |-> FALSE, verdict |-> "NONE", usage |-> 0, copy |-> NoAccount, missing |-> {}]

(* Rows, threads and locks keep their shape. *)
TypeOK ==
  /\ known \subseteq Users
  /\ account \in [Users -> AccountRow]
  /\ journal \in [Users -> [Types -> Int]]
  /\ bill \in [Keys -> Bill]
  /\ thread \in [Threads -> Thread]
  /\ rowLock \in [Users -> SUBSET Threads]
  /\ settling \in [Keys -> SUBSET Threads]
  /\ abandoned \subseteq Keys

(* Users from before the credit system exist and have no account. *)
Init ==
  /\ known \in SUBSET Users
  /\ account = [u \in Users |-> NoAccount]
  /\ journal = [u \in Users |-> [y \in Types |-> 0]]
  /\ bill = [k \in Keys |-> NoBill]
  /\ thread = [t \in Threads |-> Idle]
  /\ rowLock = [u \in Users |-> {}]
  /\ settling = [k \in Keys |-> {}]
  /\ abandoned = {}

-----------------------------------------------------------------------------
(* applyDelta, on the account row a: a new account is inserted with it. *)
Applied(a, type, amount) ==
  [open     |-> TRUE,
   balance  |-> a.balance + amount,
   granted  |-> IF type \in {"REGISTER_GRANT", "ADJUST_INCREASE"} THEN a.granted + amount
                                                                  ELSE a.granted,
   consumed |-> IF type = "CONSUME" THEN a.consumed - amount ELSE a.consumed,
   refunded |-> IF type = "REFUND" THEN a.refunded + amount ELSE a.refunded]

(* Registration inserts the user, the account and the grant in one          *)
(* transaction nobody else can see into.                                    *)
Register(u, grant) ==
  /\ u \notin known
  /\ known' = known \cup {u}
  /\ account' = [account EXCEPT ![u] = Applied(NoAccount, "REGISTER_GRANT", grant)]
  /\ journal' = [journal EXCEPT ![u]["REGISTER_GRANT"] = @ + grant]
  /\ UNCHANGED <<bill, thread, locks, abandoned>>

(* An administrator creates users without an account. *)
CreateUser(u) ==
  /\ u \notin known
  /\ known' = known \cup {u}
  /\ UNCHANGED <<account, journal, bill, thread, locks, abandoned>>

Begin(t, job) ==
  /\ thread[t].pc = "idle"
  /\ thread' = [thread EXCEPT ![t] = job]
  /\ UNCHANGED <<known, account, journal, bill, locks, abandoned>>

Adjust(t, u, amount) ==
  /\ u \in known
  /\ amount # 0
  /\ journal[u]["ADJUST_INCREASE"] + amount <= MaxAdjusted[u]
  /\ journal[u]["ADJUST_DECREASE"] + amount >= -MaxAdjusted[u]
  /\ Begin(t, [Idle EXCEPT !.pc = "lock", !.op = "adjust", !.user = u, !.amount = amount])

(* A request pays before it works.  One whose key has a consumption already *)
(* pays nothing; the tasks' keys carry the time and are new each time.      *)
Consume(t, k) ==
  /\ Owner[k] \in known
  /\ \/ /\ bill[k].charged = 0
        /\ Begin(t, [Idle EXCEPT !.pc = "lock", !.op = "consume", !.user = Owner[k],
                                 !.key = k, !.amount = -Cost])
     \/ /\ bill[k].charged # 0
        /\ Mode[k] = "SYNC"
        /\ Begin(t, [Idle EXCEPT !.pc = "work", !.op = "consume", !.user = Owner[k], !.key = k])

Settle(t, k) ==
  /\ bill[k].status # "NONE"
  /\ Begin(t, [Idle EXCEPT !.pc = "settle", !.op = "settle", !.user = Owner[k], !.key = k])

Backfill(t) ==
  Begin(t, [Idle EXCEPT !.pc = "backfill", !.missing = {u \in known : ~account[u].open}])

-----------------------------------------------------------------------------
(* Mutant: the account is read without its lock. *)
LockNothing(t) ==
  /\ thread[t].pc = "lock"
  /\ thread' = [thread EXCEPT ![t].pc = "post", ![t].copy = account[thread[t].user]]
  /\ UNCHANGED <<known, account, journal, bill, locks, abandoned>>

(* ensureAccountForUpdate: SELECT ... FOR UPDATE waits for the row and reads *)
(* what was last committed.  A row that is not there is not locked.          *)
Lock(t) ==
  LET u == thread[t].user
  IN  /\ thread[t].pc = "lock"
      /\ account[u].open => rowLock[u] = {}
      /\ rowLock' = IF account[u].open THEN [rowLock EXCEPT ![u] = {t}] ELSE rowLock
      /\ thread' = [thread EXCEPT ![t].pc = "post", ![t].copy = account[u]]
      /\ UNCHANGED <<known, account, journal, bill, settling, abandoned>>

Release(t) ==
  /\ rowLock' = [u \in Users |-> rowLock[u] \ {t}]
  /\ settling' = [k \in Keys |-> settling[k] \ {t}]

(* The commit of a transaction of the given type.  The balance may not      *)
(* become negative, and a new account must still be the first of its user.  *)
Post(t, type) ==
  LET me == thread[t]
  IN  /\ me.pc = "post"
      /\ me.copy.open = account[me.user].open
      /\ me.copy.balance + me.amount >= 0
      /\ account' = [account EXCEPT ![me.user] = Applied(me.copy, type, me.amount)]
      /\ journal' = [journal EXCEPT ![me.user][type] = @ + me.amount]
      /\ Release(t)
      /\ UNCHANGED <<known, abandoned>>

PostAdjustment(t) ==
  /\ thread[t].op = "adjust"
  /\ Post(t, IF thread[t].amount > 0 THEN "ADJUST_INCREASE" ELSE "ADJUST_DECREASE")
  /\ thread' = [thread EXCEPT ![t] = Idle]
  /\ UNCHANGED bill

(* The consumption is the only one of its key.  The task a FIXED or TOKEN   *)
(* key pays for and its settlement are created in the same transaction.     *)
PostConsumption(t) ==
  LET k == thread[t].key
  IN  /\ thread[t].op = "consume"
      /\ bill[k].charged = 0
      /\ Post(t, "CONSUME")
      /\ bill' = [bill EXCEPT ![k].charged = Cost,
                              ![k].status = IF Mode[k] = "SYNC" THEN "NONE" ELSE "CHARGED"]
      /\ thread' = [thread EXCEPT ![t] = IF Mode[k] = "SYNC"
                      THEN [@ EXCEPT !.pc = "work", !.mine = TRUE, !.copy = NoAccount]
                      ELSE Idle]

(* Mutant: the refund is booked with the sign of the consumption. *)
PostRefundSigned(t) ==
  LET k == thread[t].key
  IN  /\ thread[t].op = "refund"
      /\ Post(t, "REFUND")
      /\ bill' = [bill EXCEPT ![k].refunded = @ - thread[t].amount]
      /\ thread' = [thread EXCEPT ![t] = Idle]

PostRefund(t) ==
  LET k == thread[t].key
  IN  /\ thread[t].op = "refund"
      /\ Post(t, "REFUND")
      /\ bill' = [bill EXCEPT ![k].refunded = @ + thread[t].amount]
      /\ thread' = [thread EXCEPT ![t] = Idle]

-----------------------------------------------------------------------------
(* The paid work of a request, and the draft of a task *)

WorkSucceeds(t) ==
  /\ thread[t].pc = "work"
  /\ bill' = [bill EXCEPT ![thread[t].key].delivered = TRUE]
  /\ thread' = [thread EXCEPT ![t] = Idle]
  /\ UNCHANGED <<known, account, journal, locks, abandoned>>

(* Mutants: every failed request is refunded, none is. *)
WorkFailsAndRefunds(t) ==
  /\ thread[t].pc = "work"
  /\ thread' = [thread EXCEPT ![t].pc = "lock", ![t].op = "refund", ![t].amount = Cost]
  /\ UNCHANGED <<known, account, journal, bill, locks, abandoned>>
WorkFailsForGood(t) ==
  /\ thread[t].pc = "work"
  /\ thread' = [thread EXCEPT ![t] = Idle]
  /\ UNCHANGED <<known, account, journal, bill, locks, abandoned>>

(* Only the request that paid is refunded. *)
WorkFails(t) ==
  /\ thread[t].pc = "work"
  /\ thread' = [thread EXCEPT ![t] = IF thread[t].mine
                  THEN [@ EXCEPT !.pc = "lock", !.op = "refund", !.amount = Cost]
                  ELSE Idle]
  /\ UNCHANGED <<known, account, journal, bill, locks, abandoned>>

DeliverDraft(k) ==
  /\ Mode[k] = "FIXED"
  /\ bill[k].status # "NONE"
  /\ bill' = [bill EXCEPT ![k].delivered = TRUE]
  /\ UNCHANGED <<known, account, journal, thread, locks, abandoned>>

-----------------------------------------------------------------------------
(* Settlement of a task, under the lock of its settlement row *)

(* Closed without a transaction. *)
CloseBill(t, verdict, actual) ==
  /\ bill' = [bill EXCEPT ![thread[t].key].status = verdict, ![thread[t].key].actual = actual]
  /\ thread' = [thread EXCEPT ![t] = Idle]
  /\ UNCHANGED <<known, account, journal, locks, abandoned>>

(* The amount is posted by PostSettlement, in the same transaction. *)
SettleBy(t, amount, verdict, actual) ==
  /\ settling' = [settling EXCEPT ![thread[t].key] = {t}]
  /\ thread' = [thread EXCEPT ![t].pc = "lock", ![t].amount = amount,
                              ![t].verdict = verdict, ![t].usage = actual]
  /\ UNCHANGED <<known, account, journal, bill, rowLock, abandoned>>

(* settleTerminalTask: a draft keeps the charge, its absence refunds it. *)
SettleFixed(t) ==
  LET b == bill[thread[t].key]
  IN  /\ Mode[thread[t].key] = "FIXED"
      /\ b.status = "CHARGED"
      /\ \/ b.delivered /\ CloseBill(t, "RETAINED", 0)
         \/ ~b.delivered /\ SettleBy(t, Cost, "REFUNDED", 0)

(* settleAgentExecution: the difference between the prepaid estimate and    *)
(* the real cost is given back or charged, the latter up to the cap.        *)
SettleToken(t, actual) ==
  LET extra   == actual - Cost
      due     == IF extra > Cap THEN Cap ELSE extra
      verdict == IF extra > Cap THEN "SETTLED_CAPPED" ELSE "SETTLED"
  IN  /\ Mode[thread[t].key] = "TOKEN"
      /\ bill[thread[t].key].status = "CHARGED"
      /\ \/ due = 0 /\ CloseBill(t, verdict, actual)
         \/ due # 0 /\ SettleBy(t, -due, verdict, actual)

AlreadySettled(t) ==
  /\ bill[thread[t].key].status # "CHARGED"
  /\ thread' = [thread EXCEPT ![t] = Idle]
  /\ UNCHANGED <<known, account, journal, bill, locks, abandoned>>

(* Mutant: the settlement row is read without its lock. *)
ReadSettlementUnlocked(t) ==
  /\ thread[t].pc = "settle"
  /\ \/ AlreadySettled(t)
     \/ SettleFixed(t)
     \/ \E actual \in Usage : SettleToken(t, actual)

ReadSettlement(t) ==
  /\ thread[t].pc = "settle"
  /\ settling[thread[t].key] = {}
  /\ \/ AlreadySettled(t)
     \/ SettleFixed(t)
     \/ \E actual \in Usage : SettleToken(t, actual)

PostSettlement(t) ==
  LET me == thread[t]
      k  == me.key
  IN  /\ me.op = "settle"
      /\ Post(t, IF me.amount > 0 THEN "REFUND" ELSE "CONSUME")
      /\ bill' = [bill EXCEPT ![k].refunded = IF me.amount > 0 THEN @ + me.amount ELSE @,
                              ![k].surcharge = IF me.amount < 0 THEN @ - me.amount ELSE @,
                              ![k].status = me.verdict, ![k].actual = me.usage]
      /\ thread' = [thread EXCEPT ![t] = Idle]

-----------------------------------------------------------------------------
(* Mutant: an account somebody opened meanwhile is opened again. *)
OpenMissingAgain(t, grant) ==
  /\ thread[t].pc = "backfill"
  /\ account' = [u \in Users |-> IF u \in thread[t].missing
                                 THEN Applied(account[u], "REGISTER_GRANT", grant) ELSE account[u]]
  /\ journal' = [u \in Users |-> IF u \in thread[t].missing
                   THEN [journal[u] EXCEPT !["REGISTER_GRANT"] = @ + grant] ELSE journal[u]]
  /\ thread' = [thread EXCEPT ![t] = Idle]
  /\ UNCHANGED <<known, bill, locks, abandoned>>

(* backfillMissingAccounts opens the accounts it found missing, all or none. *)
OpenMissing(t, grant) ==
  /\ thread[t].pc = "backfill"
  /\ \A u \in thread[t].missing : ~account[u].open
  /\ account' = [u \in Users |-> IF u \in thread[t].missing
                                 THEN Applied(NoAccount, "REGISTER_GRANT", grant) ELSE account[u]]
  /\ journal' = [u \in Users |-> IF u \in thread[t].missing
                   THEN [journal[u] EXCEPT !["REGISTER_GRANT"] = @ + grant] ELSE journal[u]]
  /\ thread' = [thread EXCEPT ![t] = Idle]
  /\ UNCHANGED <<known, bill, locks, abandoned>>

(* A refusal, an exception or the death of the instance: the transaction is *)
(* rolled back and its locks are free.  A request that had paid is not      *)
(* taken up again.                                                          *)
Abort(t) ==
  LET me == thread[t]
  IN  /\ me.pc # "idle"
      /\ Release(t)
      /\ abandoned' = IF me.op = "refund" \/ (me.pc = "work" /\ me.mine)
                      THEN abandoned \cup {me.key} ELSE abandoned
      /\ thread' = [thread EXCEPT ![t] = Idle]
      /\ UNCHANGED <<known, account, journal, bill>>

Step(t) ==
  \/ \E u \in Users, amount \in Amounts : Adjust(t, u, amount)
  \/ \E k \in Keys : Consume(t, k) \/ Settle(t, k)
  \/ Backfill(t) \/ \E grant \in {0, Grant} : OpenMissing(t, grant)
  \/ Lock(t) \/ PostAdjustment(t) \/ PostConsumption(t) \/ PostRefund(t)
  \/ WorkSucceeds(t) \/ WorkFails(t)
  \/ ReadSettlement(t) \/ PostSettlement(t)
  \/ Abort(t)

Next ==
  \/ \E u \in Users : CreateUser(u) \/ \E grant \in {0, Grant} : Register(u, grant)
  \/ \E k \in Keys : DeliverDraft(k)
  \/ \E t \in Threads : Step(t)

Spec == Init /\ [][Next]_vars

-----------------------------------------------------------------------------
(* What the ledger promises *)

Balanced(a, j) ==
  /\ a.balance >= 0
  /\ a.balance = j["REGISTER_GRANT"] + j["ADJUST_INCREASE"] + j["ADJUST_DECREASE"]
                 + j["CONSUME"] + j["REFUND"]
  /\ a.granted = j["REGISTER_GRANT"] + j["ADJUST_INCREASE"]
  /\ a.consumed = -j["CONSUME"]
  /\ a.refunded = j["REFUND"]

(* However many requests work on an account, its balance and its totals are *)
(* the sums of its transactions, and the balance is never negative.         *)
LedgerBalances == \A u \in Users : Balanced(account[u], journal[u])

(* A user gets the register grant once: registration, the backfill and an   *)
(* adjustment that opens the account do not add up.                         *)
GrantedOnce == \A u \in Users : journal[u]["REGISTER_GRANT"] \in {0, Grant}

(* Nobody is refunded more than the price of the key, however many requests *)
(* or settlements work on it.                                               *)
RefundBounded == \A k \in Keys : bill[k].refunded <= bill[k].charged

(* What stands paid under a key, and how far its bill has got. *)
Paid(k) == bill[k].charged + bill[k].surcharge - bill[k].refunded

Stage(k) ==
  LET due == IF Mode[k] = "SYNC" THEN bill[k].refunded = 0 ELSE bill[k].status = "CHARGED"
  IN  IF bill[k].charged = 0 THEN "unpaid" ELSE IF due THEN "paid" ELSE "closed"

(* The ledger seen as accounts and bills. *)
Prepaid == INSTANCE PrepaidAccounts WITH
  Most    <- Cap,
  opened  <- {u \in Users : account[u].open},
  balance <- [u \in Users |-> account[u].balance],
  paid    <- [k \in Keys |-> Paid(k)],
  stage   <- [k \in Keys |-> Stage(k)]

(* Every commit, of whichever requests, settlements, adjustments, backfills *)
(* and registrations overlap, is one that PrepaidAccounts allows: what an   *)
(* account loses its bill gains, a key is paid once, and given back,        *)
(* retained or settled once.                                                *)
MoneyKept == Prepaid!Spec

(* The status of a settlement tells what its task paid in the end. *)
SettlementAgrees ==
  \A k \in Keys :
    LET b == bill[k]
        paid == Paid(k)
    IN  /\ b.status \in {"CHARGED", "RETAINED"} => paid = Cost
        /\ b.status = "RETAINED" => b.delivered
        /\ b.status = "REFUNDED" => paid = 0
        /\ b.status = "SETTLED" => paid = b.actual
        /\ b.status = "SETTLED_CAPPED" => paid = Cost + Cap /\ paid < b.actual

(* A request that paid and did not die over it delivered, or was refunded   *)
(* once nobody works on it any more.                                        *)
PaidIsDelivered ==
  \A k \in Keys :
    /\ Mode[k] = "SYNC"
    /\ k \notin abandoned
    /\ \A t \in Threads : thread[t].key # k
    /\ bill[k].charged # bill[k].refunded
    => bill[k].delivered

=============================================================================
