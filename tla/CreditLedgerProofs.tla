------------------------- MODULE CreditLedgerProofs -------------------------
(* Theorems about CreditLedger for every value of its constants.           *)
EXTENDS CreditLedger, TLAPS

-----------------------------------------------------------------------------
(* Who may be where with what: the part of the inductive invariant that     *)
(* says what a thread in each place is about.                               *)
JobFits(me) ==
  /\ me.op \in {"consume", "refund", "settle"} => me.key \in Keys
  /\ me.op \in {"adjust", "consume", "refund", "settle"} => me.user \in known
  /\ me.op \in {"consume", "refund", "settle"} => me.user = Owner[me.key]
  /\ me.op = "refund" => me.amount = Cost
  /\ me.op = "adjust" => me.amount \in Amounts
  /\ me.op = "consume" /\ me.pc \in {"lock", "post"} => me.amount = -Cost
  /\ me.pc \in {"lock", "post"} => me.op \in {"adjust", "consume", "refund", "settle"}
  /\ me.pc = "work" => me.op = "consume"
  /\ me.pc = "settle" => me.op = "settle"
  /\ me.missing \subseteq known

JobsFit ==
  /\ \A t \in Threads : JobFits(thread[t])
  /\ \A k \in Keys : bill[k].status # "NONE" => Owner[k] \in known

TypeInv == TypeOK /\ JobsFit

LEMMA Blanks == NoAccount \in AccountRow /\ NoBill \in Bill /\ Idle \in Thread /\ JobFits(Idle)
  BY DEF NoAccount, AccountRow, NoBill, Bill, Idle, Thread, Statuses, JobFits

LEMMA InitTypeInv == Init => TypeInv
  BY Blanks DEF Init, TypeInv, TypeOK, JobsFit, NoBill

(* What a new account row and a posted journal are. *)
LEMMA AppliedType ==
  ASSUME NEW a \in AccountRow, NEW type, NEW amount \in Int
  PROVE  Applied(a, type, amount) \in AccountRow
  BY DEF Applied, AccountRow

LEMMA JournalType ==
  ASSUME NEW j \in [Users -> [Types -> Int]], NEW u \in Users, NEW y \in Types, NEW n \in Int
  PROVE  [j EXCEPT ![u][y] = @ + n] \in [Users -> [Types -> Int]]
  <1>1. j[u] \in [Types -> Int] /\ j[u][y] + n \in Int OBVIOUS
  <1>2. [j[u] EXCEPT ![y] = @ + n] \in [Types -> Int] BY <1>1
  <1> QED BY <1>2

(* One thread takes up a job that fits, or becomes idle. *)
LEMMA JobTaken ==
  ASSUME TypeInv, NEW t \in Threads, NEW job \in Thread, JobFits(job),
         thread' = [thread EXCEPT ![t] = job], known' = known,
         \A k \in Keys : bill'[k].status # "NONE" => Owner[k] \in known
  PROVE  thread' \in [Threads -> Thread] /\ JobsFit'
  BY DEF TypeInv, TypeOK, JobsFit, JobFits

LEMMA ReleaseType ==
  ASSUME TypeOK, NEW t, Release(t)
  PROVE  rowLock' \in [Users -> SUBSET Threads] /\ settling' \in [Keys -> SUBSET Threads]
  BY DEF TypeOK, Release

LEMMA PostType ==
  ASSUME TypeInv, NEW t \in Threads, NEW y \in Types, Post(t, y)
  PROVE  /\ account' \in [Users -> AccountRow] /\ journal' \in [Users -> [Types -> Int]]
         /\ rowLock' \in [Users -> SUBSET Threads] /\ settling' \in [Keys -> SUBSET Threads]
         /\ known' = known /\ abandoned' = abandoned
  <1> DEFINE me == thread[t]
  <1>1. me \in Thread /\ JobFits(me) /\ me.pc = "post" BY DEF TypeInv, TypeOK, JobsFit, Post
  <1>2. me.user \in known /\ me.user \in Users /\ me.amount \in Int /\ me.copy \in AccountRow
    BY <1>1 DEF JobFits, Thread, TypeInv, TypeOK
  <1>3. Applied(me.copy, y, me.amount) \in AccountRow BY <1>2, AppliedType
  <1>4. account' \in [Users -> AccountRow] BY <1>3 DEF Post, TypeInv, TypeOK
  <1>5. journal' \in [Users -> [Types -> Int]]
    BY <1>2, JournalType DEF Post, TypeInv, TypeOK
  <1> QED BY <1>4, <1>5, ReleaseType DEF Post, TypeInv

-----------------------------------------------------------------------------
(* Every action keeps the types. *)

LEMMA BeginType ==
  ASSUME TypeInv, NEW t \in Threads, NEW job \in Thread, JobFits(job), Begin(t, job)
  PROVE  TypeInv'
  BY JobTaken DEF Begin, TypeInv, TypeOK, JobsFit, locks

LEMMA StartsType ==
  ASSUME TypeInv, NEW t \in Threads,
         \/ \E u \in Users, amount \in Amounts : Adjust(t, u, amount)
         \/ \E k \in Keys : Consume(t, k) \/ Settle(t, k)
         \/ Backfill(t)
  PROVE  TypeInv'
  <1> USE Blanks
  <1>1. ASSUME NEW u \in Users, NEW amount \in Amounts, Adjust(t, u, amount) PROVE TypeInv'
    <2> DEFINE job == [Idle EXCEPT !.pc = "lock", !.op = "adjust", !.user = u, !.amount = amount]
    <2>1. job \in Thread BY LedgerAssumption DEF Thread, Idle
    <2>2. JobFits(job) BY <1>1 DEF JobFits, Idle, Adjust
    <2> QED BY <1>1, <2>1, <2>2, BeginType DEF Adjust
  <1>2. ASSUME NEW k \in Keys, Consume(t, k) PROVE TypeInv'
    <2> DEFINE pay  == [Idle EXCEPT !.pc = "lock", !.op = "consume", !.user = Owner[k],
                                    !.key = k, !.amount = -Cost]
               free == [Idle EXCEPT !.pc = "work", !.op = "consume", !.user = Owner[k], !.key = k]
    <2>0. -Cost \in Int /\ Owner[k] \in Users BY LedgerAssumption
    <2>1. pay \in Thread /\ free \in Thread BY <2>0 DEF Thread, Idle
    <2>2. JobFits(pay) /\ JobFits(free) BY <1>2 DEF JobFits, Idle, Consume
    <2>3. Begin(t, pay) \/ Begin(t, free) BY <1>2 DEF Consume
    <2> QED BY <2>1, <2>2, <2>3, BeginType
  <1>3. ASSUME NEW k \in Keys, Settle(t, k) PROVE TypeInv'
    <2> DEFINE job == [Idle EXCEPT !.pc = "settle", !.op = "settle", !.user = Owner[k], !.key = k]
    <2>1. job \in Thread BY LedgerAssumption DEF Thread, Idle
    <2>2. JobFits(job) BY <1>3 DEF JobFits, Idle, Settle, TypeInv, JobsFit
    <2> QED BY <1>3, <2>1, <2>2, BeginType DEF Settle
  <1>4. ASSUME Backfill(t) PROVE TypeInv'
    <2> DEFINE job == [Idle EXCEPT !.pc = "backfill", !.missing = {u \in known : ~account[u].open}]
    <2>1. job \in Thread /\ JobFits(job) BY DEF Thread, Idle, JobFits, TypeInv, TypeOK
    <2> QED BY <1>4, <2>1, BeginType DEF Backfill
  <1> QED BY <1>1, <1>2, <1>3, <1>4

LEMMA LockType ==
  ASSUME TypeInv, NEW t \in Threads, Lock(t)
  PROVE  TypeInv'
  <1> DEFINE job == [thread[t] EXCEPT !.pc = "post", !.copy = account[thread[t].user]]
  <1>1. thread[t] \in Thread /\ JobFits(thread[t]) /\ thread[t].pc = "lock"
    BY DEF TypeInv, TypeOK, JobsFit, Lock
  <1>2. thread[t].user \in Users BY <1>1 DEF JobFits, TypeInv, TypeOK
  <1>3. account[thread[t].user] \in AccountRow BY <1>2 DEF TypeInv, TypeOK
  <1>4. job \in Thread BY <1>1, <1>3 DEF Thread
  <1>5. JobFits(job) BY <1>1 DEF JobFits, Thread
  <1>6. thread' = [thread EXCEPT ![t] = job] BY <1>1 DEF Lock, TypeInv, TypeOK
  <1>7. thread' \in [Threads -> Thread] /\ JobsFit'
    BY <1>4, <1>5, <1>6, JobTaken DEF Lock, TypeInv, JobsFit
  <1>8. rowLock' \in [Users -> SUBSET Threads] BY DEF Lock, TypeInv, TypeOK
  <1> QED BY <1>7, <1>8 DEF Lock, TypeInv, TypeOK

LEMMA PostsType ==
  ASSUME TypeInv, NEW t \in Threads,
         PostAdjustment(t) \/ PostConsumption(t) \/ PostRefund(t) \/ PostSettlement(t)
  PROVE  TypeInv'
  <1> DEFINE me == thread[t]
             k  == thread[t].key
  <1> USE Blanks, LedgerAssumption
  <1>1. me \in Thread /\ JobFits(me) BY DEF TypeInv, TypeOK, JobsFit
  <1>2. CASE PostAdjustment(t)
    <2>1. PICK y \in Types : Post(t, y) BY <1>2 DEF PostAdjustment, Types
    <2>2. thread' \in [Threads -> Thread] /\ JobsFit'
      BY <1>2, <2>1, PostType, JobTaken DEF PostAdjustment, TypeInv, JobsFit
    <2> QED BY <1>2, <2>1, <2>2, PostType DEF PostAdjustment, TypeInv, TypeOK
  <1>3. CASE PostConsumption(t)
    <2>1. Post(t, "CONSUME") /\ "CONSUME" \in Types BY <1>3 DEF PostConsumption, Types
    <2>2. k \in Keys /\ me.user = Owner[k] /\ me.user \in known /\ me.op = "consume"
      BY <1>1, <1>3 DEF PostConsumption, JobFits
    <2>3. bill' \in [Keys -> Bill]
      <3>1. bill \in [Keys -> Bill] /\ bill[k] \in Bill BY <2>2 DEF TypeInv, TypeOK
      <3> DEFINE b == bill'[k]
      <3>2. \A i \in Keys \ {k} : bill'[i] = bill[i] BY <1>3, <3>1 DEF PostConsumption
      <3>3. bill' = [i \in Keys |-> bill'[i]] BY <1>3, <3>1 DEF PostConsumption
      <3>4. b \in Bill BY <1>3, <2>2, <3>1 DEF PostConsumption, Bill, Statuses
      <3> HIDE DEF b
      <3>5. \A i \in Keys : bill'[i] \in Bill BY <3>1, <3>2, <3>4 DEF b
      <3> QED BY <3>3, <3>5
    <2> DEFINE job == IF Mode[k] = "SYNC" THEN [me EXCEPT !.pc = "work", !.mine = TRUE, !.copy = NoAccount]
                                          ELSE Idle
    <2>4. job \in Thread
      <3>1. [me EXCEPT !.pc = "work", !.mine = TRUE, !.copy = NoAccount] \in Thread BY <1>1, Blanks DEF Thread
      <3>2. Idle \in Thread BY Blanks
      <3> QED BY <3>1, <3>2
    <2>5. JobFits(job) BY <1>1, <2>2 DEF JobFits, Thread
    <2>6. thread' = [thread EXCEPT ![t] = job] BY <1>3 DEF PostConsumption, TypeInv, TypeOK
    <2>7. known' = known BY <2>1, PostType
    <2>8. \A i \in Keys : bill'[i].status # "NONE" => Owner[i] \in known
      BY <1>3, <2>2 DEF PostConsumption, TypeInv, TypeOK, JobsFit
    <2>9. thread' \in [Threads -> Thread] /\ JobsFit' BY <2>4, <2>5, <2>6, <2>7, <2>8, JobTaken
    <2> QED BY <2>1, <2>3, <2>9, PostType DEF TypeInv, TypeOK
  <1>4. CASE PostRefund(t)
    <2>1. Post(t, "REFUND") /\ "REFUND" \in Types BY <1>4 DEF PostRefund, Types
    <2>2. k \in Keys /\ me.amount = Cost BY <1>1, <1>4 DEF PostRefund, JobFits
    <2>3. bill[k] \in Bill /\ bill[k].refunded + me.amount \in Nat BY <2>2 DEF TypeInv, TypeOK, Bill
    <2>4. bill' \in [Keys -> Bill] BY <1>4, <2>2, <2>3 DEF PostRefund, TypeInv, TypeOK, Bill
    <2>5. known' = known BY <2>1, PostType
    <2>6. \A i \in Keys : bill'[i].status = bill[i].status BY <1>4 DEF PostRefund, TypeInv, TypeOK
    <2>7. thread' \in [Threads -> Thread] /\ JobsFit'
      BY <1>4, <2>5, <2>6, JobTaken DEF PostRefund, TypeInv, JobsFit
    <2> QED BY <2>1, <2>4, <2>7, PostType DEF TypeInv, TypeOK
  <1>5. CASE PostSettlement(t)
    <2>1. PICK y \in Types : Post(t, y) BY <1>5 DEF PostSettlement, Types
    <2>2. k \in Keys /\ me.user = Owner[k] /\ me.user \in known /\ me.amount \in Int
          /\ me.verdict \in Statuses /\ me.usage \in Nat
      BY <1>1, <1>5 DEF PostSettlement, JobFits, Thread
    <2> DEFINE back == IF me.amount > 0 THEN bill[k].refunded + me.amount ELSE bill[k].refunded
               more == IF me.amount < 0 THEN bill[k].surcharge - me.amount ELSE bill[k].surcharge
               paid == [bill[k] EXCEPT !.refunded = back, !.surcharge = more,
                                       !.status = me.verdict, !.actual = me.usage]
    <2>3. bill[k] \in Bill BY <2>2 DEF TypeInv, TypeOK
    <2>4. back \in Nat /\ more \in Nat BY <2>2, <2>3 DEF Bill
    <2>5. paid \in Bill BY <2>2, <2>3, <2>4 DEF Bill
    <2>6. bill' = [bill EXCEPT ![k] = paid] BY <1>5, <2>2 DEF PostSettlement, TypeInv, TypeOK
    <2>7. bill' \in [Keys -> Bill] BY <2>2, <2>5, <2>6 DEF TypeInv, TypeOK
    <2>8. known' = known BY <2>1, PostType
    <2>9. \A i \in Keys : bill'[i].status # "NONE" => Owner[i] \in known
      BY <2>2, <2>6 DEF TypeInv, TypeOK, JobsFit
    <2>10. thread' \in [Threads -> Thread] /\ JobsFit'
      BY <1>5, <2>8, <2>9, JobTaken DEF PostSettlement
    <2> QED BY <2>1, <2>7, <2>10, PostType DEF TypeInv, TypeOK
  <1> QED BY <1>2, <1>3, <1>4, <1>5

LEMMA WorkType ==
  ASSUME TypeInv, NEW t \in Threads, WorkSucceeds(t) \/ WorkFails(t)
  PROVE  TypeInv'
  <1> DEFINE me == thread[t]
  <1> USE Blanks, LedgerAssumption
  <1>1. me \in Thread /\ JobFits(me) /\ me.op = "consume" /\ me.key \in Keys
    BY DEF TypeInv, TypeOK, JobsFit, JobFits, WorkSucceeds, WorkFails
  <1>2. CASE WorkSucceeds(t)
    <2>1. bill' \in [Keys -> Bill] /\ \A k \in Keys : bill'[k].status = bill[k].status
      BY <1>1, <1>2 DEF WorkSucceeds, TypeInv, TypeOK, Bill
    <2>2. thread' \in [Threads -> Thread] /\ JobsFit'
      BY <1>2, <2>1, JobTaken DEF WorkSucceeds, TypeInv, JobsFit
    <2> QED BY <1>2, <2>1, <2>2 DEF WorkSucceeds, TypeInv, TypeOK, locks
  <1>3. CASE WorkFails(t)
    <2> DEFINE job == IF me.mine THEN [me EXCEPT !.pc = "lock", !.op = "refund", !.amount = Cost] ELSE Idle
    <2>0. Cost \in Int OBVIOUS
    <2>1. job \in Thread BY <1>1, <2>0 DEF Thread
    <2>2. JobFits(job) BY <1>1 DEF JobFits, Thread
    <2>3. thread' = [thread EXCEPT ![t] = job] BY <1>3 DEF WorkFails, TypeInv, TypeOK
    <2>4. thread' \in [Threads -> Thread] /\ JobsFit'
      BY <1>3, <2>1, <2>2, <2>3, JobTaken DEF WorkFails, TypeInv, JobsFit
    <2> QED BY <1>3, <2>4 DEF WorkFails, TypeInv, TypeOK, locks
  <1> QED BY <1>2, <1>3

LEMMA ReadSettlementType ==
  ASSUME TypeInv, NEW t \in Threads, ReadSettlement(t)
  PROVE  TypeInv'
  <1> DEFINE me == thread[t]
             k  == thread[t].key
  <1> USE Blanks, LedgerAssumption
  <1>1. /\ me \in Thread /\ JobFits(me) /\ me.op = "settle" /\ me.pc = "settle"
        /\ k \in Keys /\ me.user \in known /\ me.user = Owner[k]
    BY DEF TypeInv, TypeOK, JobsFit, JobFits, ReadSettlement
  <1>2. CASE AlreadySettled(t)
    <2>1. thread' \in [Threads -> Thread] /\ JobsFit'
      BY <1>2, JobTaken DEF AlreadySettled, TypeInv, JobsFit
    <2> QED BY <1>2, <2>1 DEF AlreadySettled, TypeInv, TypeOK, locks
  <1>3. ASSUME NEW verdict \in Statuses, NEW actual \in Nat, bill[k].status = "CHARGED",
               CloseBill(t, verdict, actual)
        PROVE  TypeInv'
    <2> DEFINE b == [bill[k] EXCEPT !.status = verdict, !.actual = actual]
    <2>1. bill \in [Keys -> Bill] /\ bill[k] \in Bill BY <1>1 DEF TypeInv, TypeOK
    <2>2. b \in Bill BY <1>3, <2>1 DEF Bill
    <2>3. bill' = [bill EXCEPT ![k] = b] BY <1>1, <1>3, <2>1 DEF CloseBill
    <2>4. bill' \in [Keys -> Bill] BY <2>1, <2>2, <2>3
    <2>5. \A i \in Keys : bill'[i].status # "NONE" => Owner[i] \in known
      BY <1>1, <1>3 DEF CloseBill, TypeInv, TypeOK, JobsFit
    <2>6. thread' \in [Threads -> Thread] /\ JobsFit' BY <1>3, <2>5, JobTaken DEF CloseBill
    <2> QED BY <1>3, <2>4, <2>6 DEF CloseBill, TypeInv, TypeOK, locks
  <1>4. ASSUME NEW amount \in Int, NEW verdict \in Statuses, NEW actual \in Nat,
               SettleBy(t, amount, verdict, actual)
        PROVE  TypeInv'
    <2> DEFINE job == [me EXCEPT !.pc = "lock", !.amount = amount, !.verdict = verdict, !.usage = actual]
    <2>1. job \in Thread BY <1>1, <1>4 DEF Thread
    <2>2. JobFits(job) BY <1>1 DEF JobFits, Thread
    <2>3. thread' = [thread EXCEPT ![t] = job] BY <1>4 DEF SettleBy, TypeInv, TypeOK
    <2>4. thread' \in [Threads -> Thread] /\ JobsFit'
      BY <1>4, <2>1, <2>2, <2>3, JobTaken DEF SettleBy, TypeInv, JobsFit
    <2>5. settling' \in [Keys -> SUBSET Threads] BY <1>4 DEF SettleBy, TypeInv, TypeOK
    <2> QED BY <1>4, <2>4, <2>5 DEF SettleBy, TypeInv, TypeOK
  <1>5. CASE SettleFixed(t)
    <2>1. CloseBill(t, "RETAINED", 0) \/ SettleBy(t, Cost, "REFUNDED", 0)
      BY <1>5 DEF SettleFixed
    <2>2. bill[k].status = "CHARGED" BY <1>5 DEF SettleFixed
    <2>3. Cost \in Int OBVIOUS
    <2> QED BY <1>3, <1>4, <2>1, <2>2, <2>3 DEF Statuses
  <1>6. ASSUME NEW actual \in Usage, SettleToken(t, actual) PROVE TypeInv'
    <2> DEFINE extra   == actual - Cost
               due     == IF extra > Cap THEN Cap ELSE extra
               verdict == IF extra > Cap THEN "SETTLED_CAPPED" ELSE "SETTLED"
    <2>1. actual \in Nat /\ -due \in Int /\ verdict \in Statuses BY DEF Statuses
    <2>2. bill[k].status = "CHARGED" BY <1>6 DEF SettleToken
    <2>3. CloseBill(t, verdict, actual) \/ SettleBy(t, -due, verdict, actual)
      BY <1>6 DEF SettleToken
    <2> HIDE DEF due, verdict
    <2> QED BY <1>3, <1>4, <2>1, <2>2, <2>3
  <1> QED BY <1>2, <1>5, <1>6 DEF ReadSettlement

LEMMA OpenMissingType ==
  ASSUME TypeInv, NEW t \in Threads, NEW grant \in {0, Grant}, OpenMissing(t, grant)
  PROVE  TypeInv'
  <1> USE Blanks, LedgerAssumption
  <1>1. grant \in Int OBVIOUS
  <1>2. Applied(NoAccount, "REGISTER_GRANT", grant) \in AccountRow BY <1>1, AppliedType
  <1>3. account' \in [Users -> AccountRow] BY <1>2 DEF OpenMissing, TypeInv, TypeOK
  <1>4. ASSUME NEW u \in Users
        PROVE  [journal[u] EXCEPT !["REGISTER_GRANT"] = @ + grant] \in [Types -> Int]
    <2>1. journal[u] \in [Types -> Int] /\ "REGISTER_GRANT" \in Types BY DEF Types, TypeInv, TypeOK
    <2>2. journal[u]["REGISTER_GRANT"] + grant \in Int BY <1>1, <2>1
    <2> QED BY <2>1, <2>2
  <1>5. journal' \in [Users -> [Types -> Int]] BY <1>4 DEF OpenMissing, TypeInv, TypeOK
  <1>6. thread' \in [Threads -> Thread] /\ JobsFit'
    BY JobTaken DEF OpenMissing, TypeInv, JobsFit
  <1> QED BY <1>3, <1>5, <1>6 DEF OpenMissing, TypeInv, TypeOK, locks

LEMMA AbortType ==
  ASSUME TypeInv, NEW t \in Threads, Abort(t)
  PROVE  TypeInv'
  <1>1. thread[t] \in Thread /\ JobFits(thread[t]) BY DEF TypeInv, TypeOK, JobsFit
  <1>2. abandoned' \subseteq Keys BY <1>1 DEF Abort, JobFits, TypeInv, TypeOK
  <1>3. thread' \in [Threads -> Thread] /\ JobsFit'
    BY Blanks, JobTaken DEF Abort, TypeInv, JobsFit
  <1> QED BY <1>2, <1>3, ReleaseType DEF Abort, TypeInv, TypeOK

LEMMA AccountsType ==
  ASSUME TypeInv, NEW u \in Users,
         CreateUser(u) \/ \E grant \in {0, Grant} : Register(u, grant)
  PROVE  TypeInv'
  <1>1. CASE CreateUser(u)
    BY <1>1 DEF CreateUser, TypeInv, TypeOK, JobsFit, JobFits, locks
  <1>2. ASSUME NEW grant \in {0, Grant}, Register(u, grant) PROVE TypeInv'
    <2>1. grant \in Int /\ "REGISTER_GRANT" \in Types BY LedgerAssumption DEF Types
    <2>2. Applied(NoAccount, "REGISTER_GRANT", grant) \in AccountRow BY Blanks, <2>1, AppliedType
    <2>3. account' \in [Users -> AccountRow] BY <1>2, <2>2 DEF Register, TypeInv, TypeOK
    <2>4. journal' \in [Users -> [Types -> Int]]
      BY <1>2, <2>1, JournalType DEF Register, TypeInv, TypeOK
    <2>5. JobsFit' BY <1>2 DEF Register, TypeInv, JobsFit, JobFits
    <2> QED BY <1>2, <2>3, <2>4, <2>5 DEF Register, TypeInv, TypeOK, locks
  <1> QED BY <1>1, <1>2

LEMMA DraftType ==
  ASSUME TypeInv, NEW k \in Keys, DeliverDraft(k)
  PROVE  TypeInv'
  <1> DEFINE b == [bill[k] EXCEPT !.delivered = TRUE]
  <1>1. bill \in [Keys -> Bill] /\ bill[k] \in Bill BY DEF TypeInv, TypeOK
  <1>2. b \in Bill /\ b.status = bill[k].status BY <1>1 DEF Bill
  <1>3. bill' = [bill EXCEPT ![k] = b] BY <1>1 DEF DeliverDraft
  <1>4. bill' \in [Keys -> Bill] /\ \A i \in Keys : bill'[i].status = bill[i].status
    BY <1>1, <1>2, <1>3
  <1> QED BY <1>4 DEF DeliverDraft, TypeInv, TypeOK, JobsFit, JobFits, locks

LEMMA TypeStep == TypeInv /\ [Next]_vars => TypeInv'
  <1> SUFFICES ASSUME TypeInv, [Next]_vars PROVE TypeInv'
    OBVIOUS
  <1>1. ASSUME NEW t \in Threads, Step(t) PROVE TypeInv'
    BY <1>1, StartsType, LockType, PostsType, WorkType, ReadSettlementType, OpenMissingType,
       AbortType DEF Step
  <1>2. CASE UNCHANGED vars
    BY <1>2 DEF vars, locks, TypeInv, TypeOK, JobsFit, JobFits
  <1> QED BY <1>1, <1>2, AccountsType, DraftType DEF Next

(* Account rows, transactions, consumptions, threads and locks keep their   *)
(* shape for any number of users, keys, threads and any prices.             *)
THEOREM Typed == Spec => []TypeOK
  <1>1. TypeInv => TypeOK BY DEF TypeInv
  <1> QED BY <1>1, InitTypeInv, TypeStep, PTL DEF Spec

-----------------------------------------------------------------------------
(* The ledger balances: a transaction that is about to commit holds the     *)
(* lock of the row it copied, so the copy is still the row; a row without   *)
(* an account is untouched.                                                 *)

CopyIsRow(me, t) ==
  me.pc = "post" => IF me.copy.open
                    THEN t \in rowLock[me.user] /\ me.copy = account[me.user]
                    ELSE me.copy = NoAccount

Locked ==
  /\ \A u \in Users : \A s, t \in rowLock[u] : s = t
  /\ \A t \in Threads : CopyIsRow(thread[t], t)

Unopened ==
  \A u \in Users :
    /\ ~account[u].open => account[u] = NoAccount /\ journal[u]["REGISTER_GRANT"] = 0
    /\ u \notin known => ~account[u].open

LedgerInv == TypeInv /\ Locked /\ Unopened /\ LedgerBalances /\ GrantedOnce

LEMMA AppliedBalances ==
  ASSUME NEW a \in AccountRow, NEW j \in [Types -> Int], NEW y \in Types, NEW n \in Int,
         Balanced(a, j), a.balance + n >= 0
  PROVE  Balanced(Applied(a, y, n), [j EXCEPT ![y] = @ + n])
  <1> DEFINE i == [j EXCEPT ![y] = @ + n]
  <1>1. \A x \in Types : j[x] \in Int /\ i[x] = IF x = y THEN j[x] + n ELSE j[x]
    OBVIOUS
  <1>2. a.balance \in Int /\ a.granted \in Int /\ a.consumed \in Int /\ a.refunded \in Int
    BY DEF AccountRow
  <1> HIDE DEF i
  <1>3. Balanced(Applied(a, y, n), i)
    <2>1. CASE y = "REGISTER_GRANT" BY <1>1, <1>2, <2>1 DEF Balanced, Applied, Types
    <2>2. CASE y = "ADJUST_INCREASE" BY <1>1, <1>2, <2>2 DEF Balanced, Applied, Types
    <2>3. CASE y = "ADJUST_DECREASE" BY <1>1, <1>2, <2>3 DEF Balanced, Applied, Types
    <2>4. CASE y = "CONSUME" BY <1>1, <1>2, <2>4 DEF Balanced, Applied, Types
    <2>5. CASE y = "REFUND" BY <1>1, <1>2, <2>5 DEF Balanced, Applied, Types
    <2> QED BY <2>1, <2>2, <2>3, <2>4, <2>5 DEF Types
  <1> QED BY <1>3 DEF i

LEMMA InitLedger == Init => LedgerInv
  <1> SUFFICES ASSUME Init PROVE LedgerInv
    OBVIOUS
  <1>1. Locked BY DEF Init, Locked, CopyIsRow, Idle
  <1>2. Unopened /\ LedgerBalances /\ GrantedOnce
    BY DEF Init, Unopened, LedgerBalances, Balanced, GrantedOnce, NoAccount, Types
  <1> QED BY <1>1, <1>2, InitTypeInv DEF LedgerInv

(* Steps that touch neither accounts, journals nor row locks, and bring no  *)
(* thread to the point of committing.                                       *)
LEMMA Untouched ==
  ASSUME LedgerInv, TypeInv', NEW t \in Threads, NEW job, job.pc # "post",
         thread' = [thread EXCEPT ![t] = job],
         UNCHANGED <<known, account, journal, rowLock>>
  PROVE  LedgerInv'
  <1>1. Locked' BY DEF LedgerInv, Locked, CopyIsRow, TypeInv, TypeOK
  <1>2. (Unopened /\ LedgerBalances /\ GrantedOnce)'
    BY DEF LedgerInv, Unopened, LedgerBalances, GrantedOnce
  <1> QED BY <1>1, <1>2 DEF LedgerInv

LEMMA LockLedger ==
  ASSUME LedgerInv, TypeInv', NEW t \in Threads, Lock(t)
  PROVE  LedgerInv'
  <1> DEFINE me == thread[t]
             u  == thread[t].user
  <1>1. me \in Thread /\ u \in Users /\ me.pc = "lock"
    BY DEF LedgerInv, TypeInv, TypeOK, JobsFit, JobFits, Lock
  <1>2. thread' = [thread EXCEPT ![t] = [me EXCEPT !.pc = "post", !.copy = account[u]]]
    BY DEF Lock, LedgerInv, TypeInv, TypeOK
  <1>3. rowLock \in [Users -> SUBSET Threads] BY DEF LedgerInv, TypeInv, TypeOK
  <1>4. \A v \in Users : rowLock'[v] = IF v = u /\ account[u].open THEN {t} ELSE rowLock[v]
    BY <1>1, <1>3 DEF Lock
  <1>5. \A v \in Users : \A r, s \in rowLock'[v] : r = s
    BY <1>4 DEF LedgerInv, Locked
  <1>6. CopyIsRow(thread[t], t)'
    <2>1. thread'[t] = [me EXCEPT !.pc = "post", !.copy = account[u]]
      BY <1>2 DEF LedgerInv, TypeInv, TypeOK
    <2>2. thread'[t].user = u /\ thread'[t].copy = account[u] BY <1>1, <2>1 DEF Thread
    <2>3. account' = account BY DEF Lock
    <2>4. account[u].open => t \in rowLock'[u] BY <1>1, <1>4
    <2>5. ~account[u].open => account[u] = NoAccount BY <1>1 DEF LedgerInv, Unopened
    <2> QED BY <2>2, <2>3, <2>4, <2>5 DEF CopyIsRow
  <1>7. ASSUME NEW s \in Threads, s # t PROVE CopyIsRow(thread[s], s)'
    <2>1. thread'[s] = thread[s] /\ account' = account
      BY <1>2, <1>7 DEF Lock, LedgerInv, TypeInv, TypeOK
    <2>2. CopyIsRow(thread[s], s) BY DEF LedgerInv, Locked
    <2>3. thread[s].pc = "post" => thread[s].user \in Users
      BY DEF LedgerInv, TypeInv, TypeOK, JobsFit, JobFits
    <2>4. account[u].open => rowLock[u] = {} BY DEF Lock
    <2> QED BY <1>4, <2>1, <2>2, <2>3, <2>4 DEF CopyIsRow
  <1>8. Locked' BY <1>5, <1>6, <1>7 DEF Locked
  <1>9. (Unopened /\ LedgerBalances /\ GrantedOnce)'
    BY DEF Lock, LedgerInv, Unopened, LedgerBalances, GrantedOnce
  <1> QED BY <1>8, <1>9 DEF LedgerInv

(* Freeing the locks of one thread leaves the others theirs. *)
LEMMA ReleaseLocks ==
  ASSUME LedgerInv, NEW t \in Threads, Release(t)
  PROVE  /\ \A u \in Users : \A r, s \in rowLock'[u] : r = s
         /\ \A u \in Users, s \in Threads : s # t /\ s \in rowLock[u] => s \in rowLock'[u]
  BY DEF LedgerInv, Locked, TypeInv, TypeOK, Release

LEMMA PostLedger ==
  ASSUME LedgerInv, TypeInv', NEW t \in Threads, NEW y \in Types \ {"REGISTER_GRANT"},
         Post(t, y), NEW job, job.pc # "post", thread' = [thread EXCEPT ![t] = job]
  PROVE  LedgerInv'
  <1> DEFINE me  == thread[t]
             u   == thread[t].user
             row == Applied(account[u], y, me.amount)
             sum == [journal[u] EXCEPT ![y] = @ + me.amount]
  <1>1. /\ me \in Thread /\ u \in known /\ u \in Users /\ me.pc = "post" /\ me.amount \in Int
        /\ CopyIsRow(me, t)
    BY DEF LedgerInv, TypeInv, TypeOK, JobsFit, JobFits, Thread, Locked, Post
  <1>2. me.copy.open = account[u].open BY DEF Post
  <1>3. me.copy = account[u]
    BY <1>1, <1>2 DEF CopyIsRow, LedgerInv, Unopened
  <1>4. account[u].open => t \in rowLock[u] BY <1>1, <1>2 DEF CopyIsRow
  <1>5. /\ account \in [Users -> AccountRow] /\ journal \in [Users -> [Types -> Int]]
        /\ thread \in [Threads -> Thread] /\ rowLock \in [Users -> SUBSET Threads]
    BY DEF LedgerInv, TypeInv, TypeOK
  <1>6. account' = [account EXCEPT ![u] = row] /\ journal' = [journal EXCEPT ![u] = sum]
    BY <1>3, <1>5 DEF Post
  <1>7. account[u].balance + me.amount >= 0 BY <1>3 DEF Post
  <1>8. Balanced(row, sum)
    BY <1>1, <1>5, <1>7, AppliedBalances DEF LedgerInv, LedgerBalances
  <1>9. LedgerBalances' BY <1>1, <1>5, <1>6, <1>8 DEF LedgerBalances, LedgerInv
  <1>10. sum["REGISTER_GRANT"] = journal[u]["REGISTER_GRANT"] BY <1>1, <1>5 DEF Types
  <1>11. GrantedOnce' BY <1>1, <1>5, <1>6, <1>10 DEF GrantedOnce, LedgerInv
  <1>12. row.open BY DEF Applied
  <1>13. Unopened'
    BY <1>1, <1>5, <1>6, <1>12 DEF Unopened, LedgerInv, Post
  <1>14. ASSUME NEW s \in Threads, s # t PROVE CopyIsRow(thread[s], s)'
    <2>1. thread'[s] = thread[s] BY <1>5, <1>14
    <2>2. CopyIsRow(thread[s], s) BY DEF LedgerInv, Locked
    <2>3. thread[s].pc = "post" => thread[s].user \in Users
      BY DEF LedgerInv, TypeInv, TypeOK, JobsFit, JobFits
    <2>4. thread[s].pc = "post" /\ thread[s].copy.open => thread[s].user # u
      BY <1>1, <1>4, <1>14, <2>2 DEF CopyIsRow, LedgerInv, Locked
    <2>5. \A v \in Users : s \in rowLock[v] => s \in rowLock'[v]
      BY <1>14, ReleaseLocks DEF Post
    <2> QED BY <1>5, <1>6, <2>1, <2>2, <2>3, <2>4, <2>5 DEF CopyIsRow
  <1>15. CopyIsRow(thread[t], t)' BY <1>5 DEF CopyIsRow
  <1>16. Locked' BY <1>14, <1>15, ReleaseLocks DEF Locked, Post
  <1> QED BY <1>9, <1>11, <1>13, <1>16 DEF LedgerInv

LEMMA PostsLedger ==
  ASSUME LedgerInv, TypeInv', NEW t \in Threads,
         PostAdjustment(t) \/ PostConsumption(t) \/ PostRefund(t) \/ PostSettlement(t)
  PROVE  LedgerInv'
  <1> DEFINE me == thread[t]
  <1>1. PICK y \in Types \ {"REGISTER_GRANT"} : Post(t, y)
    BY DEF PostAdjustment, PostConsumption, PostRefund, PostSettlement, Types
  <1>2. Idle.pc # "post" BY DEF Idle
  <1>3. CASE PostAdjustment(t) \/ PostRefund(t) \/ PostSettlement(t)
    <2>1. thread' = [thread EXCEPT ![t] = Idle]
      BY <1>3 DEF PostAdjustment, PostRefund, PostSettlement
    <2> QED BY <1>1, <1>2, <2>1, PostLedger
  <1>4. CASE PostConsumption(t)
    <2> DEFINE job == IF Mode[me.key] = "SYNC"
                      THEN [me EXCEPT !.pc = "work", !.mine = TRUE, !.copy = NoAccount] ELSE Idle
    <2>1. thread' = [thread EXCEPT ![t] = job]
      BY <1>4 DEF PostConsumption, LedgerInv, TypeInv, TypeOK
    <2>2. me \in Thread BY DEF LedgerInv, TypeInv, TypeOK
    <2>3. job.pc # "post" BY <1>2, <2>2 DEF Thread
    <2> QED BY <1>1, <2>1, <2>3, PostLedger
  <1> QED BY <1>3, <1>4

(* An account that is opened was not, so no transaction works on a copy of it. *)
LEMMA OpenedLedger ==
  ASSUME LedgerInv, TypeInv', NEW opened \in SUBSET Users, NEW grant \in {0, Grant},
         \A u \in opened : ~account[u].open /\ u \in known',
         known \subseteq known',
         \A u \in Users : account'[u] = IF u \in opened THEN Applied(NoAccount, "REGISTER_GRANT", grant)
                                                        ELSE account[u],
         \A u \in Users : journal'[u] = IF u \in opened
                             THEN [journal[u] EXCEPT !["REGISTER_GRANT"] = @ + grant] ELSE journal[u],
         rowLock' = rowLock,
         \A t \in Threads : thread'[t] = thread[t] \/ thread'[t] = Idle
  PROVE  LedgerInv'
  <1>1. grant \in Nat BY LedgerAssumption
  <1>2. journal \in [Users -> [Types -> Int]] BY DEF LedgerInv, TypeInv, TypeOK
  <1>3. ASSUME NEW u \in opened
        PROVE  /\ Balanced(account'[u], journal'[u])
               /\ journal'[u]["REGISTER_GRANT"] = grant
               /\ account'[u].open
    <2>1. account[u] = NoAccount /\ journal[u]["REGISTER_GRANT"] = 0 /\ Balanced(NoAccount, journal[u])
      BY DEF LedgerInv, Unopened, LedgerBalances
    <2>2. NoAccount.balance + grant >= 0 BY <1>1 DEF NoAccount
    <2>3. "REGISTER_GRANT" \in Types /\ grant \in Int /\ journal[u] \in [Types -> Int]
      BY <1>1, <1>2 DEF Types
    <2>4. Balanced(Applied(NoAccount, "REGISTER_GRANT", grant),
                   [journal[u] EXCEPT !["REGISTER_GRANT"] = @ + grant])
      BY <2>1, <2>2, <2>3, Blanks, AppliedBalances
    <2>5. Balanced(account'[u], journal'[u]) BY <2>4
    <2>6. journal'[u]["REGISTER_GRANT"] = 0 + grant BY <2>1, <2>3
    <2> QED BY <1>1, <2>5, <2>6 DEF Applied
  <1>4. LedgerBalances' BY <1>3 DEF LedgerBalances, LedgerInv
  <1>5. GrantedOnce' BY <1>3 DEF GrantedOnce, LedgerInv
  <1>6. Unopened' BY <1>3 DEF Unopened, LedgerInv
  <1>7. ASSUME NEW t \in Threads PROVE CopyIsRow(thread[t], t)'
    <2>1. CASE thread'[t] = Idle BY <2>1 DEF CopyIsRow, Idle
    <2>2. CASE thread'[t] = thread[t]
      <3>1. CopyIsRow(thread[t], t) BY DEF LedgerInv, Locked
      <3>2. thread[t].pc = "post" => thread[t].user \in Users
        BY DEF LedgerInv, TypeInv, TypeOK, JobsFit, JobFits
      <3> QED BY <2>2, <3>1, <3>2 DEF CopyIsRow
    <2> QED BY <2>1, <2>2
  <1>8. Locked' BY <1>7 DEF Locked, LedgerInv
  <1> QED BY <1>4, <1>5, <1>6, <1>8 DEF LedgerInv

LEMMA StepLedger ==
  ASSUME LedgerInv, TypeInv', NEW t \in Threads, Step(t)
  PROVE  LedgerInv'
  <1> DEFINE me == thread[t]
  <1>1. Idle.pc # "post" BY DEF Idle
  <1>2. me \in Thread /\ thread \in [Threads -> Thread] BY DEF LedgerInv, TypeInv, TypeOK
  <1>3. ASSUME NEW u \in Users, NEW n \in Amounts, Adjust(t, u, n) PROVE LedgerInv'
    BY <1>3, Untouched DEF Adjust, Begin, Idle, locks
  <1>4. ASSUME NEW k \in Keys, Consume(t, k) PROVE LedgerInv'
    BY <1>4, Untouched DEF Consume, Begin, Idle, locks
  <1>5. ASSUME NEW k \in Keys, Settle(t, k) PROVE LedgerInv'
    BY <1>5, Untouched DEF Settle, Begin, Idle, locks
  <1>6. CASE Backfill(t)
    BY <1>6, Untouched DEF Backfill, Begin, Idle, locks
  <1>7. ASSUME NEW grant \in {0, Grant}, OpenMissing(t, grant) PROVE LedgerInv'
    <2>1. me.missing \in SUBSET Users /\ me.missing \subseteq known /\ known' = known
      BY <1>2, <1>7 DEF Thread, LedgerInv, TypeInv, JobsFit, JobFits, OpenMissing
    <2>2. \A s \in Threads : thread'[s] = thread[s] \/ thread'[s] = Idle
      BY <1>2, <1>7 DEF OpenMissing
    <2>3. \A u \in me.missing : ~account[u].open /\ u \in known'
      BY <1>7, <2>1 DEF OpenMissing
    <2> QED BY <1>7, <2>1, <2>2, <2>3, OpenedLedger DEF OpenMissing, locks
  <1>8. CASE PostAdjustment(t) \/ PostConsumption(t) \/ PostRefund(t) \/ PostSettlement(t)
    BY <1>8, PostsLedger
  <1>9. CASE WorkSucceeds(t)
    BY <1>1, <1>9, Untouched DEF WorkSucceeds, locks
  <1>10. CASE WorkFails(t)
    <2> DEFINE job == IF me.mine THEN [me EXCEPT !.pc = "lock", !.op = "refund", !.amount = Cost] ELSE Idle
    <2>1. job.pc # "post" BY <1>1, <1>2 DEF Thread
    <2>2. thread' = [thread EXCEPT ![t] = job] BY <1>2, <1>10 DEF WorkFails
    <2> QED BY <1>10, <2>1, <2>2, Untouched DEF WorkFails, locks
  <1>11. CASE ReadSettlement(t)
    <2>1. ASSUME NEW n, NEW verdict, NEW actual, SettleBy(t, n, verdict, actual) PROVE LedgerInv'
      <3> DEFINE job == [me EXCEPT !.pc = "lock", !.amount = n, !.verdict = verdict, !.usage = actual]
      <3>1. job.pc # "post" BY <1>2 DEF Thread
      <3>2. thread' = [thread EXCEPT ![t] = job] BY <1>2, <2>1 DEF SettleBy
      <3> QED BY <2>1, <3>1, <3>2, Untouched DEF SettleBy
    <2>2. ASSUME NEW verdict, NEW actual, CloseBill(t, verdict, actual) PROVE LedgerInv'
      BY <1>1, <2>2, Untouched DEF CloseBill, locks
    <2>3. CASE AlreadySettled(t) BY <1>1, <2>3, Untouched DEF AlreadySettled, locks
    <2> QED BY <1>11, <2>1, <2>2, <2>3 DEF ReadSettlement, SettleFixed, SettleToken
  <1>12. CASE Abort(t)
    <2>1. ASSUME NEW s \in Threads PROVE CopyIsRow(thread[s], s)'
      <3>1. thread'[s] = IF s = t THEN Idle ELSE thread[s] BY <1>2, <1>12 DEF Abort
      <3>2. CopyIsRow(thread[s], s) BY DEF LedgerInv, Locked
      <3>3. thread[s].pc = "post" => thread[s].user \in Users
        BY DEF LedgerInv, TypeInv, TypeOK, JobsFit, JobFits
      <3>4. \A u \in Users : s # t /\ s \in rowLock[u] => s \in rowLock'[u]
        BY <1>12, ReleaseLocks DEF Abort
      <3> QED BY <1>1, <1>12, <3>1, <3>2, <3>3, <3>4 DEF CopyIsRow, Abort
    <2>2. Locked' BY <1>12, <2>1, ReleaseLocks DEF Locked, Abort
    <2> QED BY <1>12, <2>2 DEF Abort, LedgerInv, Unopened, LedgerBalances, GrantedOnce
  <1> QED BY <1>3, <1>4, <1>5, <1>6, <1>7, <1>8, <1>9, <1>10, <1>11, <1>12, LockLedger DEF Step

LEMMA AccountsLedger ==
  ASSUME LedgerInv, TypeInv', NEW u \in Users,
         CreateUser(u) \/ \E grant \in {0, Grant} : Register(u, grant)
  PROVE  LedgerInv'
  <1>1. /\ account \in [Users -> AccountRow] /\ journal \in [Users -> [Types -> Int]]
    BY DEF LedgerInv, TypeInv, TypeOK
  <1>2. "REGISTER_GRANT" \in Types BY DEF Types
  <1>3. CASE CreateUser(u)
    <2>1. Locked' BY <1>3 DEF CreateUser, locks, LedgerInv, Locked, CopyIsRow
    <2>2. Unopened' BY <1>3 DEF CreateUser, LedgerInv, Unopened
    <2> QED BY <1>3, <2>1, <2>2 DEF CreateUser, LedgerInv, LedgerBalances, GrantedOnce
  <1>4. ASSUME NEW grant \in {0, Grant}, Register(u, grant) PROVE LedgerInv'
    <2>1. ~account[u].open BY <1>4 DEF Register, LedgerInv, Unopened
    <2>2. \A v \in Users : account'[v] = IF v \in {u} THEN Applied(NoAccount, "REGISTER_GRANT", grant)
                                                      ELSE account[v]
      BY <1>1, <1>4 DEF Register
    <2>3. \A v \in Users : journal'[v] = IF v \in {u}
             THEN [journal[v] EXCEPT !["REGISTER_GRANT"] = @ + grant] ELSE journal[v]
      BY <1>1, <1>4 DEF Register
    <2>4. {u} \in SUBSET Users /\ u \in known' /\ known \subseteq known' BY <1>4 DEF Register
    <2>5. rowLock' = rowLock /\ \A t \in Threads : thread'[t] = thread[t] BY <1>4 DEF Register, locks
    <2> QED BY <2>1, <2>2, <2>3, <2>4, <2>5, OpenedLedger
  <1> QED BY <1>3, <1>4

LEMMA LedgerStep == LedgerInv /\ [Next]_vars => LedgerInv'
  <1> SUFFICES ASSUME LedgerInv, [Next]_vars PROVE LedgerInv'
    OBVIOUS
  <1>1. TypeInv' BY TypeStep DEF LedgerInv
  <1>2. ASSUME NEW k \in Keys, DeliverDraft(k) PROVE LedgerInv'
    BY <1>1, <1>2 DEF DeliverDraft, locks, LedgerInv, Locked, CopyIsRow, Unopened, LedgerBalances, GrantedOnce
  <1>3. CASE UNCHANGED vars
    BY <1>1, <1>3 DEF vars, locks, LedgerInv, Locked, CopyIsRow, Unopened, LedgerBalances, GrantedOnce
  <1> QED BY <1>1, <1>2, <1>3, StepLedger, AccountsLedger DEF Next

(* No update of a balance is lost and none goes below zero, for any number  *)
(* of users, business keys, threads, instances and prices.                  *)
THEOREM Balances == Spec => []LedgerBalances
  <1>1. LedgerInv => LedgerBalances BY DEF LedgerInv
  <1> QED BY <1>1, InitLedger, LedgerStep, PTL DEF Spec

(* The register grant reaches an account at most once.                      *)
THEOREM GrantsOnce == Spec => []GrantedOnce
  <1>1. LedgerInv => GrantedOnce BY DEF LedgerInv
  <1> QED BY <1>1, InitLedger, LedgerStep, PTL DEF Spec

=============================================================================
