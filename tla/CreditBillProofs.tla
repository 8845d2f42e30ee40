-------------------------- MODULE CreditBillProofs --------------------------
(* Theorems about the consumptions, refunds and settlements of             *)
(* CreditLedger: what was charged under a business key, what was given      *)
(* back, and what the settlement says of it.                                *)
EXTENDS CreditLedgerProofs

-----------------------------------------------------------------------------
(* A thread whose request has paid and has neither delivered nor been       *)
(* refunded, and one that settles a task.                                   *)
Pays(me) == \/ me.op = "refund" /\ me.pc \in {"lock", "post"}
            \/ me.pc = "work" /\ me.mine
Settles(me) == me.op = "settle" /\ me.pc \in {"lock", "post"}

(* What a settling thread is going to post, and what it will say of it.     *)
Agreed(me) ==
  LET extra == me.usage - Cost
      due   == IF extra > Cap THEN Cap ELSE extra
  IN  \/ /\ Mode[me.key] = "FIXED"
         /\ me.amount = Cost /\ me.verdict = "REFUNDED"
      \/ /\ Mode[me.key] = "TOKEN"
         /\ me.amount = -due
         /\ me.verdict = IF extra > Cap THEN "SETTLED_CAPPED" ELSE "SETTLED"

(* What a bill may look like, by the status of its settlement. *)
BillFits(k, b) ==
  /\ Mode[k] = "SYNC" => b.status = "NONE"
  /\ b.status = "NONE" => b.surcharge = 0 /\ b.refunded \in {0, b.charged}
                          /\ (Mode[k] # "SYNC" => b.charged = 0)
  /\ b.status # "NONE" => b.charged = Cost
  /\ b.status \in {"CHARGED", "RETAINED"} => b.refunded = 0 /\ b.surcharge = 0
  /\ b.status = "RETAINED" => b.delivered
  /\ b.status = "REFUNDED" => b.refunded = Cost /\ b.surcharge = 0
  /\ b.status = "SETTLED" => b.refunded <= Cost /\ b.actual = Cost + b.surcharge - b.refunded
  /\ b.status = "SETTLED_CAPPED" => b.refunded = 0 /\ b.surcharge = Cap /\ Cost + Cap < b.actual

(* What a thread relies on about the bill of its key. *)
Relies(me, b) ==
  /\ Pays(me) => Mode[me.key] = "SYNC" /\ b.charged = Cost /\ b.refunded = 0
  /\ Settles(me) => b.status = "CHARGED" /\ Agreed(me)

OnePayer == \A s, t \in Threads :
  Pays(thread[s]) /\ Pays(thread[t]) /\ thread[s].key = thread[t].key => s = t

OneSettler ==
  /\ \A k \in Keys : \A s, t \in settling[k] : s = t
  /\ \A t \in Threads : Settles(thread[t]) => t \in settling[thread[t].key]

(* Nobody loses sight of a request that paid. *)
Accounted == \A k \in Keys :
  Mode[k] = "SYNC" /\ bill[k].charged # bill[k].refunded =>
    \/ bill[k].delivered
    \/ k \in abandoned
    \/ \E t \in Threads : Pays(thread[t]) /\ thread[t].key = k

BillInv ==
  /\ TypeInv
  /\ \A k \in Keys : BillFits(k, bill[k])
  /\ \A t \in Threads : thread[t].key \in Keys => Relies(thread[t], bill[thread[t].key])
  /\ OnePayer /\ OneSettler /\ Accounted

LEMMA InitBills == Init => BillInv
  <1> SUFFICES ASSUME Init PROVE BillInv
    OBVIOUS
  <1>1. \A t \in Threads : thread[t] = Idle /\ ~Pays(Idle) /\ ~Settles(Idle)
    BY DEF Init, Pays, Settles, Idle
  <1>2. \A k \in Keys : bill[k] = NoBill /\ BillFits(k, NoBill)
    BY DEF Init, BillFits, NoBill
  <1>3. Accounted BY <1>2 DEF Accounted, NoBill
  <1>4. OneSettler BY <1>1 DEF Init, OneSettler
  <1> QED BY <1>1, <1>2, <1>3, <1>4, InitTypeInv DEF BillInv, Relies, OnePayer

-----------------------------------------------------------------------------
(* Two shapes of steps: one that leaves the bills alone and one that        *)
(* changes the bill of its thread's key.                                    *)

Settlers(t, job) ==
  /\ \A k \in Keys : \A r, s \in settling'[k] : r = s
  /\ Settles(job) => t \in settling'[job.key]
  /\ \A k \in Keys, s \in Threads \ {t} : s \in settling[k] => s \in settling'[k]

(* Who pays or settles does so for a key. *)
LEMMA KeyOf ==
  ASSUME TypeInv, NEW t \in Threads, Pays(thread[t]) \/ Settles(thread[t])
  PROVE  thread[t].key \in Keys
  BY DEF TypeInv, JobsFit, JobFits, Pays, Settles

LEMMA SettlersKept ==
  ASSUME BillInv, TypeInv', NEW t \in Threads, NEW job, thread' = [thread EXCEPT ![t] = job],
         Settlers(t, job)
  PROVE  OneSettler'
  <1>1. ASSUME NEW s \in Threads, Settles(thread'[s]) PROVE s \in settling'[thread'[s].key]
    <2>1. CASE s = t BY <1>1, <2>1 DEF Settlers, BillInv, TypeInv, TypeOK
    <2>2. CASE s # t
      <3>1. thread'[s] = thread[s] BY <2>2 DEF BillInv, TypeInv, TypeOK
      <3>2. thread[s].key \in Keys BY <1>1, <3>1, KeyOf DEF BillInv
      <3> QED BY <1>1, <2>2, <3>1, <3>2 DEF BillInv, OneSettler, Settlers
    <2> QED BY <2>1, <2>2
  <1> QED BY <1>1 DEF OneSettler, Settlers, Settles

LEMMA Calm ==
  ASSUME BillInv, TypeInv', NEW t \in Threads, NEW job, thread' = [thread EXCEPT ![t] = job],
         bill' = bill, abandoned \subseteq abandoned',
         job.key \in Keys => Relies(job, bill[job.key]),
         Pays(job) => Pays(thread[t]) /\ job.key = thread[t].key,
         Pays(thread[t]) => Pays(job) \/ thread[t].key \in abandoned',
         Settlers(t, job)
  PROVE  BillInv'
  <1>1. thread'[t] = job /\ \A s \in Threads : s # t => thread'[s] = thread[s]
    BY DEF BillInv, TypeInv, TypeOK
  <1>2. \A s \in Threads : thread'[s].key \in Keys => Relies(thread'[s], bill'[thread'[s].key])
    BY <1>1 DEF BillInv
  <1>3. OnePayer' BY <1>1 DEF BillInv, OnePayer
  <1>4. Accounted' BY <1>1 DEF BillInv, Accounted
  <1>5. \A k \in Keys : BillFits(k, bill'[k]) BY DEF BillInv
  <1> QED BY <1>2, <1>3, <1>4, <1>5, SettlersKept DEF BillInv, BillFits, Relies, Pays, Settles, Agreed

LEMMA Changes ==
  ASSUME BillInv, TypeInv', NEW t \in Threads, NEW job, thread' = [thread EXCEPT ![t] = job],
         NEW k \in Keys, NEW b, thread[t].key = k, bill' = [bill EXCEPT ![k] = b], abandoned' = abandoned,
         BillFits(k, b),
         job.key \in Keys => job.key = k /\ Relies(job, b),
         \A s \in Threads \ {t} : thread[s].key = k => Relies(thread[s], b),
         Pays(job) => job.key = k /\ \A s \in Threads \ {t} : ~(Pays(thread[s]) /\ thread[s].key = k),
         Mode[k] = "SYNC" => b.charged = b.refunded \/ b.delivered \/ Pays(job),
         Settlers(t, job)
  PROVE  BillInv'
  <1>1. thread'[t] = job /\ \A s \in Threads : s # t => thread'[s] = thread[s]
    BY DEF BillInv, TypeInv, TypeOK
  <1>2. bill'[k] = b /\ \A j \in Keys : j # k => bill'[j] = bill[j]
    BY DEF BillInv, TypeInv, TypeOK
  <1>3. \A s \in Threads : thread'[s].key \in Keys => Relies(thread'[s], bill'[thread'[s].key])
    BY <1>1, <1>2 DEF BillInv
  <1>4. OnePayer' BY <1>1 DEF BillInv, OnePayer
  <1>5. Accounted'
    <2> SUFFICES ASSUME NEW j \in Keys, Mode[j] = "SYNC", bill'[j].charged # bill'[j].refunded
                 PROVE  \/ bill'[j].delivered
                        \/ j \in abandoned'
                        \/ \E s \in Threads : Pays(thread'[s]) /\ thread'[s].key = j
      BY DEF Accounted, Pays
    <2>1. CASE j = k BY <1>1, <1>2, <2>1
    <2>2. CASE j # k BY <1>1, <1>2, <2>2 DEF BillInv, Accounted
    <2> QED BY <2>1, <2>2
  <1>6. \A j \in Keys : BillFits(j, bill'[j]) BY <1>2 DEF BillInv
  <1> QED BY <1>3, <1>4, <1>5, <1>6, SettlersKept DEF BillInv, BillFits, Relies, Pays, Settles, Agreed

-----------------------------------------------------------------------------
(* Steps that leave the bills alone *)

LEMMA Unlocked ==
  ASSUME BillInv, NEW t \in Threads, NEW job, ~Settles(job), settling' = settling
  PROVE  Settlers(t, job)
  BY DEF BillInv, OneSettler, Settlers

LEMMA Released ==
  ASSUME BillInv, NEW t \in Threads, NEW job, ~Settles(job), Release(t)
  PROVE  Settlers(t, job)
  BY DEF BillInv, TypeInv, TypeOK, OneSettler, Settlers, Release

(* A thread that takes up a job has neither paid nor settled. *)
LEMMA Taken ==
  ASSUME BillInv, TypeInv', NEW t \in Threads, NEW job, Begin(t, job),
         ~Pays(job), ~Settles(job)
  PROVE  BillInv'
  <1>1. ~Pays(thread[t]) BY DEF Begin, Pays
  <1>2. Settlers(t, job) BY Unlocked DEF Begin, locks
  <1> QED BY <1>1, <1>2, Calm DEF Begin, Relies

LEMMA StartsBills ==
  ASSUME BillInv, TypeInv', NEW t \in Threads,
         \/ \E u \in Users, amount \in Amounts : Adjust(t, u, amount)
         \/ \E k \in Keys : Consume(t, k) \/ Settle(t, k)
         \/ Backfill(t)
  PROVE  BillInv'
  <1>1. ASSUME NEW u \in Users, NEW n \in Amounts, Adjust(t, u, n) PROVE BillInv'
    BY <1>1, Taken DEF Adjust, Idle, Pays, Settles
  <1>2. ASSUME NEW k \in Keys, Consume(t, k) PROVE BillInv'
    BY <1>2, Taken DEF Consume, Idle, Pays, Settles
  <1>3. ASSUME NEW k \in Keys, Settle(t, k) PROVE BillInv'
    BY <1>3, Taken DEF Settle, Idle, Pays, Settles
  <1>4. CASE Backfill(t)
    BY <1>4, Taken DEF Backfill, Idle, Pays, Settles
  <1> QED BY <1>1, <1>2, <1>3, <1>4

LEMMA LockBills ==
  ASSUME BillInv, TypeInv', NEW t \in Threads, Lock(t)
  PROVE  BillInv'
  <1> DEFINE me  == thread[t]
             job == [me EXCEPT !.pc = "post", !.copy = account[me.user]]
  <1>1. me \in Thread /\ me.pc = "lock" BY DEF BillInv, TypeInv, TypeOK, Lock
  <1>2. thread' = [thread EXCEPT ![t] = job] BY DEF Lock, BillInv, TypeInv, TypeOK
  <1>3. /\ job.op = me.op /\ job.key = me.key /\ job.amount = me.amount /\ job.pc = "post"
        /\ job.verdict = me.verdict /\ job.usage = me.usage
    BY <1>1 DEF Thread
  <1> HIDE DEF job
  <1>4. (Pays(job) <=> Pays(me)) /\ (Settles(job) <=> Settles(me)) /\ (Agreed(job) <=> Agreed(me))
    BY <1>1, <1>3 DEF Pays, Settles, Agreed
  <1>5. Settlers(t, job)
    BY <1>3, <1>4 DEF Lock, BillInv, OneSettler, Settlers
  <1>6. job.key \in Keys => Relies(job, bill[job.key])
    BY <1>3, <1>4 DEF BillInv, Relies
  <1> QED BY <1>2, <1>3, <1>4, <1>5, <1>6, Calm DEF Lock

(* Without a payment to answer for, a thread may rest. *)
LEMMA Rests ==
  ASSUME BillInv, TypeInv', NEW t \in Threads, thread' = [thread EXCEPT ![t] = Idle],
         bill' = bill, abandoned \subseteq abandoned',
         Pays(thread[t]) => thread[t].key \in abandoned',
         settling' = settling \/ Release(t)
  PROVE  BillInv'
  <1>1. ~Pays(Idle) /\ ~Settles(Idle) BY DEF Idle, Pays, Settles
  <1>2. Settlers(t, Idle) BY <1>1, Unlocked, Released
  <1> QED BY <1>1, <1>2, Calm DEF Relies

LEMMA RestsBills ==
  ASSUME BillInv, TypeInv', NEW t \in Threads,
         \/ PostAdjustment(t) \/ Abort(t) \/ (thread[t].pc = "settle" /\ AlreadySettled(t))
         \/ \E grant \in {0, Grant} : OpenMissing(t, grant)
  PROVE  BillInv'
  <1>1. CASE PostAdjustment(t)
    <2>1. ~Pays(thread[t]) BY <1>1 DEF PostAdjustment, Post, Pays
    <2> QED BY <1>1, <2>1, Rests DEF PostAdjustment, Post
  <1>2. CASE Abort(t)
    BY <1>2, Rests DEF Abort, Pays
  <1>3. CASE thread[t].pc = "settle" /\ AlreadySettled(t)
    BY <1>3, Rests DEF AlreadySettled, Pays, locks
  <1>4. ASSUME NEW grant \in {0, Grant}, OpenMissing(t, grant) PROVE BillInv'
    BY <1>4, Rests DEF OpenMissing, Pays, locks
  <1> QED BY <1>1, <1>2, <1>3, <1>4

LEMMA WorkBills ==
  ASSUME BillInv, TypeInv', NEW t \in Threads, WorkFails(t)
  PROVE  BillInv'
  <1> DEFINE me  == thread[t]
             job == [me EXCEPT !.pc = "lock", !.op = "refund", !.amount = Cost]
  <1>1. me \in Thread /\ me.pc = "work" BY DEF BillInv, TypeInv, TypeOK, WorkFails
  <1>2. CASE me.mine
    <2>1. thread' = [thread EXCEPT ![t] = job] BY <1>2 DEF WorkFails, BillInv, TypeInv, TypeOK
    <2>2. job.op = "refund" /\ job.pc = "lock" /\ job.key = me.key BY <1>1 DEF Thread
    <2> HIDE DEF job
    <2>3. Pays(me) /\ Pays(job) /\ ~Settles(job) BY <1>1, <1>2, <2>2 DEF Pays, Settles
    <2>4. job.key \in Keys => Relies(job, bill[job.key]) BY <2>2, <2>3 DEF BillInv, Relies
    <2> QED BY <2>1, <2>2, <2>3, <2>4, Unlocked, Calm DEF WorkFails, locks
  <1>3. CASE ~me.mine
    BY <1>1, <1>3, Rests DEF WorkFails, Pays, locks
  <1> QED BY <1>2, <1>3

(* What a thread decides to settle agrees with what it read. *)
LEMMA SettleByBills ==
  ASSUME BillInv, TypeInv', NEW t \in Threads, NEW n, NEW verdict, NEW actual,
         thread[t].pc = "settle", thread[t].key \in Keys, settling[thread[t].key] = {},
         bill[thread[t].key].status = "CHARGED",
         SettleBy(t, n, verdict, actual),
         Agreed([thread[t] EXCEPT !.pc = "lock", !.amount = n, !.verdict = verdict, !.usage = actual])
  PROVE  BillInv'
  <1> DEFINE me  == thread[t]
             job == [me EXCEPT !.pc = "lock", !.amount = n, !.verdict = verdict, !.usage = actual]
  <1>1. me \in Thread /\ me.op = "settle"
    BY DEF BillInv, TypeInv, TypeOK, JobsFit, JobFits
  <1>2. thread' = [thread EXCEPT ![t] = job] BY DEF SettleBy, BillInv, TypeInv, TypeOK
  <1>3. job.op = "settle" /\ job.pc = "lock" /\ job.key = me.key BY <1>1 DEF Thread
  <1>4. Agreed(job) OBVIOUS
  <1> HIDE DEF job
  <1>5. ~Pays(me) /\ ~Pays(job) /\ Settles(job) BY <1>1, <1>3 DEF Pays, Settles
  <1>6. Settlers(t, job)
    <2>1. settling' = [settling EXCEPT ![me.key] = {t}] /\ settling \in [Keys -> SUBSET Threads]
      BY DEF SettleBy, BillInv, TypeInv, TypeOK
    <2> QED BY <1>3, <2>1 DEF BillInv, OneSettler, Settlers
  <1>7. job.key \in Keys => Relies(job, bill[job.key]) BY <1>3, <1>4, <1>5 DEF Relies
  <1> QED BY <1>2, <1>5, <1>6, <1>7, Calm DEF SettleBy

-----------------------------------------------------------------------------
(* Steps that change a bill *)

(* The price and the caps are numbers, and so is what a bill says. *)
LEMMA Figures ==
  ASSUME TypeInv, NEW k \in Keys
  PROVE  /\ Cost \in Nat /\ Cost # 0 /\ Cap \in Nat /\ bill[k] \in Bill
         /\ bill[k].charged \in Nat /\ bill[k].refunded \in Nat /\ bill[k].surcharge \in Nat
         /\ bill[k].actual \in Nat
  BY LedgerAssumption DEF TypeInv, TypeOK, Bill

(* While a task is being settled nobody pays for its key. *)
LEMMA Alone ==
  ASSUME BillInv, NEW k \in Keys, bill[k].status = "CHARGED", NEW s \in Threads, thread[s].key = k
  PROVE  ~Pays(thread[s])
  BY DEF BillInv, BillFits, Relies

LEMMA CloseBills ==
  ASSUME BillInv, TypeInv', NEW t \in Threads, NEW verdict, NEW actual,
         thread[t].pc = "settle", thread[t].key \in Keys, settling[thread[t].key] = {},
         bill[thread[t].key].status = "CHARGED", CloseBill(t, verdict, actual),
         \/ verdict = "RETAINED" /\ bill[thread[t].key].delivered
         \/ verdict = "SETTLED" /\ actual = Cost
         \/ verdict = "SETTLED_CAPPED" /\ Cap = 0 /\ actual \in Nat /\ Cost < actual
  PROVE  BillInv'
  <1> DEFINE k == thread[t].key
             b == [bill[k] EXCEPT !.status = verdict, !.actual = actual]
  <1>1. k \in Keys /\ BillFits(k, bill[k]) BY DEF BillInv
  <1>2. /\ b.status = verdict /\ b.actual = actual /\ b.charged = bill[k].charged
        /\ b.refunded = bill[k].refunded /\ b.surcharge = bill[k].surcharge
        /\ b.delivered = bill[k].delivered
    BY <1>1, Figures DEF Bill, BillInv
  <1>3. bill' = [bill EXCEPT ![k] = b] /\ thread' = [thread EXCEPT ![t] = Idle]
    BY DEF CloseBill, BillInv, TypeInv, TypeOK
  <1> HIDE DEF b
  <1>4. BillFits(k, b)
    <2>1. /\ Mode[k] # "SYNC" /\ b.charged = Cost /\ b.refunded = 0 /\ b.surcharge = 0
          /\ b.status # "NONE"
      BY <1>1, <1>2 DEF BillFits
    <2> QED BY <1>1, <1>2, <2>1, Figures DEF BillFits, BillInv
  <1>5. \A s \in Threads \ {t} : thread[s].key = k => Relies(thread[s], b)
    BY <1>1, Alone DEF BillInv, OneSettler, Relies
  <1>6. Mode[k] # "SYNC" BY <1>1 DEF BillFits
  <1>7. ~Pays(Idle) /\ ~Settles(Idle) /\ Relies(Idle, b) /\ Idle.key \notin Keys
    BY LedgerAssumption DEF Idle, Pays, Settles, Relies
  <1> HIDE DEF k
  <1>8. Settlers(t, Idle) BY <1>7, Unlocked DEF CloseBill, locks
  <1>9. thread[t].key = k BY DEF k
  <1> QED BY <1>1, <1>3, <1>4, <1>5, <1>6, <1>7, <1>8, <1>9, Changes DEF CloseBill

LEMMA ReadSettlementBills ==
  ASSUME BillInv, TypeInv', NEW t \in Threads, ReadSettlement(t)
  PROVE  BillInv'
  <1> DEFINE me == thread[t]
  <1>1. /\ me \in Thread /\ me.pc = "settle" /\ me.op = "settle" /\ me.key \in Keys
        /\ settling[me.key] = {}
    BY DEF BillInv, TypeInv, TypeOK, JobsFit, JobFits, ReadSettlement
  <1>2. Cost \in Nat /\ Cap \in Nat BY LedgerAssumption
  <1>3. CASE AlreadySettled(t) BY <1>1, <1>3, RestsBills
  <1>4. CASE SettleFixed(t)
    <2>1. bill[me.key].status = "CHARGED" BY <1>4 DEF SettleFixed
    <2>2. CASE CloseBill(t, "RETAINED", 0) /\ bill[me.key].delivered
      BY <1>1, <2>1, <2>2, CloseBills
    <2>3. CASE SettleBy(t, Cost, "REFUNDED", 0)
      <3> DEFINE job == [me EXCEPT !.pc = "lock", !.amount = Cost, !.verdict = "REFUNDED", !.usage = 0]
      <3>1. job.key = me.key /\ job.amount = Cost /\ job.verdict = "REFUNDED"
        BY <1>1 DEF Thread
      <3>2. Agreed(job) BY <1>4, <3>1 DEF SettleFixed, Agreed
      <3> QED BY <1>1, <2>1, <2>3, <3>2, SettleByBills
    <2> QED BY <1>4, <2>2, <2>3 DEF SettleFixed
  <1>5. ASSUME NEW actual \in Usage, SettleToken(t, actual) PROVE BillInv'
    <2> DEFINE extra   == actual - Cost
               due     == IF extra > Cap THEN Cap ELSE extra
               verdict == IF extra > Cap THEN "SETTLED_CAPPED" ELSE "SETTLED"
    <2>1. bill[me.key].status = "CHARGED" /\ actual \in Nat
      BY <1>5, LedgerAssumption DEF SettleToken
    <2>2. CASE due = 0 /\ CloseBill(t, verdict, actual)
      <3>1. CASE extra > Cap
        <4>1. Cap = 0 /\ Cost < actual BY <1>2, <2>1, <2>2, <3>1
        <4> QED BY <1>1, <2>1, <2>2, <3>1, <4>1, CloseBills
      <3>2. CASE ~(extra > Cap)
        <4>1. actual = Cost BY <1>2, <2>1, <2>2, <3>2
        <4> QED BY <1>1, <2>1, <2>2, <3>2, <4>1, CloseBills
      <3> QED BY <3>1, <3>2
    <2>3. CASE SettleBy(t, -due, verdict, actual)
      <3> DEFINE job == [me EXCEPT !.pc = "lock", !.amount = -due, !.verdict = verdict, !.usage = actual]
      <3>1. job.key = me.key /\ job.amount = -due /\ job.verdict = verdict /\ job.usage = actual
        BY <1>1 DEF Thread
      <3>2. Agreed(job) BY <1>5, <3>1 DEF SettleToken, Agreed
      <3> HIDE DEF due, verdict
      <3> QED BY <1>1, <2>1, <2>3, <3>2, SettleByBills
    <2> QED BY <1>5, <2>2, <2>3 DEF SettleToken
  <1> QED BY <1>3, <1>4, <1>5 DEF ReadSettlement

LEMMA WorkSucceedsBills ==
  ASSUME BillInv, TypeInv', NEW t \in Threads, WorkSucceeds(t)
  PROVE  BillInv'
  <1> DEFINE k == thread[t].key
             b == [bill[k] EXCEPT !.delivered = TRUE]
  <1>1. k \in Keys /\ BillFits(k, bill[k])
    BY DEF BillInv, TypeInv, JobsFit, JobFits, WorkSucceeds
  <1>2. /\ b.status = bill[k].status /\ b.actual = bill[k].actual /\ b.charged = bill[k].charged
        /\ b.refunded = bill[k].refunded /\ b.surcharge = bill[k].surcharge /\ b.delivered
    BY <1>1, Figures DEF Bill, BillInv
  <1>3. bill' = [bill EXCEPT ![k] = b] /\ thread' = [thread EXCEPT ![t] = Idle]
    BY DEF WorkSucceeds, BillInv, TypeInv, TypeOK
  <1> HIDE DEF b
  <1>4. BillFits(k, b) BY <1>1, <1>2 DEF BillFits
  <1>5. \A s \in Threads \ {t} : thread[s].key = k => Relies(thread[s], b)
    BY <1>1, <1>2 DEF BillInv, Relies
  <1>6. ~Pays(Idle) /\ ~Settles(Idle) /\ Idle.key \notin Keys
    BY LedgerAssumption DEF Idle, Pays, Settles
  <1>7. Settlers(t, Idle) BY <1>6, Unlocked DEF WorkSucceeds, locks
  <1>8. thread[t].key = k OBVIOUS
  <1> HIDE DEF k
  <1> QED BY <1>1, <1>2, <1>3, <1>4, <1>5, <1>6, <1>7, <1>8, Changes DEF WorkSucceeds

(* What a posted transaction leaves to the next holder of the locks. *)
LEMMA PostedIdle ==
  ASSUME BillInv, NEW t \in Threads, NEW y, Post(t, y)
  PROVE  ~Pays(Idle) /\ ~Settles(Idle) /\ Idle.key \notin Keys /\ Settlers(t, Idle) /\ abandoned' = abandoned
  <1>1. ~Pays(Idle) /\ ~Settles(Idle) /\ Idle.key \notin Keys
    BY LedgerAssumption DEF Idle, Pays, Settles
  <1> QED BY <1>1, Released DEF Post

LEMMA ConsumptionBills ==
  ASSUME BillInv, TypeInv', NEW t \in Threads, PostConsumption(t)
  PROVE  BillInv'
  <1> DEFINE me == thread[t]
             k == me.key
             b == [bill[k] EXCEPT !.charged = Cost, !.status = IF Mode[k] = "SYNC" THEN "NONE" ELSE "CHARGED"]
             working == [me EXCEPT !.pc = "work", !.mine = TRUE, !.copy = NoAccount]
             job == IF Mode[k] = "SYNC" THEN working ELSE Idle
  <1>1. /\ me \in Thread /\ me.op = "consume" /\ k \in Keys /\ BillFits(k, bill[k])
        /\ bill[k].charged = 0
    BY DEF BillInv, TypeInv, TypeOK, JobsFit, JobFits, PostConsumption
  <1>2. /\ b.charged = Cost /\ b.refunded = bill[k].refunded /\ b.surcharge = bill[k].surcharge
        /\ b.status = IF Mode[k] = "SYNC" THEN "NONE" ELSE "CHARGED"
    BY <1>1, Figures DEF Bill, BillInv
  <1>3. working.pc = "work" /\ working.mine /\ working.key = k /\ working.op = "consume"
    BY <1>1 DEF Thread
  <1>4. bill' = [bill EXCEPT ![k] = b] /\ thread' = [thread EXCEPT ![t] = job]
    <2>1. bill' = [bill EXCEPT ![k] = b] BY DEF PostConsumption, BillInv, TypeInv, TypeOK
    <2>2. thread' = [thread EXCEPT ![t] = job] BY DEF PostConsumption, BillInv, TypeInv, TypeOK
    <2> QED BY <2>1, <2>2
  <1>5. Post(t, "CONSUME") BY DEF PostConsumption
  <1> HIDE DEF b, working
  <1>6. bill[k].status = "NONE" /\ b.refunded = 0 /\ b.surcharge = 0
    BY <1>1, <1>2, Figures DEF BillFits, BillInv
  <1>7. BillFits(k, b) BY <1>1, <1>2, <1>6 DEF BillFits
  <1>8. \A s \in Threads \ {t} : thread[s].key = k => ~Pays(thread[s]) /\ ~Settles(thread[s])
    BY <1>1, <1>6, LedgerAssumption DEF BillInv, Relies
  <1>9. /\ Settlers(t, job) /\ ~Settles(job) /\ (Pays(job) <=> Mode[k] = "SYNC")
        /\ job.key \in Keys => job.key = k
    <2>1. ~Pays(Idle) /\ ~Settles(Idle) /\ Idle.key \notin Keys BY <1>5, PostedIdle
    <2>2. Pays(working) /\ ~Settles(working) BY <1>3 DEF Pays, Settles
    <2>3. ~Settles(job) BY <2>1, <2>2
    <2>4. Settlers(t, job) BY <1>5, <2>3, Released DEF Post
    <2> QED BY <1>3, <2>1, <2>2, <2>3, <2>4
  <1>10. job.key \in Keys => Relies(job, b)
    BY <1>2, <1>3, <1>6, <1>9 DEF Relies
  <1>11. Pays(job) => job.key = k BY <1>3, <1>9
  <1>12. \A s \in Threads \ {t} : thread[s].key = k => Relies(thread[s], b)
    BY <1>8 DEF Relies
  <1>13. thread[t].key = k /\ abandoned' = abandoned BY <1>5 DEF Post
  <1> HIDE DEF k, job
  <1> QED BY <1>1, <1>4, <1>7, <1>8, <1>9, <1>10, <1>11, <1>12, <1>13, Changes

LEMMA RefundBills ==
  ASSUME BillInv, TypeInv', NEW t \in Threads, PostRefund(t)
  PROVE  BillInv'
  <1> DEFINE me == thread[t]
             k == me.key
             b == [bill[k] EXCEPT !.refunded = @ + me.amount]
  <1>1. /\ me.op = "refund" /\ me.pc = "post" /\ k \in Keys /\ me.amount = Cost
        /\ BillFits(k, bill[k])
    BY DEF BillInv, TypeInv, JobsFit, JobFits, PostRefund, Post
  <1>2. Pays(me) BY <1>1 DEF Pays
  <1>3. Mode[k] = "SYNC" /\ bill[k].charged = Cost /\ bill[k].refunded = 0
    BY <1>1, <1>2 DEF BillInv, Relies
  <1>4. /\ b.status = bill[k].status /\ b.charged = Cost /\ b.refunded = Cost
        /\ b.surcharge = bill[k].surcharge
    BY <1>1, <1>3, Figures DEF Bill, BillInv
  <1>5. bill' = [bill EXCEPT ![k] = b] /\ thread' = [thread EXCEPT ![t] = Idle]
    BY DEF PostRefund, BillInv, TypeInv, TypeOK
  <1> HIDE DEF b
  <1>6. BillFits(k, b) BY <1>1, <1>3, <1>4 DEF BillFits
  <1>7. \A s \in Threads \ {t} : thread[s].key = k => ~Pays(thread[s]) /\ ~Settles(thread[s])
    <2>1. bill[k].status = "NONE" BY <1>1, <1>3 DEF BillFits
    <2> QED BY <1>1, <1>2, <2>1 DEF BillInv, OnePayer, Relies
  <1>8. \A s \in Threads \ {t} : thread[s].key = k => Relies(thread[s], b)
    BY <1>7 DEF Relies
  <1>9. ~Pays(Idle) /\ Idle.key \notin Keys /\ Settlers(t, Idle) /\ abandoned' = abandoned
    BY PostedIdle DEF PostRefund
  <1>10. thread[t].key = k OBVIOUS
  <1> HIDE DEF k
  <1> QED BY <1>1, <1>4, <1>5, <1>6, <1>8, <1>9, <1>10, Changes

LEMMA SettlementBills ==
  ASSUME BillInv, TypeInv', NEW t \in Threads, PostSettlement(t)
  PROVE  BillInv'
  <1> DEFINE me == thread[t]
             k == me.key
             b == [bill[k] EXCEPT !.refunded = IF me.amount > 0 THEN @ + me.amount ELSE @,
                                  !.surcharge = IF me.amount < 0 THEN @ - me.amount ELSE @,
                                  !.status = me.verdict, !.actual = me.usage]
  <1>1. /\ me \in Thread /\ me.op = "settle" /\ me.pc = "post" /\ k \in Keys
        /\ BillFits(k, bill[k])
    BY DEF BillInv, TypeInv, TypeOK, JobsFit, JobFits, PostSettlement, Post
  <1>2. Settles(me) /\ bill[k].status = "CHARGED" /\ Agreed(me)
    BY <1>1 DEF BillInv, Relies, Settles
  <1>3. /\ Mode[k] # "SYNC" /\ bill[k].charged = Cost /\ bill[k].refunded = 0
        /\ bill[k].surcharge = 0
    BY <1>1, <1>2 DEF BillFits
  <1>4. /\ b.status = me.verdict /\ b.charged = Cost /\ b.actual = me.usage
        /\ b.refunded = IF me.amount > 0 THEN me.amount ELSE 0
        /\ b.surcharge = IF me.amount < 0 THEN -me.amount ELSE 0
    <2>1. bill[k] \in Bill /\ me.amount \in Int BY <1>1, Figures DEF Thread, BillInv
    <2> QED BY <1>3, <2>1 DEF Bill
  <1>5. bill' = [bill EXCEPT ![k] = b] /\ thread' = [thread EXCEPT ![t] = Idle]
    <2>1. bill' = [bill EXCEPT ![k] = b]
      <3>1. bill \in [Keys -> Bill] /\ bill[k] \in Bill BY <1>1 DEF BillInv, TypeInv, TypeOK
      <3> QED BY <1>1, <3>1 DEF PostSettlement, Bill
    <2>2. thread' = [thread EXCEPT ![t] = Idle] BY DEF PostSettlement
    <2> QED BY <2>1, <2>2
  <1> HIDE DEF b
  <1>6. BillFits(k, b)
    <2>1. Cost \in Nat /\ Cost # 0 /\ Cap \in Nat /\ me.usage \in Nat
      BY <1>1, LedgerAssumption DEF Thread
    <2>2. CASE Mode[k] = "FIXED"
      <3>1. me.amount = Cost /\ me.verdict = "REFUNDED" BY <1>2, <2>2 DEF Agreed
      <3> QED BY <1>3, <1>4, <2>1, <3>1 DEF BillFits
    <2>3. CASE Mode[k] = "TOKEN" /\ me.usage - Cost > Cap
      <3>1. me.amount = -Cap /\ me.verdict = "SETTLED_CAPPED" BY <1>2, <2>3 DEF Agreed
      <3> QED BY <1>3, <1>4, <2>1, <2>3, <3>1 DEF BillFits
    <2>4. CASE Mode[k] = "TOKEN" /\ ~(me.usage - Cost > Cap)
      <3>1. me.amount = Cost - me.usage /\ me.verdict = "SETTLED"
        BY <1>2, <2>1, <2>4 DEF Agreed
      <3> QED BY <1>3, <1>4, <2>1, <3>1 DEF BillFits
    <2> QED BY <1>2, <2>2, <2>3, <2>4 DEF Agreed
  <1>7. \A s \in Threads \ {t} : thread[s].key = k => Relies(thread[s], b)
    <2>1. \A s \in Threads \ {t} : thread[s].key = k => ~Settles(thread[s])
      BY <1>1, <1>2 DEF BillInv, OneSettler
    <2> QED BY <1>1, <1>2, <2>1, Alone DEF Relies
  <1>8. ~Pays(Idle) /\ Idle.key \notin Keys /\ Settlers(t, Idle) /\ abandoned' = abandoned
    BY PostedIdle DEF PostSettlement
  <1>9. thread[t].key = k OBVIOUS
  <1> HIDE DEF k
  <1> QED BY <1>1, <1>3, <1>5, <1>6, <1>7, <1>8, <1>9, Changes

(* A draft leaves every figure of the bill. *)
LEMMA DraftBills ==
  ASSUME BillInv, TypeInv', NEW k \in Keys, DeliverDraft(k)
  PROVE  BillInv'
  <1> DEFINE Same(b, c) == /\ c.status = b.status /\ c.charged = b.charged /\ c.refunded = b.refunded
                           /\ c.surcharge = b.surcharge /\ c.actual = b.actual
                           /\ b.delivered => c.delivered
  <1>1. ASSUME NEW j \in Keys PROVE Same(bill[j], bill'[j])
    BY DEF DeliverDraft, BillInv, TypeInv, TypeOK, Bill
  <1>2. thread' = thread /\ settling' = settling /\ abandoned' = abandoned
    BY DEF DeliverDraft, locks
  <1>3. \A j \in Keys : BillFits(j, bill'[j])
    <2> TAKE j \in Keys
    <2>1. BillFits(j, bill[j]) /\ Same(bill[j], bill'[j]) BY <1>1 DEF BillInv
    <2> QED BY <2>1 DEF BillFits
  <1>4. \A t \in Threads : thread'[t].key \in Keys => Relies(thread'[t], bill'[thread'[t].key])
    <2> SUFFICES ASSUME NEW t \in Threads, thread[t].key \in Keys
                 PROVE  Relies(thread[t], bill'[thread[t].key])
      BY <1>2
    <2>1. Relies(thread[t], bill[thread[t].key]) /\ Same(bill[thread[t].key], bill'[thread[t].key])
      BY <1>1 DEF BillInv
    <2> QED BY <2>1 DEF Relies
  <1>5. OnePayer' /\ OneSettler' BY <1>2 DEF BillInv, OnePayer, OneSettler, Pays, Settles
  <1>6. Accounted'
    <2> SUFFICES ASSUME NEW j \in Keys, Mode[j] = "SYNC", bill'[j].charged # bill'[j].refunded
                 PROVE  \/ bill'[j].delivered
                        \/ j \in abandoned'
                        \/ \E s \in Threads : Pays(thread'[s]) /\ thread'[s].key = j
      BY DEF Accounted, Pays
    <2>1. Same(bill[j], bill'[j]) BY <1>1
    <2>2. \/ bill[j].delivered
          \/ j \in abandoned
          \/ \E s \in Threads : Pays(thread[s]) /\ thread[s].key = j
      BY <2>1 DEF BillInv, Accounted
    <2> QED BY <1>2, <2>1, <2>2
  <1> QED BY <1>3, <1>4, <1>5, <1>6 DEF BillInv, BillFits, Relies, Pays, Settles, Agreed

-----------------------------------------------------------------------------
(* Every step keeps the invariant. *)

LEMMA BillStep == BillInv /\ [Next]_vars => BillInv'
  <1> SUFFICES ASSUME BillInv, [Next]_vars PROVE BillInv'
    OBVIOUS
  <1>1. TypeInv' BY TypeStep DEF BillInv
  <1>2. ASSUME NEW t \in Threads, Step(t) PROVE BillInv'
    <2>1. CASE \/ \E u \in Users, amount \in Amounts : Adjust(t, u, amount)
               \/ \E k \in Keys : Consume(t, k) \/ Settle(t, k)
               \/ Backfill(t)
      BY <1>1, <2>1, StartsBills
    <2>2. CASE Lock(t) BY <1>1, <2>2, LockBills
    <2>3. CASE PostAdjustment(t) \/ Abort(t) \/ \E grant \in {0, Grant} : OpenMissing(t, grant)
      BY <1>1, <2>3, RestsBills
    <2>4. CASE PostConsumption(t) BY <1>1, <2>4, ConsumptionBills
    <2>5. CASE PostRefund(t) BY <1>1, <2>5, RefundBills
    <2>6. CASE WorkSucceeds(t) BY <1>1, <2>6, WorkSucceedsBills
    <2>7. CASE WorkFails(t) BY <1>1, <2>7, WorkBills
    <2>8. CASE ReadSettlement(t) BY <1>1, <2>8, ReadSettlementBills
    <2>9. CASE PostSettlement(t) BY <1>1, <2>9, SettlementBills
    <2> QED BY <1>2, <2>1, <2>2, <2>3, <2>4, <2>5, <2>6, <2>7, <2>8, <2>9 DEF Step
  <1>3. CASE bill' = bill /\ thread' = thread /\ settling' = settling /\ abandoned' = abandoned
    BY <1>1, <1>3 DEF BillInv, OnePayer, OneSettler, Accounted, BillFits, Relies, Pays, Settles, Agreed
  <1>4. ASSUME NEW u \in Users, CreateUser(u) \/ \E grant \in {0, Grant} : Register(u, grant)
        PROVE  BillInv'
    BY <1>3, <1>4 DEF CreateUser, Register, locks
  <1>5. ASSUME NEW k \in Keys, DeliverDraft(k) PROVE BillInv'
    BY <1>1, <1>5, DraftBills
  <1>6. CASE UNCHANGED vars BY <1>3, <1>6 DEF vars, locks
  <1> QED BY <1>2, <1>4, <1>5, <1>6 DEF Next

(* Nobody gets back more than was charged under a business key, for any     *)
(* number of requests, settlements and instances and any prices.            *)
THEOREM RefundsBounded == Spec => []RefundBounded
  <1>1. BillInv => RefundBounded
    <2> SUFFICES ASSUME BillInv, NEW k \in Keys PROVE bill[k].refunded <= bill[k].charged
      BY DEF RefundBounded
    <2>1. BillFits(k, bill[k]) BY DEF BillInv
    <2>2. bill[k].status \in Statuses BY Figures DEF BillInv, Bill
    <2> QED BY <2>1, <2>2, Figures DEF BillInv, BillFits, Statuses
  <1> QED BY <1>1, InitBills, BillStep, PTL DEF Spec

(* What a settlement says is what its task paid in the end, whoever settled *)
(* it and however often it was tried.                                       *)
THEOREM SettlementsAgree == Spec => []SettlementAgrees
  <1>1. BillInv => SettlementAgrees
    <2> SUFFICES ASSUME BillInv, NEW k \in Keys
                 PROVE  LET b == bill[k]
                            paid == Paid(k)
                        IN  /\ b.status \in {"CHARGED", "RETAINED"} => paid = Cost
                            /\ b.status = "RETAINED" => b.delivered
                            /\ b.status = "REFUNDED" => paid = 0
                            /\ b.status = "SETTLED" => paid = b.actual
                            /\ b.status = "SETTLED_CAPPED" => paid = Cost + Cap /\ paid < b.actual
      BY DEF SettlementAgrees
    <2>1. BillFits(k, bill[k]) BY DEF BillInv
    <2> QED BY <2>1, Figures DEF BillInv, BillFits, Paid
  <1> QED BY <1>1, InitBills, BillStep, PTL DEF Spec

(* A request that paid and did not die over it has delivered or was         *)
(* refunded by the time nobody works on it.                                 *)
THEOREM PaymentsDeliver == Spec => []PaidIsDelivered
  <1>1. BillInv => PaidIsDelivered BY DEF BillInv, Accounted, PaidIsDelivered
  <1> QED BY <1>1, InitBills, BillStep, PTL DEF Spec

-----------------------------------------------------------------------------
(* The ledger implements PrepaidAccounts. *)

OpenAccounts == {u \in Users : account[u].open}
Balance      == [u \in Users |-> account[u].balance]
PaidFor      == [k \in Keys |-> Paid(k)]
Stages       == [k \in Keys |-> Stage(k)]

(* Who was charged has an account. *)
Billed == \A k \in Keys : Stage(k) # "unpaid" => account[Owner[k]].open

MoneyInv == LedgerInv /\ BillInv /\ Billed

LEMMA MoneyFigures ==
  ASSUME MoneyInv
  PROVE  /\ account \in [Users -> AccountRow] /\ Balance \in [Users -> Int] /\ PaidFor \in [Keys -> Int]
         /\ bill \in [Keys -> Bill] /\ thread \in [Threads -> Thread]
         /\ Owner \in [Keys -> Users]
         /\ Cost \in Nat /\ Cost # 0 /\ Cap \in Nat
         /\ \A u \in Users : account[u].balance >= 0
  <1>1. account \in [Users -> AccountRow] /\ bill \in [Keys -> Bill] /\ thread \in [Threads -> Thread]
    BY DEF MoneyInv, LedgerInv, TypeInv, TypeOK
  <1>2. \A k \in Keys : Paid(k) \in Int BY <1>1 DEF Paid, Bill
  <1>3. \A u \in Users : account[u].balance \in Int BY <1>1 DEF AccountRow
  <1>4. \A u \in Users : account[u].balance >= 0
    BY DEF MoneyInv, LedgerInv, LedgerBalances, Balanced
  <1> QED BY <1>1, <1>2, <1>3, <1>4, LedgerAssumption DEF Balance, PaidFor

(* Steps that move no money. *)
LEMMA NoMoney ==
  ASSUME account' = account, \A k \in Keys : Paid(k)' = Paid(k) /\ Stage(k)' = Stage(k)
  PROVE  UNCHANGED Prepaid!vars
  BY DEF Prepaid!vars

LEMMA Figureless ==
  ASSUME account' = account, bill' = bill
  PROVE  UNCHANGED Prepaid!vars
  BY NoMoney DEF Paid, Stage

(* A delivery changes no figure of the bill. *)
LEMMA Delivers ==
  ASSUME MoneyInv, account' = account, NEW k \in Keys,
         bill' = [bill EXCEPT ![k].delivered = TRUE]
  PROVE  UNCHANGED Prepaid!vars
  <1>1. ASSUME NEW j \in Keys
        PROVE  /\ bill'[j].charged = bill[j].charged /\ bill'[j].refunded = bill[j].refunded
               /\ bill'[j].surcharge = bill[j].surcharge /\ bill'[j].status = bill[j].status
    BY MoneyFigures DEF Bill
  <1> QED BY <1>1, NoMoney DEF Paid, Stage

(* The transaction that commits replaces the row by what it is worth with   *)
(* the amount, and the row can bear it.                                     *)
LEMMA PostedRow ==
  ASSUME LedgerInv, NEW t \in Threads, NEW y, Post(t, y)
  PROVE  LET u == thread[t].user
             n == thread[t].amount
         IN  /\ u \in Users /\ n \in Int
             /\ account[u].balance + n >= 0
             /\ account' = [account EXCEPT ![u] = Applied(account[u], y, n)]
  <1> DEFINE me == thread[t]
             u  == thread[t].user
  <1>1. u \in Users /\ me.amount \in Int /\ CopyIsRow(me, t) /\ me.pc = "post"
    BY DEF LedgerInv, TypeInv, TypeOK, JobsFit, JobFits, Thread, Locked, Post
  <1>2. me.copy = account[u] BY <1>1 DEF Post, CopyIsRow, LedgerInv, Unopened
  <1> QED BY <1>1, <1>2 DEF Post

LEMMA PostedMoney ==
  ASSUME MoneyInv, NEW t \in Threads, NEW y, Post(t, y)
  PROVE  LET u == thread[t].user
             n == thread[t].amount
         IN  /\ u \in Users /\ n \in Int
             /\ Balance[u] + n >= 0
             /\ Balance' = [Balance EXCEPT ![u] = @ + n]
             /\ OpenAccounts' = OpenAccounts \cup {u}
  <1> DEFINE u   == thread[t].user
             n   == thread[t].amount
             row == Applied(account[u], y, n)
  <1>1. /\ u \in Users /\ n \in Int /\ account[u].balance + n >= 0
        /\ account' = [account EXCEPT ![u] = row]
    BY PostedRow DEF MoneyInv
  <1>2. row.balance = account[u].balance + n /\ row.open BY DEF Applied
  <1> HIDE DEF row, u, n
  <1>3. /\ Balance[u] + n >= 0
        /\ Balance' = [Balance EXCEPT ![u] = @ + n]
    BY <1>1, <1>2, MoneyFigures DEF Balance
  <1>4. OpenAccounts' = OpenAccounts \cup {u}
    BY <1>1, <1>2, MoneyFigures DEF OpenAccounts
  <1> QED BY <1>1, <1>3, <1>4 DEF u, n

LEMMA AdjustsMoney ==
  ASSUME MoneyInv, NEW t \in Threads, PostAdjustment(t)
  PROVE  Prepaid!Next
  <1>1. PICK y : Post(t, y) BY DEF PostAdjustment
  <1>2. PICK u \in Users, n \in Amounts : u = thread[t].user /\ n = thread[t].amount
    <2>1. thread[t].amount \in Amounts
      BY DEF MoneyInv, LedgerInv, TypeInv, JobsFit, JobFits, PostAdjustment
    <2> QED BY <1>1, <2>1, PostedMoney
  <1>3. /\ Balance[u] + n >= 0
        /\ Balance' = [Balance EXCEPT ![u] = @ + n]
        /\ OpenAccounts' = OpenAccounts \cup {u}
    BY <1>1, <1>2, PostedMoney
  <1>4. PaidFor' = PaidFor /\ Stages' = Stages
    BY DEF PostAdjustment, PaidFor, Stages, Paid, Stage
  <1>5. Prepaid!Adjust(u, n)
    BY <1>3, <1>4 DEF Prepaid!Adjust, OpenAccounts, Balance, PaidFor, Stages
  <1> QED BY <1>5 DEF Prepaid!Next

(* A posted amount that its key loses is given back by the bill. *)
LEMMA GivesBack ==
  ASSUME MoneyInv, NEW t \in Threads, NEW y, Post(t, y), NEW k \in Keys, NEW n,
         thread[t].user = Owner[k], thread[t].amount = n, account[Owner[k]].open,
         NEW b, bill' = [bill EXCEPT ![k] = b],
         b.charged + b.surcharge - b.refunded = Paid(k) - n
  PROVE  Prepaid!GiveBack(k, n)
  <1> DEFINE u == thread[t].user
  <1>1. /\ u \in Users /\ Balance[u] + n >= 0
        /\ Balance' = [Balance EXCEPT ![u] = @ + n]
        /\ OpenAccounts' = OpenAccounts \cup {u}
    BY PostedMoney
  <1>2. OpenAccounts' = OpenAccounts /\ Owner[k] \in OpenAccounts
    BY <1>1 DEF OpenAccounts
  <1>3. \A j \in Keys : Paid(j)' = IF j = k THEN Paid(k) - n ELSE Paid(j)
    BY MoneyFigures DEF Paid
  <1>4. PaidFor' = [PaidFor EXCEPT ![k] = @ - n]
    BY <1>3 DEF PaidFor
  <1> QED BY <1>1, <1>2, <1>4 DEF Prepaid!GiveBack, OpenAccounts, Balance, PaidFor

(* The bill of one key changes its stage. *)
LEMMA Advances ==
  ASSUME MoneyInv, NEW k \in Keys, NEW b, bill' = [bill EXCEPT ![k] = b], NEW s,
         Stage(k)' = s
  PROVE  Stages' = [Stages EXCEPT ![k] = s]
  <1>1. \A j \in Keys : j # k => Stage(j)' = Stage(j)
    BY MoneyFigures DEF Stage
  <1> QED BY <1>1 DEF Stages

LEMMA PaysMoney ==
  ASSUME MoneyInv, NEW t \in Threads, PostConsumption(t)
  PROVE  Prepaid!Next
  <1> DEFINE me == thread[t]
  <1>0. PICK k \in Keys : k = me.key
    BY DEF MoneyInv, LedgerInv, TypeInv, JobsFit, JobFits, PostConsumption
  <1> DEFINE b == [bill[k] EXCEPT !.charged = Cost, !.status = IF Mode[k] = "SYNC" THEN "NONE" ELSE "CHARGED"]
  <1>1. Post(t, "CONSUME") /\ bill[k].charged = 0 BY <1>0 DEF PostConsumption
  <1>2. me.user = Owner[k] /\ me.amount = -Cost
    BY <1>0 DEF MoneyInv, LedgerInv, TypeInv, JobsFit, JobFits, PostConsumption, Post
  <1>3. BillFits(k, bill[k]) /\ bill[k] \in Bill
    BY <1>2, MoneyFigures DEF MoneyInv, BillInv
  <1>4. bill' = [bill EXCEPT ![k] = b] BY <1>0, MoneyFigures DEF PostConsumption
  <1>5. /\ b.charged = Cost /\ b.refunded = bill[k].refunded /\ b.surcharge = bill[k].surcharge
        /\ b.status = IF Mode[k] = "SYNC" THEN "NONE" ELSE "CHARGED"
    BY <1>3 DEF Bill
  <1>6. bill[k].refunded = 0 /\ bill[k].surcharge = 0
    BY <1>1, <1>3, MoneyFigures DEF BillFits
  <1>7. bill'[k] = b BY <1>2, <1>4, MoneyFigures
  <1> HIDE DEF b
  <1>8. account[Owner[k]].open
    <2>1. account[Owner[k]].balance + -Cost >= 0 BY <1>1, <1>2, PostedRow DEF MoneyInv
    <2>2. Owner[k] \in Users /\ account[Owner[k]].balance \in Int
      BY <1>2, MoneyFigures DEF AccountRow
    <2>3. account[Owner[k]] # NoAccount BY <2>1, MoneyFigures DEF NoAccount
    <2> QED BY <2>2, <2>3 DEF MoneyInv, LedgerInv, Unopened
  <1>9. b.charged + b.surcharge - b.refunded = Paid(k) - me.amount
    BY <1>1, <1>2, <1>5, <1>6, MoneyFigures DEF Paid
  <1>10. Prepaid!GiveBack(k, -Cost)
    BY <1>1, <1>2, <1>4, <1>8, <1>9, GivesBack
  <1>11. Stage(k) = "unpaid" BY <1>1 DEF Stage
  <1>12. Stage(k)' = "paid" BY <1>5, <1>6, <1>7, MoneyFigures DEF Stage
  <1>13. Stages' = [Stages EXCEPT ![k] = "paid"] BY <1>2, <1>4, <1>12, Advances
  <1>14. Prepaid!Pay(k) BY <1>2, <1>10, <1>11, <1>13 DEF Prepaid!Pay, Stages
  <1> QED BY <1>14 DEF Prepaid!Next

(* A bill that is paid is closed with the amount its owner gets. *)
LEMMA ClosesMoney ==
  ASSUME MoneyInv, NEW k \in Keys, NEW n \in -Cap..Cost, Prepaid!GiveBack(k, n),
         NEW b, bill' = [bill EXCEPT ![k] = b],
         Stage(k) = "paid", Stage(k)' = "closed"
  PROVE  Prepaid!Next
  <1>1. Stages' = [Stages EXCEPT ![k] = "closed"] BY Advances
  <1>2. Prepaid!Close(k, n) BY <1>1 DEF Prepaid!Close, Stages
  <1> QED BY <1>2 DEF Prepaid!Next

LEMMA RefundsMoney ==
  ASSUME MoneyInv, NEW t \in Threads, PostRefund(t)
  PROVE  Prepaid!Next
  <1> DEFINE me == thread[t]
  <1>0. PICK k \in Keys : k = me.key
    BY DEF MoneyInv, LedgerInv, TypeInv, JobsFit, JobFits, PostRefund
  <1> DEFINE b == [bill[k] EXCEPT !.refunded = @ + me.amount]
  <1>1. Post(t, "REFUND") /\ me.op = "refund" /\ me.pc = "post" BY DEF PostRefund, Post
  <1>2. me.user = Owner[k] /\ me.amount = Cost
    BY <1>0, <1>1 DEF MoneyInv, LedgerInv, TypeInv, JobsFit, JobFits
  <1>3. Mode[k] = "SYNC" /\ bill[k].charged = Cost /\ bill[k].refunded = 0
    BY <1>0, <1>1 DEF MoneyInv, BillInv, Relies, Pays
  <1>4. bill' = [bill EXCEPT ![k] = b] /\ bill'[k] = b
    BY <1>0, MoneyFigures DEF PostRefund
  <1>5. b.charged = Cost /\ b.refunded = Cost /\ b.surcharge = bill[k].surcharge
    BY <1>2, <1>3, MoneyFigures DEF Bill
  <1> HIDE DEF b
  <1>6. Stage(k) = "paid" BY <1>3, MoneyFigures DEF Stage
  <1>7. Stage(k)' = "closed" BY <1>3, <1>4, <1>5, MoneyFigures DEF Stage
  <1>8. account[Owner[k]].open BY <1>2, <1>6 DEF MoneyInv, Billed
  <1>9. b.charged + b.surcharge - b.refunded = Paid(k) - me.amount
    BY <1>2, <1>3, <1>5, MoneyFigures DEF Paid, Bill
  <1>10. Prepaid!GiveBack(k, Cost)
    BY <1>1, <1>2, <1>4, <1>8, <1>9, GivesBack
  <1>11. Cost \in -Cap..Cost BY MoneyFigures
  <1> QED BY <1>2, <1>4, <1>6, <1>7, <1>10, <1>11, ClosesMoney

(* A settlement that posts nothing, and one that posts the difference. *)
LEMMA RetainsMoney ==
  ASSUME MoneyInv, NEW t \in Threads, NEW verdict, NEW actual, thread[t].pc = "settle",
         verdict # "CHARGED", bill[thread[t].key].status = "CHARGED", CloseBill(t, verdict, actual)
  PROVE  Prepaid!Next
  <1>1. PICK k \in Keys : k = thread[t].key
    BY DEF MoneyInv, LedgerInv, TypeInv, JobsFit, JobFits
  <1> DEFINE b == [bill[k] EXCEPT !.status = verdict, !.actual = actual]
  <1>2. Mode[k] # "SYNC" /\ bill[k].charged = Cost
    BY <1>1 DEF MoneyInv, BillInv, BillFits
  <1>3. account' = account /\ bill' = [bill EXCEPT ![k] = b] /\ bill'[k] = b
    BY <1>1, MoneyFigures DEF CloseBill
  <1>4. /\ b.status = verdict /\ b.charged = Cost
        /\ b.refunded = bill[k].refunded /\ b.surcharge = bill[k].surcharge
    BY <1>2, MoneyFigures DEF Bill
  <1> HIDE DEF b
  <1>5. Stage(k) = "paid" BY <1>1, <1>2, MoneyFigures DEF Stage
  <1>6. Stage(k)' = "closed" BY <1>2, <1>3, <1>4, MoneyFigures DEF Stage
  <1>7. Prepaid!GiveBack(k, 0)
    <2>1. Owner[k] \in OpenAccounts BY <1>5, MoneyFigures DEF OpenAccounts, MoneyInv, Billed
    <2>2. Balance[Owner[k]] + 0 >= 0 /\ Balance' = [Balance EXCEPT ![Owner[k]] = @ + 0]
      BY <1>3, MoneyFigures DEF Balance, AccountRow
    <2>3. \A j \in Keys : Paid(j)' = Paid(j)
      BY <1>2, <1>3, <1>4, MoneyFigures DEF Paid
    <2>4. PaidFor' = [PaidFor EXCEPT ![k] = @ - 0]
      BY <2>3, MoneyFigures DEF PaidFor
    <2>5. OpenAccounts' = OpenAccounts BY <1>3 DEF OpenAccounts
    <2> QED BY <2>1, <2>2, <2>4, <2>5 DEF Prepaid!GiveBack, OpenAccounts, Balance, PaidFor
  <1>8. 0 \in -Cap..Cost BY MoneyFigures
  <1> QED BY <1>3, <1>5, <1>6, <1>7, <1>8, ClosesMoney

LEMMA SettlesMoney ==
  ASSUME MoneyInv, NEW t \in Threads, PostSettlement(t)
  PROVE  Prepaid!Next
  <1> DEFINE me == thread[t]
  <1>1. PICK k \in Keys, n \in Int : k = me.key /\ n = me.amount
    BY MoneyFigures DEF MoneyInv, LedgerInv, TypeInv, JobsFit, JobFits, PostSettlement, Thread
  <1> DEFINE b == [bill[k] EXCEPT !.refunded = IF n > 0 THEN @ + n ELSE @,
                                  !.surcharge = IF n < 0 THEN @ - n ELSE @,
                                  !.status = me.verdict, !.actual = me.usage]
  <1>2. PICK y : Post(t, y) BY DEF PostSettlement
  <1>3. me.user = Owner[k] /\ me.op = "settle" /\ me.pc = "post" /\ me.usage \in Nat
    BY <1>1, MoneyFigures DEF MoneyInv, LedgerInv, TypeInv, JobsFit, JobFits, PostSettlement, Post, Thread
  <1>4. bill[k].status = "CHARGED" /\ Agreed(me)
    BY <1>1, <1>3 DEF MoneyInv, BillInv, Relies, Settles
  <1>5. Mode[k] # "SYNC" /\ bill[k].charged = Cost /\ bill[k].refunded = 0 /\ bill[k].surcharge = 0
    BY <1>4 DEF MoneyInv, BillInv, BillFits
  <1>6. bill' = [bill EXCEPT ![k] = b] /\ bill'[k] = b
    BY <1>1, MoneyFigures DEF PostSettlement
  <1>7. /\ b.status = me.verdict /\ b.charged = Cost
        /\ b.refunded = (IF n > 0 THEN n ELSE 0) /\ b.surcharge = (IF n < 0 THEN -n ELSE 0)
    BY <1>1, <1>5, MoneyFigures DEF Bill
  <1> HIDE DEF b
  <1>8. me.verdict # "CHARGED" /\ n \in -Cap..Cost
    BY <1>1, <1>3, <1>4, MoneyFigures DEF Agreed
  <1>9. Stage(k) = "paid" BY <1>4, <1>5, MoneyFigures DEF Stage
  <1>10. Stage(k)' = "closed" BY <1>5, <1>6, <1>7, <1>8, MoneyFigures DEF Stage
  <1>11. account[Owner[k]].open BY <1>9 DEF MoneyInv, Billed
  <1>12. b.charged + b.surcharge - b.refunded = Paid(k) - n
    BY <1>1, <1>5, <1>7, MoneyFigures DEF Paid
  <1>13. Prepaid!GiveBack(k, n)
    BY <1>1, <1>2, <1>3, <1>6, <1>11, <1>12, GivesBack
  <1> QED BY <1>6, <1>8, <1>9, <1>10, <1>13, ClosesMoney

(* Accounts that are opened were not. *)
LEMMA OpensMoney ==
  ASSUME MoneyInv, NEW us \in SUBSET Users, NEW grant \in {0, Grant},
         \A u \in us : ~account[u].open,
         account' = [u \in Users |-> IF u \in us THEN Applied(NoAccount, "REGISTER_GRANT", grant)
                                                ELSE account[u]],
         bill' = bill
  PROVE  Prepaid!Next
  <1>1. us \cap OpenAccounts = {} /\ OpenAccounts' = OpenAccounts \cup us
    BY DEF OpenAccounts, Applied
  <1>2. Balance' = [u \in Users |-> IF u \in us THEN grant ELSE Balance[u]]
    BY LedgerAssumption DEF Balance, Applied, NoAccount
  <1>3. PaidFor' = PaidFor /\ Stages' = Stages BY DEF PaidFor, Stages, Paid, Stage
  <1>4. Prepaid!Open(us, grant)
    BY <1>1, <1>2, <1>3 DEF Prepaid!Open, OpenAccounts, Balance, PaidFor, Stages
  <1> QED BY <1>4 DEF Prepaid!Next

LEMMA ThreadMoney ==
  ASSUME MoneyInv, NEW t \in Threads, Step(t)
  PROVE  [Prepaid!Next]_(Prepaid!vars)
  <1>1. ASSUME account' = account, bill' = bill PROVE [Prepaid!Next]_(Prepaid!vars)
    BY <1>1, Figureless
  <1>2. CASE \/ \E u \in Users, amount \in Amounts : Adjust(t, u, amount)
             \/ \E k \in Keys : Consume(t, k) \/ Settle(t, k)
             \/ Backfill(t) \/ Lock(t) \/ WorkFails(t) \/ Abort(t)
    BY <1>1, <1>2 DEF Adjust, Consume, Settle, Backfill, Begin, Lock, WorkFails, Abort
  <1>3. ASSUME NEW grant \in {0, Grant}, OpenMissing(t, grant) PROVE Prepaid!Next
    <2>1. PICK us \in SUBSET Users : us = thread[t].missing
      BY MoneyFigures DEF Thread
    <2> QED BY <1>3, <2>1, OpensMoney DEF OpenMissing
  <1>4. CASE WorkSucceeds(t)
    <2>1. PICK k \in Keys : k = thread[t].key
      BY <1>4 DEF MoneyInv, LedgerInv, TypeInv, JobsFit, JobFits, WorkSucceeds
    <2> QED BY <1>4, <2>1, Delivers DEF WorkSucceeds
  <1>5. CASE ReadSettlement(t)
    <2> DEFINE b == bill[thread[t].key]
    <2>1. CASE AlreadySettled(t) BY <1>1, <2>1 DEF AlreadySettled
    <2>2. ASSUME NEW n, NEW verdict, NEW actual, SettleBy(t, n, verdict, actual)
          PROVE  [Prepaid!Next]_(Prepaid!vars)
      BY <1>1, <2>2 DEF SettleBy
    <2>3. CASE SettleFixed(t)
      BY <1>5, <2>2, <2>3, RetainsMoney DEF SettleFixed, ReadSettlement
    <2>4. ASSUME NEW actual \in Usage, SettleToken(t, actual) PROVE [Prepaid!Next]_(Prepaid!vars)
      <3>1. \E verdict \in {"SETTLED", "SETTLED_CAPPED"} :
               CloseBill(t, verdict, actual) \/ \E n : SettleBy(t, n, verdict, actual)
        BY <2>4 DEF SettleToken
      <3>2. b.status = "CHARGED" /\ thread[t].pc = "settle"
        BY <1>5, <2>4 DEF SettleToken, ReadSettlement
      <3> QED BY <2>2, <3>1, <3>2, RetainsMoney
    <2> QED BY <1>5, <2>1, <2>3, <2>4 DEF ReadSettlement
  <1> QED BY <1>2, <1>3, <1>4, <1>5, AdjustsMoney, PaysMoney, RefundsMoney, SettlesMoney DEF Step

LEMMA MoneyStep ==
  ASSUME MoneyInv, [Next]_vars
  PROVE  [Prepaid!Next]_(Prepaid!vars)
  <1>1. ASSUME NEW u \in Users, CreateUser(u) PROVE UNCHANGED Prepaid!vars
    BY <1>1, Figureless DEF CreateUser
  <1>2. ASSUME NEW u \in Users, NEW grant \in {0, Grant}, Register(u, grant) PROVE Prepaid!Next
    <2>1. ~account[u].open BY <1>2 DEF Register, MoneyInv, LedgerInv, Unopened
    <2>2. account' = [v \in Users |-> IF v \in {u} THEN Applied(NoAccount, "REGISTER_GRANT", grant)
                                                   ELSE account[v]]
      BY <1>2, MoneyFigures DEF Register
    <2> QED BY <1>2, <2>1, <2>2, OpensMoney DEF Register
  <1>3. ASSUME NEW k \in Keys, DeliverDraft(k) PROVE UNCHANGED Prepaid!vars
    BY <1>3, Delivers DEF DeliverDraft
  <1>4. CASE UNCHANGED vars BY <1>4, Figureless DEF vars
  <1> QED BY <1>1, <1>2, <1>3, <1>4, ThreadMoney DEF Next

(* An account that was charged stays open. *)
LEMMA BilledKept ==
  ASSUME MoneyInv, [Prepaid!Next]_(Prepaid!vars)
  PROVE  Billed'
  <1> SUFFICES ASSUME NEW k \in Keys, Stage(k)' # "unpaid" PROVE (account[Owner[k]].open)'
    BY DEF Billed, Stage
  <1> USE DEF OpenAccounts, Stages
  <1>1. OpenAccounts \subseteq OpenAccounts'
    BY DEF Prepaid!Next, Prepaid!vars, Prepaid!Open, Prepaid!Adjust, Prepaid!Pay, Prepaid!Close,
       Prepaid!GiveBack
  <1>2. Stages[k] # "unpaid" \/ Owner[k] \in OpenAccounts
    <2>1. CASE Stages' = Stages BY <2>1
    <2>2. ASSUME NEW j \in Keys, NEW s, Stages' = [Stages EXCEPT ![j] = s], Owner[j] \in OpenAccounts
          PROVE  Stages[k] # "unpaid" \/ Owner[k] \in OpenAccounts
      BY <2>2
    <2> QED BY <2>1, <2>2 DEF Prepaid!Next, Prepaid!vars, Prepaid!Open, Prepaid!Adjust, Prepaid!Pay,
                              Prepaid!Close, Prepaid!GiveBack
  <1>3. Owner[k] \in OpenAccounts BY <1>2, MoneyFigures DEF MoneyInv, Billed
  <1> QED BY <1>1, <1>3

LEMMA InitMoney == Init => MoneyInv /\ Prepaid!Init
  <1> SUFFICES ASSUME Init PROVE MoneyInv /\ Prepaid!Init
    OBVIOUS
  <1>1. \A k \in Keys : Paid(k) = 0 /\ Stage(k) = "unpaid"
    BY DEF Init, Paid, Stage, NoBill
  <1>2. \A u \in Users : account[u].balance = 0 /\ ~account[u].open
    BY DEF Init, NoAccount
  <1> QED BY <1>1, <1>2, InitLedger, InitBills DEF MoneyInv, Billed, Prepaid!Init

(* The ledger implements PrepaidAccounts: with any number of users, keys,   *)
(* threads and instances, and any prices, every commit opens accounts,      *)
(* adjusts one, pays a bill or closes one, and no other step moves money.   *)
THEOREM ImplementsPrepaidAccounts == Spec => MoneyKept
  <1>1. MoneyInv /\ [Next]_vars => [Prepaid!Next]_(Prepaid!vars)
    BY MoneyStep
  <1>2. MoneyInv /\ [Next]_vars => MoneyInv'
    BY <1>1, LedgerStep, BillStep, BilledKept DEF MoneyInv
  <1> QED BY <1>1, <1>2, InitMoney, PTL DEF Spec, MoneyKept, Prepaid!Spec

(* What is paid by the stage of the bill. *)
PaidFits == \A k \in Keys :
  /\ PaidFor[k] \in 0 .. Cost + Cap
  /\ Stages[k] = "unpaid" => PaidFor[k] = 0
  /\ Stages[k] = "paid" => PaidFor[k] = Cost

(* What that is worth, whoever implements it: nobody pays less than nothing *)
(* or more than the price and the cap, and a closed bill stands for good.   *)
THEOREM MoneyMeansOneBill ==
  MoneyKept => /\ []PaidFits
               /\ [][\A k \in Keys : Stages[k] = "closed" => PaidFor'[k] = PaidFor[k]
                                                          /\ Stages'[k] = "closed"]_vars
  <1> DEFINE Stands == \A k \in Keys : Stages[k] = "closed" => PaidFor'[k] = PaidFor[k]
                                                            /\ Stages'[k] = "closed"
  <1> USE LedgerAssumption
  <1>1. Prepaid!Init => PaidFits BY DEF Prepaid!Init, PaidFits, PaidFor, Stages
  <1>2. ASSUME PaidFits, [Prepaid!Next]_(Prepaid!vars) PROVE PaidFits' /\ Stands
    <2>1. CASE PaidFor' = PaidFor /\ Stages' = Stages BY <1>2, <2>1 DEF PaidFits
    <2>2. ASSUME NEW k \in Keys, NEW n \in Int, NEW s \in {"paid", "closed"},
                 PaidFor' = [PaidFor EXCEPT ![k] = @ - n], Stages' = [Stages EXCEPT ![k] = s],
                 PaidFor[k] - n \in 0 .. Cost + Cap, Stages[k] # "closed",
                 s = "paid" => PaidFor[k] - n = Cost
          PROVE  PaidFits' /\ Stands
      <3>1. \A j \in Keys : PaidFor'[j] = IF j = k THEN PaidFor[k] - n ELSE PaidFor[j]
        BY <2>2 DEF PaidFor
      <3>2. \A j \in Keys : Stages'[j] = IF j = k THEN s ELSE Stages[j]
        BY <2>2 DEF Stages
      <3> QED BY <1>2, <2>2, <3>1, <3>2 DEF PaidFits
    <2>3. ASSUME NEW k \in Keys, Prepaid!Pay(k) PROVE PaidFits' /\ Stands
      <3>1. /\ Stages[k] = "unpaid" /\ Stages' = [Stages EXCEPT ![k] = "paid"]
            /\ PaidFor' = [PaidFor EXCEPT ![k] = @ - -Cost]
        BY <2>3 DEF Prepaid!Pay, Prepaid!GiveBack, PaidFor, Stages
      <3>2. PICK n \in Int : n = -Cost OBVIOUS
      <3>3. PaidFor[k] - n = Cost /\ Cost \in 0 .. Cost + Cap BY <1>2, <3>1, <3>2 DEF PaidFits
      <3> QED BY <2>2, <3>1, <3>2, <3>3
    <2>4. ASSUME NEW k \in Keys, NEW n \in -Cap..Cost, Prepaid!Close(k, n) PROVE PaidFits' /\ Stands
      <3>1. /\ Stages[k] = "paid" /\ Stages' = [Stages EXCEPT ![k] = "closed"]
            /\ PaidFor' = [PaidFor EXCEPT ![k] = @ - n]
        BY <2>4 DEF Prepaid!Close, Prepaid!GiveBack, PaidFor, Stages
      <3>2. PaidFor[k] = Cost BY <1>2, <3>1 DEF PaidFits
      <3>3. PaidFor[k] - n \in 0 .. Cost + Cap /\ n \in Int BY <3>2
      <3> QED BY <2>2, <3>1, <3>3
    <2> QED BY <1>2, <2>1, <2>3, <2>4 DEF Prepaid!Next, Prepaid!vars, Prepaid!Open, Prepaid!Adjust, PaidFor, Stages
  <1> QED BY <1>1, <1>2, PTL DEF MoneyKept, Prepaid!Spec

=============================================================================
