----------------------- MODULE ExecutionCenterProofs -----------------------
(* Theorems about ExecutionCenter for every value of its constants.        *)
EXTENDS ExecutionCenter, TLAPS

(* The values an idle thread or an absent row has. *)
LEMMA Blanks ==
  /\ NoTask \in TaskRow /\ NoRun \in RunRow /\ NoStep \in StepRow
  /\ IdleWorker \in WorkerState /\ IdleConsumer \in ConsumerState
  /\ IdleRequest \in RequestState /\ NoCallback \in CallbackState
  <1>1. /\ 0 \in Attempts /\ 0 \in 0..MaxRuns /\ 0 \in 0..NumSteps
    BY ConstantsAssumption DEF Attempts
  <1>2. NoTask \in TaskRow /\ NoRun \in RunRow /\ NoStep \in StepRow
    BY <1>1 DEF NoTask, TaskRow, NoRun, RunRow, NoStep, StepRow
  <1>3. IdleWorker \in WorkerState /\ IdleConsumer \in ConsumerState
    BY <1>1, <1>2 DEF IdleWorker, WorkerState, WorkerPCs, Terminal, IdleConsumer, ConsumerState
  <1>4. IdleRequest \in RequestState /\ NoCallback \in CallbackState
    BY <1>1, <1>2 DEF IdleRequest, RequestState, NoCallback, CallbackState
  <1> QED BY <1>2, <1>3, <1>4

LEMMA InitType == Init => TypeOK
  <1> SUFFICES ASSUME Init PROVE TypeOK
    OBVIOUS
  <1>1. task \in TaskRow /\ runs \in [Runs -> RunRow] /\ steps \in [Runs -> [StepNos -> StepRow]]
    BY Blanks DEF Init
  <1>2. runCount \in 0..MaxRuns
    <2>1. runCount = 0 /\ MaxRuns \in Nat BY ConstantsAssumption DEF Init
    <2> QED BY <2>1
  <1>8. submitted \in Nat /\ delivered \in BOOLEAN
    BY DEF Init
  <1>3. queue \in [Attempts -> Nat]
    BY DEF Init
  <1>4. consumer \in [Consumers -> ConsumerState] /\ worker \in [Workers -> WorkerState]
    BY Blanks DEF Init
  <1>5. request \in [Requests -> RequestState] /\ callback \in [Callbacks -> CallbackState]
    BY Blanks DEF Init
  <1>6. credit \in CreditRow
    BY DEF Init, CreditRow
  <1>7. workspace \in [Runs -> {"NONE", "ACTIVE", "SCHEDULED"}]
    BY DEF Init
  <1> QED BY <1>1, <1>2, <1>3, <1>4, <1>5, <1>6, <1>7, <1>8 DEF TypeOK

(* A row that is written anew, or in one field, keeps its type. *)
LEMMA TaskWrites ==
  ASSUME NEW t \in TaskRow
  PROVE  /\ \A x \in Terminal \cup {"PENDING", "RETRYING", "RUNNING"} :
              /\ [t EXCEPT !.status = x] \in TaskRow
              /\ \A f \in BOOLEAN : [t EXCEPT !.status = x, !.cancel = f] \in TaskRow
              /\ \A r \in 0..MaxRuns : [t EXCEPT !.status = x, !.run = r] \in TaskRow
         /\ [t EXCEPT !.cancel = TRUE] \in TaskRow
  BY DEF TaskRow, Terminal

LEMMA SettleType ==
  ASSUME credit \in CreditRow PROVE SettledCredit \in CreditRow
  BY DEF SettledCredit, CreditRow


LEMMA PublishType ==
  ASSUME TypeOK, NEW a, Publish(a)
  PROVE  queue' \in [Attempts -> Nat]
  <1> DEFINE more == [queue EXCEPT ![a] = @ + 1]
  <1>1. queue \in [Attempts -> Nat] BY DEF TypeOK
  <1>2. ASSUME NEW b \in Attempts PROVE more[b] \in Nat
    <2>1. queue[b] \in Nat /\ queue[b] + 1 \in Nat BY <1>1
    <2> QED BY <1>1, <2>1
  <1>3. DOMAIN more = Attempts /\ more = [b \in Attempts |-> more[b]] BY <1>1
  <1>4. more \in [Attempts -> Nat] BY <1>2, <1>3
  <1> QED BY <1>4 DEF Publish

(* The consumers. *)
LEMMA ConsumerType ==
  ASSUME TypeOK, NEW c \in Consumers, Consume(c)
  PROVE  TypeOK'
  <1> USE ConstantsAssumption
  <1>1. ASSUME NEW a \in Attempts, Take(a) PROVE queue' \in [Attempts -> Nat]
    <2>1. queue[a] \in Nat /\ queue[a] > 0 BY <1>1 DEF Take, TypeOK
    <2>2. queue[a] - 1 \in Nat BY <2>1
    <2> QED BY <1>1, <2>2 DEF Take, TypeOK
  <1>2. ASSUME NEW a, Publish(a) PROVE queue' \in [Attempts -> Nat]
    BY <1>2, PublishType
  <1>3. ASSUME NEW a \in Attempts, Reject(c, a) PROVE TypeOK'
    <2>1. queue' \in [Attempts -> Nat] BY <1>1, <1>3 DEF Reject
    <2>2. task' \in TaskRow BY <1>3, TaskWrites DEF Reject, TypeOK
    <2>3. consumer' \in [Consumers -> ConsumerState]
      BY <1>3 DEF Reject, TypeOK, ConsumerState
    <2> QED BY <1>3, <2>1, <2>2, <2>3 DEF Reject, TypeOK, history, users, money
  <1>4. ASSUME NEW a \in Attempts, Skip(c, a) PROVE TypeOK'
    <2>1. queue' \in [Attempts -> Nat] BY <1>1, <1>4 DEF Skip
    <2> QED BY <1>4, <2>1 DEF Skip, TypeOK, history, users, money
  <1>5. ASSUME NEW a \in Attempts, ClaimError(c, a) PROVE TypeOK'
    <2>1. queue' \in [Attempts -> Nat] BY <1>1, <1>5 DEF ClaimError
    <2>2. consumer' \in [Consumers -> ConsumerState]
      BY <1>5 DEF ClaimError, TypeOK, ConsumerState
    <2> QED BY <1>5, <2>1, <2>2 DEF ClaimError, TypeOK, history, users, money
  <1>6. ASSUME NEW a \in Attempts, NEW w \in Workers, Claim(c, w, a) PROVE TypeOK'
    <2>1. queue' \in [Attempts -> Nat] BY <1>1, <1>6 DEF Claim
    <2>2. task' \in TaskRow BY <1>6, TaskWrites DEF Claim, TypeOK
    <2>3. [IdleWorker EXCEPT !.pc = "queued"] \in WorkerState
      BY Blanks DEF WorkerState, WorkerPCs
    <2>4. worker' \in [Workers -> WorkerState] BY <1>6, <2>3 DEF Claim, TypeOK
    <2> QED BY <1>6, <2>1, <2>2, <2>4 DEF Claim, TypeOK, history, users, money
  <1>7. ASSUME MarkTaskRetrying(c) PROVE TypeOK'
    <2>1. task' \in TaskRow BY <1>7, TaskWrites DEF MarkTaskRetrying, TypeOK
    <2>2. consumer' \in [Consumers -> ConsumerState]
      BY <1>7 DEF MarkTaskRetrying, TypeOK, ConsumerState
    <2> QED BY <1>7, <2>1, <2>2 DEF MarkTaskRetrying, TypeOK, history, users, money
  <1>8. ASSUME PublishRetry(c) PROVE TypeOK'
    <2>1. queue' \in [Attempts -> Nat] BY <1>2, <1>8 DEF PublishRetry, Requeue
    <2>2. consumer' \in [Consumers -> ConsumerState]
      BY <1>8, Blanks DEF PublishRetry, Requeue, TypeOK
    <2> QED BY <1>8, <2>1, <2>2 DEF PublishRetry, TypeOK, history, users, money
  <1>9. ASSUME PublishDeadLetter(c) PROVE TypeOK'
    <2>1. queue' \in [Attempts -> Nat] BY <1>2, <1>9 DEF PublishDeadLetter, Requeue, TypeOK
    <2>2. consumer' \in [Consumers -> ConsumerState]
      BY <1>9, Blanks DEF PublishDeadLetter, Requeue, TypeOK, ConsumerState
    <2> QED BY <1>9, <2>1, <2>2 DEF PublishDeadLetter, TypeOK, history, users, money
  <1>10. ASSUME MarkTaskQueueFailed(c) PROVE TypeOK'
    <2>1. task' \in TaskRow BY <1>10, TaskWrites DEF MarkTaskQueueFailed, TypeOK, Terminal
    <2>2. credit' \in CreditRow BY <1>10, SettleType DEF MarkTaskQueueFailed, Settle, TypeOK
    <2>3. consumer' \in [Consumers -> ConsumerState]
      BY <1>10, Blanks DEF MarkTaskQueueFailed, TypeOK
    <2> QED BY <1>10, <2>1, <2>2, <2>3 DEF MarkTaskQueueFailed, TypeOK, history, users
  <1> QED BY <1>3, <1>4, <1>5, <1>6, <1>7, <1>8, <1>9, <1>10 DEF Consume

(* Writing a row, or one field of it, at any index keeps the type of a      *)
(* table: an index outside the table changes nothing.                      *)
LEMMA StepWrites ==
  ASSUME TypeOK, NEW r, NEW s
  PROVE  /\ \A row \in StepRow :
              [steps EXCEPT ![r][s] = row] \in [Runs -> [StepNos -> StepRow]]
         /\ \A x \in Terminal :
              /\ [steps EXCEPT ![r][s].status = x] \in [Runs -> [StepNos -> StepRow]]
              /\ [steps EXCEPT ![r][s].status = x, ![r][s].live = TRUE]
                   \in [Runs -> [StepNos -> StepRow]]
         /\ [steps EXCEPT ![r][s].live = TRUE] \in [Runs -> [StepNos -> StepRow]]
  <1>1. CASE r \in Runs /\ s \in StepNos
    <2>1. steps \in [Runs -> [StepNos -> StepRow]] /\ steps[r] \in [StepNos -> StepRow]
          /\ steps[r][s] \in StepRow
      BY <1>1 DEF TypeOK
    <2>2. /\ [steps[r][s] EXCEPT !.live = TRUE] \in StepRow
          /\ \A x \in Terminal : /\ [steps[r][s] EXCEPT !.status = x] \in StepRow
                                 /\ [steps[r][s] EXCEPT !.status = x, !.live = TRUE] \in StepRow
      BY <2>1 DEF StepRow
    <2> QED BY <2>1, <2>2, <1>1
  <1>2. CASE ~(r \in Runs /\ s \in StepNos)
    BY <1>2 DEF TypeOK
  <1> QED BY <1>1, <1>2

LEMMA OutsideWrite ==
  ASSUME TypeOK, NEW r, NEW s, NEW x, ~(r \in Runs /\ s \in StepNos)
  PROVE  [steps EXCEPT ![r][s] = x] \in [Runs -> [StepNos -> StepRow]]
  BY DEF TypeOK

LEMMA RunWrites ==
  ASSUME TypeOK, NEW r, NEW row \in RunRow
  PROVE  [runs EXCEPT ![r] = row] \in [Runs -> RunRow]
  BY DEF TypeOK

(* What requests and transactions from outside leave alone, and what the    *)
(* latter found when they began.                                            *)
LEMMA UserLeaves ==
  ASSUME NEW q \in Requests, User(q)
  PROVE  UNCHANGED <<worker, consumer, callback, runCount, workspace, delivered>>
  <1>1. CASE CancelRead(q) BY <1>1 DEF CancelRead, Open, history, money
  <1>2. CASE RetryRead(q) BY <1>2 DEF RetryRead, Open, history, money
  <1>3. CASE CancelCommit(q) BY <1>3 DEF CancelCommit
  <1>4. CASE RetryCommit(q) BY <1>4 DEF RetryCommit, history, money
  <1> QED BY <1>1, <1>2, <1>3, <1>4 DEF User

Untouched == <<worker, consumer, request, submitted, runCount, workspace, queue, credit, delivered>>

Found == \/ \E k \in Callbacks : Busy(k)
         \/ \E r \in Runs, s \in StepNos : steps[r][s].status = "RUNNING"

LEMMA OutsideLeaves ==
  ASSUME Outside
  PROVE  UNCHANGED Untouched /\ Found
  <1>1. ASSUME NEW k \in Callbacks, NEW r \in Runs, NEW s \in StepNos, NEW early \in BOOLEAN,
               ReadStep(k, r, s, early)
        PROVE  UNCHANGED Untouched /\ Found
    BY <1>1 DEF ReadStep, Untouched, Found, history, users, money
  <1>2. ASSUME NEW k \in Callbacks, NEW x, NEW y, WriteBack(k, x, y), Busy(k)
        PROVE  UNCHANGED Untouched /\ Found
    BY <1>2 DEF WriteBack, Untouched, Found, users, money
  <1>3. {"events", "complete", "sweep"} = Callbacks /\ FALSE \in BOOLEAN
    BY DEF Callbacks
  <1>4. CASE Complete
    <2>1. ASSUME NEW r \in Runs, NEW s \in StepNos, CompleteRead(r, s)
          PROVE  UNCHANGED Untouched /\ Found
      BY <1>1, <1>3, <2>1 DEF CompleteRead
    <2>2. ASSUME NEW r \in Runs, NEW s \in StepNos, NEW status \in Terminal,
                 CompleteAtOnce(r, s, status)
          PROVE  UNCHANGED Untouched /\ Found
      BY <2>2 DEF CompleteAtOnce, Untouched, Found, users, money
    <2>3. ASSUME NEW status \in Terminal, CompleteCommit(status)
          PROVE  UNCHANGED Untouched /\ Found
      BY <1>2, <1>3, <2>3 DEF CompleteCommit
    <2> QED BY <1>4, <2>1, <2>2, <2>3 DEF Complete
  <1>5. CASE EventsCommit BY <1>2, <1>3, <1>5 DEF EventsCommit
  <1>6. CASE SweepCommit BY <1>2, <1>3, <1>6 DEF SweepCommit
  <1>7. ASSUME NEW r \in Runs, NEW s \in StepNos, SweepRead(r, s)
        PROVE  UNCHANGED Untouched /\ Found
    BY <1>1, <1>3, <1>7 DEF SweepRead
  <1>8. ASSUME NEW r \in Runs, NEW s \in StepNos, NEW early \in BOOLEAN, EventsRead(r, s, early)
        PROVE  UNCHANGED Untouched /\ Found
    BY <1>1, <1>3, <1>8 DEF EventsRead
  <1> QED BY <1>4, <1>5, <1>6, <1>7, <1>8 DEF Outside

(* A step of a live runner that a cancelation finds is one of the table.    *)
LEMMA LiveStepIsThere ==
  ASSUME TypeOK, NEW q \in Requests, LiveStep(q)
  PROVE  /\ request[q].copy.run \in Runs /\ request[q].runRow.step \in StepNos
         /\ steps[request[q].copy.run][request[q].runRow.step].status = "RUNNING"
         /\ steps[request[q].copy.run][request[q].runRow.step].session
  <1>1. request[q] \in RequestState BY DEF TypeOK
  <1>2. request[q].copy.run \in 0..MaxRuns /\ request[q].runRow.step \in 0..NumSteps
    BY <1>1 DEF RequestState, TaskRow, RunRow
  <1>3. request[q].copy.run # 0 /\ request[q].runRow.step # 0 BY DEF LiveStep
  <1>4. request[q].copy.run \in Runs BY <1>2, <1>3, ConstantsAssumption DEF Runs
  <1>5. request[q].runRow.step \in StepNos BY <1>2, <1>3, ConstantsAssumption DEF StepNos
  <1> QED BY <1>4, <1>5 DEF LiveStep

(* The executor threads: what each part of a dispatch writes. *)
LEMMA WorkerFacts ==
  ASSUME TypeOK, NEW w \in Workers
  PROVE  /\ worker[w] \in WorkerState
         /\ worker[w].copy \in TaskRow /\ worker[w].run \in 0..MaxRuns
         /\ worker[w].step \in 0..NumSteps /\ worker[w].verdict \in Terminal
  BY DEF TypeOK, WorkerState

LEMMA VerdictType ==
  ASSUME TypeOK, NEW w \in Workers, NEW pc \in WorkerPCs, NEW v \in Terminal,
         Verdict(w, pc, v)
  PROVE  worker' \in [Workers -> WorkerState]
  <1> DEFINE x == [worker[w] EXCEPT !.pc = pc, !.verdict = v]
  <1>1. x \in WorkerState BY WorkerFacts DEF WorkerState
  <1>2. worker' = [worker EXCEPT ![w] = x] BY DEF Verdict
  <1> HIDE DEF x
  <1> QED BY <1>1, <1>2 DEF TypeOK

LEMMA WriteRunType ==
  ASSUME TypeOK, NEW w \in Workers, NEW status \in {"RUNNING"} \cup Terminal,
         NEW step \in 0..NumSteps, WriteRun(w, status, step)
  PROVE  runs' \in [Runs -> RunRow]
  <1>1. [status |-> status, step |-> step] \in RunRow BY DEF RunRow
  <1> QED BY <1>1, RunWrites DEF WriteRun

(* The outcomes of a step. *)
LEMMA CompleteStepType ==
  ASSUME TypeOK, NEW w \in Workers, CompleteStep(w)
  PROVE  /\ task' \in TaskRow /\ runs' \in [Runs -> RunRow]
         /\ steps' \in [Runs -> [StepNos -> StepRow]]
         /\ worker' \in [Workers -> WorkerState] /\ delivered' \in BOOLEAN
  <1>1. task' \in TaskRow BY WorkerFacts DEF CompleteStep
  <1>2. runs' \in [Runs -> RunRow] BY WorkerFacts, WriteRunType DEF CompleteStep
  <1>3. [status |-> "SUCCESS", session |-> worker[w].step \in AsyncSteps, live |-> TRUE] \in StepRow
    BY DEF StepRow, Terminal
  <1>4. steps' \in [Runs -> [StepNos -> StepRow]] BY <1>3, StepWrites DEF CompleteStep, WriteStep
  <1>5. worker' \in [Workers -> WorkerState]
    BY WorkerFacts DEF CompleteStep, TypeOK, WorkerState, WorkerPCs
  <1>6. delivered' \in BOOLEAN BY DEF CompleteStep, TypeOK
  <1> QED BY <1>1, <1>2, <1>4, <1>5, <1>6

LEMMA EndStepType ==
  ASSUME TypeOK, NEW w \in Workers, NEW v \in Terminal, EndStep(w, v)
  PROVE  /\ task' \in TaskRow /\ runs' \in [Runs -> RunRow]
         /\ steps' \in [Runs -> [StepNos -> StepRow]]
         /\ worker' \in [Workers -> WorkerState] /\ delivered' \in BOOLEAN
  <1>1. task' \in TaskRow BY WorkerFacts DEF EndStep, TypeOK
  <1>2. "finish" \in WorkerPCs BY DEF WorkerPCs
  <1>3. worker' \in [Workers -> WorkerState] BY <1>2, VerdictType DEF EndStep
  <1>4. steps' \in [Runs -> [StepNos -> StepRow]]
    <2> DEFINE r == worker[w].run  s == worker[w].step
    <2>1. CASE Scenario # "TECHNICAL_DESIGN" BY <2>1 DEF EndStep, TypeOK
    <2>2. CASE Scenario = "TECHNICAL_DESIGN" /\ r \in Runs /\ s \in StepNos
      <3>1. steps[r][s].session \in BOOLEAN BY <2>2 DEF TypeOK, StepRow
      <3>2. [status |-> v, live |-> TRUE, session |-> steps[r][s].session] \in StepRow
        BY <3>1 DEF StepRow
      <3> DEFINE x == [status |-> v, live |-> TRUE, session |-> steps[r][s].session]
      <3>3. steps' = [steps EXCEPT ![r][s] = x] BY <2>2 DEF EndStep, WriteStep
      <3>4. x \in StepRow BY <3>2
      <3> HIDE DEF x, r, s
      <3> QED BY <3>3, <3>4, StepWrites
    <2>3. CASE Scenario = "TECHNICAL_DESIGN" /\ ~(r \in Runs /\ s \in StepNos)
      <3> DEFINE x == [status |-> v, live |-> TRUE, session |-> steps[r][s].session]
      <3>1. steps' = [steps EXCEPT ![r][s] = x] BY <2>3 DEF EndStep, WriteStep
      <3> HIDE DEF x, r, s
      <3>2. [steps EXCEPT ![r][s] = x] \in [Runs -> [StepNos -> StepRow]]
        BY <2>3, OutsideWrite
      <3> QED BY <3>1, <3>2
    <2> QED BY <2>1, <2>2, <2>3
  <1> QED BY <1>1, <1>3, <1>4 DEF EndStep, TypeOK


(* The step boundary. *)
LEMMA BoundaryType ==
  ASSUME TypeOK, NEW w \in Workers, Boundary(w)
  PROVE  TypeOK'
  <1>0. "finish" \in WorkerPCs /\ {"SUCCESS", "CANCELED"} \subseteq Terminal
    BY DEF WorkerPCs, Terminal
  <1>1. CASE NoMoreSteps(w)
    <2>1. worker' \in [Workers -> WorkerState] BY <1>0, <1>1, VerdictType DEF NoMoreSteps
    <2> QED BY <1>1, <2>1 DEF NoMoreSteps, Boundary, TypeOK, users, money
  <1>2. CASE CancelSeen(w)
    <2>1. worker' \in [Workers -> WorkerState] BY <1>0, <1>2, VerdictType DEF CancelSeen
    <2> QED BY <1>2, <2>1 DEF CancelSeen, Boundary, TypeOK, users, money
  <1>3. CASE BeginStep(w)
    <2> DEFINE next == worker[w].step + 1
    <2>1. next \in 0..NumSteps
      <3>1. worker[w].step \in 0..NumSteps /\ worker[w].step < NumSteps /\ NumSteps \in Nat
        BY <1>3, WorkerFacts, ConstantsAssumption DEF BeginStep
      <3> QED BY <3>1
    <2>2. runs' \in [Runs -> RunRow] BY <1>3, <2>1, WriteRunType DEF BeginStep
    <2>3. [NoStep EXCEPT !.status = "RUNNING"] \in StepRow BY DEF NoStep, StepRow
    <2>4. steps' \in [Runs -> [StepNos -> StepRow]] BY <1>3, <2>3, StepWrites DEF BeginStep
    <2>5. worker' \in [Workers -> WorkerState]
      <3> HIDE DEF next
      <3>1. worker' = [worker EXCEPT ![w].pc = "announce", ![w].step = next,
                        ![w].copy = IF Scenario = "GENERIC" THEN task ELSE @]
        BY <1>3 DEF BeginStep, next
      <3>2. \A t \in TaskRow :
              [worker[w] EXCEPT !.pc = "announce", !.step = next, !.copy = t] \in WorkerState
        BY <2>1, WorkerFacts DEF WorkerState, WorkerPCs
      <3>3. CASE Scenario = "GENERIC"
        <4>1. worker' = [worker EXCEPT ![w] = [worker[w] EXCEPT !.pc = "announce",
                                                 !.step = next, !.copy = task]]
          BY <3>1, <3>3 DEF TypeOK
        <4> QED BY <3>2, <4>1 DEF TypeOK
      <3>4. CASE Scenario # "GENERIC"
        <4>1. worker' = [worker EXCEPT ![w] = [worker[w] EXCEPT !.pc = "announce",
                                                 !.step = next, !.copy = worker[w].copy]]
          BY <3>1, <3>4, WorkerFacts DEF TypeOK
        <4> QED BY <3>2, <4>1, WorkerFacts DEF TypeOK
      <3> QED BY <3>3, <3>4
    <2> QED BY <1>3, <2>2, <2>4, <2>5 DEF Boundary, TypeOK, users, money
  <1> QED BY <1>1, <1>2, <1>3 DEF Boundary

LEMMA DispatchType ==
  ASSUME TypeOK, NEW w \in Workers, Dispatch(w) \/ Crash(w)
  PROVE  TypeOK'
  <1>0. worker[w] \in WorkerState /\ "FAILED" \in Terminal BY WorkerFacts DEF Terminal
  <1>1. ASSUME Start(w) PROVE TypeOK'
    <2>1. task' \in TaskRow
      <3>1. [task EXCEPT !.status = "CANCELED"] \in TaskRow BY TaskWrites DEF TypeOK, Terminal
      <3> QED BY <1>1, <3>1 DEF Start, TypeOK
    <2>2. worker' \in [Workers -> WorkerState]
      <3>1. CASE task.status # "RUNNING" BY <1>1, <3>1, Blanks DEF Start, TypeOK
      <3>2. CASE task.status = "RUNNING" /\ task.cancel
        <4>1. [worker[w] EXCEPT !.pc = "tail", !.verdict = "CANCELED"] \in WorkerState
          BY <1>0 DEF WorkerState, WorkerPCs, Terminal
        <4>2. worker' = [worker EXCEPT ![w] = [worker[w] EXCEPT !.pc = "tail", !.verdict = "CANCELED"]]
          BY <1>1, <3>2 DEF Start, TypeOK
        <4> QED BY <4>1, <4>2 DEF TypeOK
      <3>3. CASE task.status = "RUNNING" /\ ~task.cancel
        <4>1. runCount + 1 \in 0..MaxRuns
          <5>1. runCount \in 0..MaxRuns /\ runCount < MaxRuns /\ MaxRuns \in Nat
            BY <1>1, <3>3, ConstantsAssumption DEF Start, TypeOK
          <5> QED BY <5>1
        <4>2. \A n \in 0..MaxRuns : [worker[w] EXCEPT !.pc = "insert", !.run = n] \in WorkerState
          BY <1>0 DEF WorkerState, WorkerPCs
        <4>3. worker' = [worker EXCEPT ![w] = [worker[w] EXCEPT !.pc = "insert", !.run = runCount + 1]]
          BY <1>1, <3>3 DEF Start, TypeOK
        <4> QED BY <4>1, <4>2, <4>3 DEF TypeOK
      <3> QED BY <3>1, <3>2, <3>3 DEF TypeOK, TaskRow
    <2> QED BY <1>1, <2>1, <2>2 DEF Start, TypeOK, history, users, money
  <1>2. ASSUME Insert(w) PROVE TypeOK'
    <2>1. runs' \in [Runs -> RunRow]
      <3>1. 0 \in 0..NumSteps BY ConstantsAssumption
      <3>2. [status |-> "RUNNING", step |-> 0] \in RunRow BY <3>1 DEF RunRow
      <3> QED BY <1>2, <3>2, RunWrites DEF Insert, TypeOK
    <2>2. runCount' \in 0..MaxRuns
      <3>1. runCount \in Nat /\ MaxRuns \in Nat /\ worker[w].run \in 0..MaxRuns
        BY WorkerFacts, ConstantsAssumption DEF TypeOK
      <3> QED BY <1>2, <3>1 DEF Insert, TypeOK
    <2>3. worker' \in [Workers -> WorkerState]
      <3>1. 0 \in 0..MaxRuns BY ConstantsAssumption
      <3>2. /\ [worker[w] EXCEPT !.pc = "bind", !.copy = task] \in WorkerState
            /\ [worker[w] EXCEPT !.pc = "queueFailed", !.run = 0] \in WorkerState
        BY <1>0, <3>1 DEF TypeOK, WorkerState, WorkerPCs
      <3>3. \/ worker' = [worker EXCEPT ![w] = [worker[w] EXCEPT !.pc = "bind", !.copy = task]]
            \/ worker' = [worker EXCEPT ![w] = [worker[w] EXCEPT !.pc = "queueFailed", !.run = 0]]
        BY <1>2 DEF Insert, TypeOK
      <3> QED BY <3>2, <3>3 DEF TypeOK
    <2> QED BY <1>2, <2>1, <2>2, <2>3 DEF Insert, TypeOK, users, money
  <1>3. ASSUME Bind(w) PROVE TypeOK'
    <2> DEFINE bound == [worker[w].copy EXCEPT !.status = "RUNNING", !.run = worker[w].run]
    <2>1. bound \in TaskRow BY WorkerFacts, TaskWrites
    <2> HIDE DEF bound
    <2>2. /\ task' = bound
          /\ \/ worker' = [worker EXCEPT ![w].pc = "boundary", ![w].copy = bound,
                                         ![w].guarded = TRUE]
             \/ worker' = [worker EXCEPT ![w] = [IdleWorker EXCEPT !.pc = "queueFailed"]]
      BY <1>3 DEF Bind, bound
    <2>3. worker' \in [Workers -> WorkerState]
      <3>1. [worker[w] EXCEPT !.pc = "boundary", !.copy = bound, !.guarded = TRUE] \in WorkerState
        BY <1>0, <2>1 DEF WorkerState, WorkerPCs
      <3>2. [IdleWorker EXCEPT !.pc = "queueFailed"] \in WorkerState
        BY Blanks DEF WorkerState, WorkerPCs
      <3>3. \/ worker' = [worker EXCEPT ![w] = [worker[w] EXCEPT !.pc = "boundary", !.copy = bound,
                                                  !.guarded = TRUE]]
            \/ worker' = [worker EXCEPT ![w] = [IdleWorker EXCEPT !.pc = "queueFailed"]]
        BY <2>2 DEF TypeOK
      <3> QED BY <3>1, <3>2, <3>3 DEF TypeOK
    <2> QED BY <1>3, <2>1, <2>2, <2>3 DEF Bind, TypeOK, history, users, money
  <1>4. ASSUME Announce(w) PROVE TypeOK'
    <2>1. task' \in TaskRow BY <1>4, WorkerFacts DEF Announce
    <2>2. steps' \in [Runs -> [StepNos -> StepRow]] BY <1>4, StepWrites DEF Announce
    <2>3. worker' \in [Workers -> WorkerState]
      BY <1>4 DEF Announce, TypeOK, WorkerState, WorkerPCs
    <2> QED BY <1>4, <2>1, <2>2, <2>3 DEF Announce, TypeOK, users, money
  <1>5. ASSUME RunAgent(w) PROVE TypeOK'
    <2>1. CompleteStep(w) \/ EndStep(w, "FAILED") BY <1>5 DEF RunAgent
    <2>2. /\ task' \in TaskRow /\ runs' \in [Runs -> RunRow]
          /\ steps' \in [Runs -> [StepNos -> StepRow]]
          /\ worker' \in [Workers -> WorkerState] /\ delivered' \in BOOLEAN
      BY <1>0, <2>1, CompleteStepType, EndStepType
    <2> QED BY <1>5, <2>2 DEF RunAgent, TypeOK, users
  <1>6. ASSUME Submit(w) PROVE TypeOK'
    <2>1. CASE SubmitRunner(w)
      <3>1. [status |-> "RUNNING", session |-> TRUE, live |-> TRUE] \in StepRow BY DEF StepRow
      <3>2. steps' \in [Runs -> [StepNos -> StepRow]]
        BY <2>1, <3>1, StepWrites DEF SubmitRunner, WriteStep
      <3>3. worker' \in [Workers -> WorkerState]
        BY <2>1 DEF SubmitRunner, TypeOK, WorkerState, WorkerPCs
      <3>4. task' \in TaskRow BY <2>1, WorkerFacts DEF SubmitRunner
      <3>5. workspace' \in [Runs -> {"NONE", "ACTIVE", "SCHEDULED"}]
        BY <2>1 DEF SubmitRunner, TypeOK
      <3> QED BY <1>6, <2>1, <3>2, <3>3, <3>4, <3>5 DEF Submit, SubmitRunner, TypeOK, users
    <2>2. CASE EndStep(w, "FAILED") /\ UNCHANGED workspace
      BY <1>0, <1>6, <2>2, EndStepType DEF Submit, TypeOK, users
    <2> QED BY <1>6, <2>1, <2>2 DEF Submit
  <1>7. ASSUME Await(w) PROVE TypeOK'
    <2>1. CompleteStep(w) \/ EndStep(w, "CANCELED") \/ EndStep(w, "FAILED")
      BY <1>7 DEF Await
    <2>2. /\ task' \in TaskRow /\ runs' \in [Runs -> RunRow]
          /\ steps' \in [Runs -> [StepNos -> StepRow]]
          /\ worker' \in [Workers -> WorkerState] /\ delivered' \in BOOLEAN
      BY <2>1, CompleteStepType, EndStepType DEF Terminal
    <2> QED BY <1>7, <2>2 DEF Await, TypeOK, users
  <1>8. ASSUME Finish(w) PROVE TypeOK'
    <2>1. runs' \in [Runs -> RunRow] BY <1>8, WorkerFacts, WriteRunType DEF Finish
    <2>2. steps' \in [Runs -> [StepNos -> StepRow]]
      <3>1. [steps EXCEPT ![worker[w].run][worker[w].step].status = "FAILED"]
              \in [Runs -> [StepNos -> StepRow]]
        BY <1>0, StepWrites
      <3> QED BY <1>8, <3>1 DEF Finish, TypeOK
    <2>3. task' \in TaskRow BY <1>8, WorkerFacts DEF Finish, TaskRow, Terminal
    <2>4. worker' \in [Workers -> WorkerState]
      <3> DEFINE x == [worker[w] EXCEPT !.pc = "tail"]
      <3>1. x \in WorkerState BY WorkerFacts DEF WorkerState, WorkerPCs
      <3>2. worker' = [worker EXCEPT ![w] = x] BY <1>8 DEF Finish
      <3> HIDE DEF x
      <3> QED BY <3>1, <3>2 DEF TypeOK
    <2> QED BY <1>8, <2>1, <2>2, <2>3, <2>4 DEF Finish, TypeOK, users, money
  <1>9. ASSUME Tail(w) PROVE TypeOK'
    <2>1. workspace' \in [Runs -> {"NONE", "ACTIVE", "SCHEDULED"}]
      BY <1>9 DEF Tail, ScheduleCleanup, TypeOK
    <2>2. credit' \in CreditRow BY <1>9, SettleType DEF Tail, Settle, TypeOK
    <2>3. worker' \in [Workers -> WorkerState]
      <3>1. CASE worker' = [worker EXCEPT ![w] = IdleWorker] BY <3>1, Blanks DEF TypeOK
      <3>2. CASE TailFailed(w)
        BY <3>2, <1>0 DEF TailFailed, TypeOK, WorkerState, WorkerPCs
      <3> QED BY <1>9, <3>1, <3>2 DEF Tail
    <2> QED BY <1>9, <2>1, <2>2, <2>3 DEF Tail, TypeOK, users
  <1>10. ASSUME QueueFailed(w) PROVE TypeOK'
    <2>1. task' \in TaskRow BY <1>0, <1>10, TaskWrites DEF QueueFailed, TypeOK
    <2>2. credit' \in CreditRow BY <1>10, SettleType DEF QueueFailed, Settle, TypeOK
    <2>3. worker' \in [Workers -> WorkerState] BY <1>10, Blanks DEF QueueFailed, TypeOK
    <2> QED BY <1>10, <2>1, <2>2, <2>3 DEF QueueFailed, TypeOK, history, users
  <1>11. ASSUME Crash(w) PROVE TypeOK'
    <2>1. worker' \in [Workers -> WorkerState] BY <1>11, Blanks DEF Crash, TypeOK
    <2> QED BY <1>11, <2>1 DEF Crash, TypeOK, history, users, money
  <1> QED
    BY <1>1, <1>2, <1>3, <1>4, <1>5, <1>6, <1>7, <1>8, <1>9, <1>10, <1>11, BoundaryType
    DEF Dispatch

(* The user's transactions. *)
LEMMA UserType ==
  ASSUME TypeOK, NEW q \in Requests, User(q)
  PROVE  TypeOK'
  <1>0. /\ request[q] \in RequestState /\ request[q].copy \in TaskRow
        /\ request[q].runRow \in RunRow
    BY DEF TypeOK, RequestState
  <1>1. ASSUME NEW pc \in {"cancel", "retry"}, Open(q, pc) PROVE TypeOK'
    <2> DEFINE row == IF task.run = 0 THEN NoRun ELSE runs[task.run]
    <2>1. task \in TaskRow /\ row \in RunRow
      <3>1. task.run \in 0..MaxRuns BY DEF TypeOK, TaskRow
      <3>2. task.run = 0 \/ task.run \in Runs BY <3>1, ConstantsAssumption DEF Runs
      <3> QED BY <3>2, Blanks DEF TypeOK
    <2> HIDE DEF row
    <2>2. [pc |-> pc, copy |-> task, runRow |-> row] \in RequestState BY <2>1 DEF RequestState
    <2>3. request' = [request EXCEPT ![q] = [pc |-> pc, copy |-> task, runRow |-> row]]
      BY <1>1 DEF Open, row
    <2>4. request' \in [Requests -> RequestState] BY <2>2, <2>3 DEF TypeOK
    <2> QED BY <1>1, <2>4 DEF Open, TypeOK, history, money
  <1>2. ASSUME CancelCommit(q) PROVE TypeOK'
    <2>1. request' \in [Requests -> RequestState] BY <1>2, Blanks DEF CancelCommit, TypeOK
    <2>2. CASE CancelPending(q)
      <3>1. task' \in TaskRow BY <2>2, <1>0, TaskWrites DEF CancelPending, Terminal
      <3>2. credit' \in CreditRow BY <2>2, SettleType DEF CancelPending, Settle, TypeOK
      <3> QED BY <1>2, <2>1, <2>2, <3>1, <3>2 DEF CancelCommit, CancelPending, TypeOK
    <2>3. CASE CancelLiveStep(q)
      <3> DEFINE run == request[q].copy.run  row == request[q].runRow
      <3>1. task' \in TaskRow BY <2>3, <1>0, TaskWrites DEF CancelLiveStep, Terminal
      <3>2. [row EXCEPT !.status = "CANCELED"] \in RunRow BY <1>0 DEF RunRow, Terminal
      <3>3. runs' \in [Runs -> RunRow] BY <2>3, <3>2, RunWrites DEF CancelLiveStep
      <3>4. [steps EXCEPT ![run][row.step].status = "CANCELED"] \in [Runs -> [StepNos -> StepRow]]
        BY StepWrites DEF Terminal
      <3>5. steps' \in [Runs -> [StepNos -> StepRow]] BY <2>3, <3>4 DEF CancelLiveStep
      <3> QED BY <1>2, <2>1, <2>3, <3>1, <3>3, <3>5 DEF CancelCommit, CancelLiveStep, TypeOK
    <2>4. CASE RequestCancel(q)
      <3>1. task' \in TaskRow BY <2>4, <1>0, TaskWrites DEF RequestCancel
      <3> QED BY <1>2, <2>1, <2>4, <3>1 DEF CancelCommit, RequestCancel, TypeOK
    <2> QED BY <1>2, <2>2, <2>3, <2>4 DEF CancelCommit
  <1>3. ASSUME RetryCommit(q) PROVE TypeOK'
    <2>1. request' \in [Requests -> RequestState] BY <1>3, Blanks DEF RetryCommit, TypeOK
    <2>2. task' \in TaskRow BY <1>3, <1>0, TaskWrites DEF RetryCommit
    <2>3. queue' \in [Attempts -> Nat]
      <3>1. CASE Publish(0) BY <3>1, PublishType
      <3>2. CASE UNCHANGED queue BY <3>2 DEF TypeOK
      <3> QED BY <1>3, <3>1, <3>2 DEF RetryCommit, PublishAfterCommit
    <2>4. submitted' \in Nat BY <1>3 DEF RetryCommit, TypeOK
    <2> QED BY <1>3, <2>1, <2>2, <2>3, <2>4 DEF RetryCommit, TypeOK, history, money
  <1> QED BY <1>1, <1>2, <1>3 DEF User, CancelRead, RetryRead

(* The runner's callbacks and the watchdog. *)
LEMMA OutsideType ==
  ASSUME TypeOK, Outside
  PROVE  TypeOK'
  <1>0. ASSUME NEW k \in Callbacks
        PROVE  /\ callback[k].copy \in TaskRow /\ callback[k].stepRow \in StepRow
               /\ callback[k].runRow \in RunRow
    BY <1>0 DEF TypeOK, CallbackState
  <1>1. ASSUME NEW k \in Callbacks, NEW r \in Runs, NEW s \in StepNos, NEW early \in BOOLEAN,
               ReadStep(k, r, s, early)
        PROVE  TypeOK'
    <2> DEFINE b == [run |-> r, step |-> s, stepRow |-> steps[r][s], runRow |-> runs[r],
                     copy |-> task, early |-> early]
    <2>1. r \in 0..MaxRuns /\ s \in 0..NumSteps
      BY ConstantsAssumption DEF Runs, StepNos
    <2>2. task \in TaskRow /\ runs[r] \in RunRow /\ steps[r][s] \in StepRow BY DEF TypeOK
    <2>3. b \in CallbackState BY <2>1, <2>2 DEF CallbackState
    <2>4. callback' = [callback EXCEPT ![k] = b] BY <1>1 DEF ReadStep
    <2> HIDE DEF b
    <2>5. callback' \in [Callbacks -> CallbackState] BY <2>3, <2>4 DEF TypeOK
    <2> QED BY <1>1, <2>5 DEF ReadStep, TypeOK, history, users, money
  <1>2. ASSUME NEW k \in Callbacks, NEW row \in StepRow, NEW run \in RunRow,
               WriteBack(k, row, run), task' \in TaskRow
        PROVE  TypeOK'
    <2>1. steps' \in [Runs -> [StepNos -> StepRow]] BY <1>2, StepWrites DEF WriteBack
    <2>2. runs' \in [Runs -> RunRow] BY <1>2, RunWrites DEF WriteBack
    <2>3. callback' \in [Callbacks -> CallbackState] BY <1>2, Blanks DEF WriteBack, TypeOK
    <2> QED BY <1>2, <2>1, <2>2, <2>3 DEF WriteBack, TypeOK, users, money
  <1>3. ASSUME NEW r \in Runs, NEW s \in StepNos, NEW status \in Terminal,
               CompleteAtOnce(r, s, status)
        PROVE  TypeOK'
    <2>1. steps' \in [Runs -> [StepNos -> StepRow]] BY <1>3, StepWrites DEF CompleteAtOnce
    <2> QED BY <1>3, <2>1 DEF CompleteAtOnce, TypeOK, users, money
  <1>4. ASSUME NEW status \in Terminal, CompleteCommit(status) PROVE TypeOK'
    <2>1. "complete" \in Callbacks BY DEF Callbacks
    <2>2. task' \in TaskRow BY <1>0, <1>4, <2>1 DEF CompleteCommit
    <2>3. [callback["complete"].stepRow EXCEPT !.status = status, !.live = TRUE] \in StepRow
      BY <1>0, <2>1 DEF StepRow
    <2> QED BY <1>0, <1>2, <1>4, <2>1, <2>2, <2>3 DEF CompleteCommit
  <1>5. ASSUME EventsCommit PROVE TypeOK'
    <2>1. "events" \in Callbacks BY DEF Callbacks
    <2>2. task' \in TaskRow BY <1>0, <1>5, <2>1 DEF EventsCommit, TypeOK
    <2>3. [callback["events"].stepRow EXCEPT !.live = TRUE] \in StepRow
      BY <1>0, <2>1 DEF StepRow
    <2> QED BY <1>0, <1>2, <1>5, <2>1, <2>2, <2>3 DEF EventsCommit
  <1>6. ASSUME SweepCommit PROVE TypeOK'
    <2>1. "sweep" \in Callbacks /\ "FAILED" \in Terminal BY DEF Callbacks, Terminal
    <2>2. task' \in TaskRow BY <1>0, <1>6, <2>1, TaskWrites DEF SweepCommit
    <2>3. [callback["sweep"].stepRow EXCEPT !.status = "FAILED"] \in StepRow
      BY <1>0, <2>1 DEF StepRow
    <2>4. [callback["sweep"].runRow EXCEPT !.status = "FAILED"] \in RunRow
      BY <1>0, <2>1 DEF RunRow
    <2> QED BY <1>2, <1>6, <2>1, <2>2, <2>3, <2>4 DEF SweepCommit
  <1>7. {"events", "complete", "sweep"} = Callbacks BY DEF Callbacks
  <1> QED BY <1>1, <1>3, <1>4, <1>5, <1>6, <1>7
      DEF Outside, Complete, CompleteRead, EventsRead, SweepRead

LEMMA TypeStep == TypeOK /\ [Next]_vars => TypeOK'
  <1> SUFFICES ASSUME TypeOK, [Next]_vars PROVE TypeOK'
    OBVIOUS
  <1>1. CASE DispatchPendingTasks
    <2>1. queue' \in [Attempts -> Nat] BY <1>1, PublishType DEF DispatchPendingTasks
    <2> QED BY <1>1, <2>1 DEF DispatchPendingTasks, TypeOK, history, users, money
  <1>2. CASE UNCHANGED vars
    BY <1>2 DEF TypeOK, vars, history, users, money
  <1> QED BY <1>1, <1>2, ConsumerType, DispatchType, UserType, OutsideType DEF Next

(* Whatever the environment does, every row, thread and transaction keeps   *)
(* its shape: no status is invented and no index leaves its table.          *)
THEOREM Typed == Spec => []TypeOK
  BY InitType, TypeStep, PTL DEF Spec

-----------------------------------------------------------------------------
(* Runs are not shared.  RunsNotShared is not inductive: a thread in the    *)
(* tail of a finish method goes back to its run when the tail throws, so    *)
(* it owns the run as long as it is guarded.                                *)

Owns(w) == \/ HoldsRun(w)
           \/ worker[w].pc = "tail" /\ worker[w].guarded

RunsOwned ==
  /\ \A w \in Workers : Owns(w) => worker[w].run \in 1..runCount
  /\ \A v, w \in Workers : Owns(v) /\ Owns(w) /\ worker[v].run = worker[w].run => v = w
  /\ \A w \in Workers : worker[w].pc = "queued" => ~worker[w].guarded

(* A thread that keeps its run or lets it go disturbs nobody. *)
LEMMA KeepsRun ==
  ASSUME TypeOK, RunsOwned, NEW w \in Workers, NEW x \in WorkerState,
         worker' = [worker EXCEPT ![w] = x], runCount' = runCount,
         Owns(w)' => Owns(w) /\ x.run = worker[w].run,
         x.pc = "queued" => ~x.guarded
  PROVE  RunsOwned'
  <1>1. worker'[w] = x /\ \A v \in Workers \ {w} : worker'[v] = worker[v]
    BY DEF TypeOK
  <1>2. \A v \in Workers \ {w} : Owns(v)' <=> Owns(v)
    BY <1>1 DEF Owns, HoldsRun
  <1> QED BY <1>1, <1>2 DEF RunsOwned

(* The inserted number is the one nobody owns yet: here the unique run      *)
(* number of the table matters.                                             *)
LEMMA InsertOwns ==
  ASSUME TypeOK, RunsOwned, NEW w \in Workers, Insert(w)
  PROVE  RunsOwned'
  <1>0. worker[w] \in WorkerState /\ worker[w].pc = "insert" BY WorkerFacts DEF Insert
  <1>1. CASE runCount = worker[w].run - 1
    <2> DEFINE x == [worker[w] EXCEPT !.pc = "bind", !.copy = task]
    <2>1. worker' = [worker EXCEPT ![w] = x] BY <1>1 DEF Insert, TypeOK
    <2>2. x.run = worker[w].run /\ x.pc = "bind" BY <1>0 DEF WorkerState
    <2> HIDE DEF x
    <2>3. worker'[w] = x /\ \A v \in Workers \ {w} : worker'[v] = worker[v]
      BY <2>1 DEF TypeOK
    <2>4. \A v \in Workers \ {w} : Owns(v)' <=> Owns(v)
      BY <2>3 DEF Owns, HoldsRun
    <2>5. runCount \in Nat /\ runCount' = runCount + 1 /\ worker[w].run = runCount + 1
      BY <1>1, WorkerFacts, ConstantsAssumption DEF Insert, TypeOK
    <2>6. \A v \in Workers \ {w} : Owns(v) => /\ worker[v].run \in 1..runCount'
                                           /\ worker[v].run # runCount + 1
      BY <2>5 DEF RunsOwned
    <2>7. worker'[w].run \in 1..runCount' /\ worker'[w].run = runCount + 1
      BY <2>2, <2>3, <2>5
    <2>8. \A v \in Workers : Owns(v)' => worker'[v].run \in 1..runCount'
      BY <2>3, <2>4, <2>6, <2>7
    <2>9. \A u, v \in Workers : Owns(u)' /\ Owns(v)' /\ worker'[u].run = worker'[v].run => u = v
      BY <2>3, <2>4, <2>6, <2>7 DEF RunsOwned
    <2>10. \A v \in Workers : worker'[v].pc = "queued" => ~worker'[v].guarded
      BY <2>2, <2>3 DEF RunsOwned
    <2> QED BY <2>8, <2>9, <2>10 DEF RunsOwned
  <1>2. CASE runCount # worker[w].run - 1
    <2> DEFINE x == [worker[w] EXCEPT !.pc = "queueFailed", !.run = 0]
    <2>1. worker' = [worker EXCEPT ![w] = x] /\ runCount' = runCount
      BY <1>2 DEF Insert, TypeOK
    <2>2. 0 \in 0..MaxRuns BY ConstantsAssumption
    <2>3. x \in WorkerState /\ x.pc = "queueFailed" BY <1>0, <2>2 DEF WorkerState, WorkerPCs
    <2> HIDE DEF x
    <2>4. ~Owns(w)' BY <2>1, <2>3 DEF Owns, HoldsRun, TypeOK
    <2> QED BY <2>1, <2>3, <2>4, KeepsRun
  <1> QED BY <1>1, <1>2

LEMMA DispatchOwns ==
  ASSUME TypeOK, RunsOwned, NEW w \in Workers, Dispatch(w) \/ Crash(w)
  PROVE  RunsOwned'
  <1> DEFINE k == worker[w]
  <1>0. k \in WorkerState BY WorkerFacts
  <1>i. IdleWorker \in WorkerState /\ IdleWorker.pc = "idle" BY Blanks DEF IdleWorker
  (* The thread is through with the dispatch. *)
  <1>1. ASSUME worker' = [worker EXCEPT ![w] = IdleWorker], runCount' = runCount
        PROVE  RunsOwned'
    <2>1. ~Owns(w)' BY <1>1, <1>i DEF Owns, HoldsRun, TypeOK
    <2> QED BY <1>1, <1>i, <2>1, KeepsRun
  (* The thread goes on with the run it owns. *)
  <1>2. ASSUME NEW x \in WorkerState, worker' = [worker EXCEPT ![w] = x], runCount' = runCount,
               Owns(w), x.run = k.run, x.pc # "queued"
        PROVE  RunsOwned'
    BY <1>2, KeepsRun
  <1>3. ASSUME NEW pc \in WorkerPCs \ {"queued"}, NEW v \in Terminal, Verdict(w, pc, v),
               runCount' = runCount, Owns(w)
        PROVE  RunsOwned'
    <2> DEFINE x == [k EXCEPT !.pc = pc, !.verdict = v]
    <2>1. worker' = [worker EXCEPT ![w] = x] BY <1>3 DEF Verdict, TypeOK
    <2>2. x \in WorkerState /\ x.run = k.run /\ x.pc = pc BY <1>0 DEF WorkerState
    <2> HIDE DEF x, k
    <2> QED BY <1>2, <1>3, <2>1, <2>2
  (* The thread only moves on. *)
  <1>4. ASSUME NEW pc \in WorkerPCs \ {"queued"}, worker' = [worker EXCEPT ![w].pc = pc],
               runCount' = runCount, Owns(w)
        PROVE  RunsOwned'
    <2> DEFINE x == [k EXCEPT !.pc = pc]
    <2>1. worker' = [worker EXCEPT ![w] = x] BY <1>4 DEF TypeOK
    <2>2. x \in WorkerState /\ x.run = k.run /\ x.pc = pc BY <1>0 DEF WorkerState
    <2> HIDE DEF x, k
    <2> QED BY <1>2, <1>4, <2>1, <2>2
  <1>5. ASSUME Start(w) PROVE RunsOwned'
    <2>1. runCount' = runCount /\ k.pc = "queued" /\ ~k.guarded BY <1>5 DEF Start, history, RunsOwned
    <2>2. CASE task.status # "RUNNING"
      BY <1>1, <1>5, <2>1, <2>2 DEF Start
    <2>3. CASE task.status = "RUNNING" /\ task.cancel
      <3> DEFINE x == [k EXCEPT !.pc = "tail", !.verdict = "CANCELED"]
      <3>1. worker' = [worker EXCEPT ![w] = x] BY <1>5, <2>3 DEF Start, TypeOK
      <3>2. x \in WorkerState /\ x.pc = "tail" /\ ~x.guarded
        BY <1>0, <2>1 DEF WorkerState, WorkerPCs, Terminal
      <3> HIDE DEF x
      <3>3. ~Owns(w)' BY <3>1, <3>2 DEF Owns, HoldsRun, TypeOK
      <3> QED BY <2>1, <3>1, <3>2, <3>3, KeepsRun
    <2>4. CASE task.status = "RUNNING" /\ ~task.cancel
      <3> DEFINE x == [k EXCEPT !.pc = "insert", !.run = runCount + 1]
      <3>1. worker' = [worker EXCEPT ![w] = x] BY <1>5, <2>4 DEF Start, TypeOK
      <3>2. runCount + 1 \in 0..MaxRuns
        <4>1. runCount \in 0..MaxRuns /\ runCount < MaxRuns /\ MaxRuns \in Nat
          BY <1>5, <2>4, ConstantsAssumption DEF Start, TypeOK
        <4> QED BY <4>1
      <3>3. x \in WorkerState /\ x.pc = "insert" BY <1>0, <3>2 DEF WorkerState, WorkerPCs
      <3> HIDE DEF x
      <3>4. ~Owns(w)' BY <3>1, <3>3 DEF Owns, HoldsRun, TypeOK
      <3> QED BY <2>1, <3>1, <3>3, <3>4, KeepsRun
    <2> QED BY <2>2, <2>3, <2>4 DEF TypeOK, TaskRow
  <1>6. ASSUME Bind(w) PROVE RunsOwned'
    <2> DEFINE bound == [k.copy EXCEPT !.status = "RUNNING", !.run = k.run]
               x == [k EXCEPT !.pc = "boundary", !.copy = bound, !.guarded = TRUE]
               y == [IdleWorker EXCEPT !.pc = "queueFailed"]
    <2>1. /\ worker' = [worker EXCEPT ![w] = x] \/ worker' = [worker EXCEPT ![w] = y]
          /\ runCount' = runCount
      BY <1>6 DEF Bind, TypeOK, history
    <2>2. bound \in TaskRow BY WorkerFacts, TaskWrites
    <2>3. x \in WorkerState /\ x.run = k.run /\ x.pc = "boundary"
      <3> HIDE DEF bound
      <3> QED BY <1>0, <2>2 DEF WorkerState, WorkerPCs
    <2>4. y \in WorkerState /\ y.pc = "queueFailed" BY <1>i DEF WorkerState, WorkerPCs
    <2>5. Owns(w) BY <1>6 DEF Bind, Owns, HoldsRun
    <2> HIDE DEF x, y, k, bound
    <2>6. CASE worker' = [worker EXCEPT ![w] = x] BY <1>2, <2>1, <2>3, <2>5, <2>6
    <2>7. CASE worker' = [worker EXCEPT ![w] = y]
      <3>1. ~Owns(w)' BY <2>4, <2>7 DEF Owns, HoldsRun, TypeOK
      <3> QED BY <2>1, <2>4, <2>7, <3>1, KeepsRun
    <2> QED BY <2>1, <2>6, <2>7
  <1>7. ASSUME Boundary(w) PROVE RunsOwned'
    <2>1. Owns(w) /\ runCount' = runCount BY <1>7 DEF Boundary, Owns, HoldsRun
    <2>2. CASE NoMoreSteps(w) \/ CancelSeen(w)
      <3>1. Verdict(w, "finish", "SUCCESS") \/ Verdict(w, "finish", "CANCELED")
        BY <2>2 DEF NoMoreSteps, CancelSeen
      <3>2. "finish" \in WorkerPCs \ {"queued"} /\ {"SUCCESS", "CANCELED"} \subseteq Terminal
        BY DEF WorkerPCs, Terminal
      <3> QED BY <1>3, <2>1, <3>1, <3>2
    <2>3. CASE BeginStep(w)
      <3>1. /\ worker' \in [Workers -> WorkerState]
            /\ worker' = [worker EXCEPT ![w] = worker'[w]]
            /\ worker'[w].run = k.run /\ worker'[w].pc = "announce"
        BY <2>3, <1>7, BoundaryType, <1>0 DEF BeginStep, TypeOK, WorkerState
      <3>2. worker'[w] \in WorkerState BY <3>1
      <3> HIDE DEF k
      <3> QED BY <1>2, <2>1, <3>1, <3>2
    <2> QED BY <1>7, <2>2, <2>3 DEF Boundary
  <1>8. ASSUME Announce(w) PROVE RunsOwned'
    <2> DEFINE pc == IF k.step \in AsyncSteps THEN "submit" ELSE "run"
    <2>1. pc \in WorkerPCs \ {"queued"} BY DEF WorkerPCs
    <2>2. worker' = [worker EXCEPT ![w].pc = pc] /\ runCount' = runCount /\ Owns(w)
      BY <1>8 DEF Announce, Owns, HoldsRun
    <2> HIDE DEF pc
    <2> QED BY <1>4, <2>1, <2>2
  <1>9. ASSUME CompleteStep(w) \/ EndStep(w, "FAILED") \/ EndStep(w, "CANCELED"),
               runCount' = runCount, Owns(w)
        PROVE  RunsOwned'
    <2>1. {"boundary", "finish"} \subseteq WorkerPCs \ {"queued"} /\ {"FAILED", "CANCELED"} \subseteq Terminal
      BY DEF WorkerPCs, Terminal
    <2>2. CASE CompleteStep(w) BY <1>4, <1>9, <2>1, <2>2 DEF CompleteStep
    <2>3. CASE EndStep(w, "FAILED") \/ EndStep(w, "CANCELED")
      BY <1>3, <1>9, <2>1, <2>3 DEF EndStep
    <2> QED BY <1>9, <2>2, <2>3
  <1>10. ASSUME RunAgent(w) \/ Await(w) PROVE RunsOwned'
    <2>1. Owns(w) /\ runCount' = runCount BY <1>10 DEF RunAgent, Await, Owns, HoldsRun
    <2> QED BY <1>9, <1>10, <2>1 DEF RunAgent, Await
  <1>11. ASSUME Submit(w) PROVE RunsOwned'
    <2>1. Owns(w) /\ runCount' = runCount BY <1>11 DEF Submit, Owns, HoldsRun
    <2>2. CASE SubmitRunner(w)
      <3>1. "await" \in WorkerPCs \ {"queued"} BY DEF WorkerPCs
      <3> QED BY <1>4, <2>1, <2>2, <3>1 DEF SubmitRunner
    <2> QED BY <1>9, <1>11, <2>1, <2>2 DEF Submit
  <1>12. ASSUME Finish(w) PROVE RunsOwned'
    <2>1. Owns(w) /\ runCount' = runCount /\ worker' = [worker EXCEPT ![w].pc = "tail"]
      BY <1>12 DEF Finish, Owns, HoldsRun
    <2>2. "tail" \in WorkerPCs \ {"queued"} BY DEF WorkerPCs
    <2> QED BY <1>4, <2>1, <2>2
  <1>13. ASSUME Tail(w) PROVE RunsOwned'
    <2>1. runCount' = runCount /\ k.pc = "tail" BY <1>13 DEF Tail
    <2>2. CASE TailFailed(w) /\ k.guarded
      <3> DEFINE x == [k EXCEPT !.pc = "finish", !.verdict = "FAILED", !.guarded = FALSE]
      <3>1. worker' = [worker EXCEPT ![w] = x] BY <2>2 DEF TailFailed, TypeOK
      <3>2. x \in WorkerState /\ x.run = k.run /\ x.pc = "finish"
        BY <1>0 DEF WorkerState, WorkerPCs, Terminal
      <3>3. Owns(w) BY <2>1, <2>2 DEF Owns
      <3> HIDE DEF x, k
      <3> QED BY <1>2, <2>1, <3>1, <3>2, <3>3
    <2>3. CASE TailFailed(w) /\ ~k.guarded
      <3> DEFINE x == [k EXCEPT !.pc = "queueFailed"]
      <3>1. worker' = [worker EXCEPT ![w] = x] BY <2>3 DEF TailFailed, TypeOK
      <3>2. x \in WorkerState /\ x.pc = "queueFailed" BY <1>0 DEF WorkerState, WorkerPCs
      <3> HIDE DEF x
      <3>3. ~Owns(w)' BY <3>1, <3>2 DEF Owns, HoldsRun, TypeOK
      <3> QED BY <2>1, <3>1, <3>2, <3>3, KeepsRun
    <2> QED BY <1>1, <1>13, <2>1, <2>2, <2>3 DEF Tail
  <1>14. ASSUME QueueFailed(w) \/ Crash(w) PROVE RunsOwned'
    BY <1>1, <1>14 DEF QueueFailed, Crash, history
  <1> QED
    BY <1>5, InsertOwns, <1>6, <1>7, <1>8, <1>10, <1>11, <1>12, <1>13, <1>14 DEF Dispatch

LEMMA RunsStep == TypeOK /\ RunsOwned /\ [Next]_vars => RunsOwned'
  <1> SUFFICES ASSUME TypeOK, RunsOwned, [Next]_vars PROVE RunsOwned'
    OBVIOUS
  <1>1. ASSUME UNCHANGED <<worker, runCount>> PROVE RunsOwned'
    BY <1>1 DEF RunsOwned, Owns, HoldsRun
  <1>2. ASSUME NEW c \in Consumers, NEW w \in Workers, NEW a \in Attempts, Claim(c, w, a)
        PROVE  RunsOwned'
    <2> DEFINE x == [IdleWorker EXCEPT !.pc = "queued"]
    <2>1. worker' = [worker EXCEPT ![w] = x] /\ runCount' = runCount
      BY <1>2 DEF Claim, history
    <2>2. x \in WorkerState /\ x.pc = "queued" /\ ~x.guarded
      BY Blanks DEF WorkerState, WorkerPCs, IdleWorker
    <2> HIDE DEF x
    <2>3. ~Owns(w)' BY <2>1, <2>2 DEF Owns, HoldsRun, TypeOK
    <2> QED BY <2>1, <2>2, <2>3, KeepsRun
  <1>3. ASSUME NEW c \in Consumers, Consume(c) PROVE RunsOwned'
    BY <1>1, <1>2, <1>3 DEF Consume, Reject, Skip, ClaimError, MarkTaskRetrying, PublishRetry,
       PublishDeadLetter, MarkTaskQueueFailed, history
  <1>4. ASSUME NEW q \in Requests, User(q) PROVE RunsOwned'
    BY <1>1, <1>4, UserLeaves
  <1>5. ASSUME Outside PROVE RunsOwned'
    BY <1>1, <1>5, OutsideLeaves DEF Untouched
  <1>6. CASE DispatchPendingTasks
    BY <1>1, <1>6 DEF DispatchPendingTasks, history
  <1>7. CASE UNCHANGED vars
    BY <1>1, <1>7 DEF vars, history
  <1> QED BY <1>3, <1>4, <1>5, <1>6, <1>7, DispatchOwns DEF Next

(* However often claims go wrong, signals are repeated or threads die, two  *)
(* threads never work on the same run.                                      *)
THEOREM RunsAreNotShared == Spec => []RunsNotShared
  <1>1. Init => RunsOwned
    BY DEF Init, RunsOwned, Owns, HoldsRun, IdleWorker
  <1>2. RunsOwned => RunsNotShared
    BY DEF RunsOwned, RunsNotShared, Owns
  <1> QED BY <1>1, <1>2, Typed, RunsStep, PTL DEF Spec

-----------------------------------------------------------------------------
(* One dispatcher at a time.  A thread that holds the task and a consumer   *)
(* that handles its failure are one token: while it is out the task waits   *)
(* for nobody, so the claiming update finds nothing to claim, and once a    *)
(* run exists nobody makes the task wait again: the copies of the task that *)
(* runners and the watchdog write back were read later than that.  What     *)
(* breaks this is a retry, and a consumer that fails without a claim.       *)

Held(w) == worker[w].pc # "idle"
UsesCopy(w) == worker[w].pc \in {"boundary", "announce", "run", "submit", "await"}

Stepped == \A r \in Runs, s \in StepNos : steps[r][s].status = "RUNNING" => runCount # 0

OneToken ==
  /\ \A v, w \in Workers : Held(v) /\ Held(w) => v = w
  /\ \A c, d \in Consumers : Failing(c) /\ Failing(d) => c = d
  /\ \A w \in Workers, c \in Consumers : ~(Held(w) /\ Failing(c))
  /\ \A w \in Workers : Held(w) => task.status \notin Waiting
  /\ \A c \in Consumers : Failing(c) => task.status \notin Waiting
  /\ \A w \in Workers : UsesCopy(w) => worker[w].copy.status \notin Waiting
  /\ \A q \in Requests : request[q].pc # "retry"
  /\ runCount # 0 =>
       /\ task.status \notin Waiting
       /\ \A c \in Consumers : ~Failing(c)
       /\ \A w \in Workers : worker[w].pc \notin {"queued", "insert"}
  /\ Stepped
  /\ \A k \in Callbacks : Busy(k) => runCount # 0 /\ callback[k].copy.status \notin Waiting

ClaimsRespected == Env \cap {"dbError", "retry"} = {}

(* A dispatch does not go back to where a run is about to be inserted. *)
LEMMA ClaimUsed ==
  ASSUME TypeOK, NEW w \in Workers, Dispatch(w) \/ Crash(w)
  PROVE  worker'[w].pc \in {"queued", "insert"} => worker[w].pc = "queued" /\ runCount' = runCount
  <1>1. worker[w] \in WorkerState /\ worker' \in [Workers -> WorkerState]
    BY WorkerFacts, TypeStep DEF TypeOK, Next
  <1>2. IdleWorker.pc = "idle" BY DEF IdleWorker
  <1>3. CASE Start(w) BY <1>3 DEF Start, history
  <1>4. CASE Insert(w) BY <1>1, <1>4 DEF Insert, TypeOK, WorkerState
  <1>5. CASE Bind(w) BY <1>1, <1>5 DEF Bind, TypeOK, WorkerState
  <1>6. CASE Boundary(w)
    BY <1>1, <1>6 DEF Boundary, NoMoreSteps, CancelSeen, BeginStep, Verdict, TypeOK, WorkerState
  <1>7. CASE Announce(w) BY <1>1, <1>7 DEF Announce, TypeOK, WorkerState
  <1>8. CASE RunAgent(w) \/ Submit(w) \/ Await(w)
    <2>1. CompleteStep(w) \/ SubmitRunner(w) \/ EndStep(w, "FAILED") \/ EndStep(w, "CANCELED")
      BY <1>8 DEF RunAgent, Submit, Await
    <2>2. CASE CompleteStep(w) BY <1>1, <2>2 DEF CompleteStep, TypeOK, WorkerState
    <2>3. CASE SubmitRunner(w) BY <1>1, <2>3 DEF SubmitRunner, TypeOK, WorkerState
    <2>4. CASE EndStep(w, "FAILED") \/ EndStep(w, "CANCELED")
      <3>1. Verdict(w, "finish", "FAILED") \/ Verdict(w, "finish", "CANCELED")
        BY <2>4 DEF EndStep
      <3> QED BY <1>1, <3>1 DEF Verdict, TypeOK, WorkerState
    <2> QED BY <2>1, <2>2, <2>3, <2>4
  <1>9. CASE Finish(w) BY <1>1, <1>9 DEF Finish, TypeOK, WorkerState
  <1>10. CASE Tail(w)
    <2>1. CASE worker' = [worker EXCEPT ![w] = IdleWorker] BY <1>2, <2>1 DEF TypeOK
    <2>2. CASE TailFailed(w) BY <1>1, <2>2 DEF TailFailed, TypeOK, WorkerState
    <2> QED BY <1>10, <2>1, <2>2 DEF Tail
  <1>11. CASE QueueFailed(w) \/ Crash(w)
    BY <1>1, <1>2, <1>11 DEF QueueFailed, Crash, TypeOK
  <1> QED BY <1>3, <1>4, <1>5, <1>6, <1>7, <1>8, <1>9, <1>10, <1>11 DEF Dispatch

(* The thread with the token goes on, or puts it down. *)
LEMMA TokenKept ==
  ASSUME OneToken, NEW w \in Workers, Held(w), task'.status \notin Waiting,
         \A v \in Workers \ {w} : worker'[v] = worker[v],
         UsesCopy(w)' => worker'[w].copy.status \notin Waiting,
         worker'[w].pc \in {"queued", "insert"} => runCount' = 0,
         runCount # 0 => runCount' # 0, Stepped',
         UNCHANGED <<consumer, request, callback>>
  PROVE  OneToken'
  BY DEF OneToken, Held, Failing, UsesCopy, Busy

(* A step is RUNNING only in a run that was inserted. *)
LEMMA DispatchStepped ==
  ASSUME TypeOK, RunsOwned, Stepped, NEW w \in Workers, Dispatch(w) \/ Crash(w)
  PROVE  (runCount # 0 => runCount' # 0) /\ Stepped'
  <1>1. runCount \in Nat BY ConstantsAssumption DEF TypeOK
  <1>2. runCount' = runCount \/ runCount' = runCount + 1
    BY DEF Dispatch, Start, Insert, Bind, Boundary, Announce, RunAgent, Submit, Await, Finish,
       Tail, QueueFailed, Crash, history
  <1>3. CASE runCount' = 0
    <2>1. runCount = 0 BY <1>1, <1>2, <1>3
    <2>2. ~HoldsRun(w) BY <2>1 DEF RunsOwned, Owns
    <2>3. UNCHANGED steps
      BY <2>2 DEF HoldsRun, Dispatch, Start, Insert, Bind, Boundary, Announce, RunAgent, Submit,
         Await, Finish, Tail, QueueFailed, Crash, history
    <2> QED BY <1>3, <2>1, <2>3 DEF Stepped
  <1>4. CASE runCount' # 0 BY <1>4 DEF Stepped
  <1> QED BY <1>3, <1>4

LEMMA DispatchToken ==
  ASSUME TypeOK, RunsOwned, OneToken, NEW w \in Workers, Dispatch(w) \/ Crash(w)
  PROVE  OneToken'
  <1>1. worker[w] \in WorkerState /\ worker' \in [Workers -> WorkerState]
    BY WorkerFacts, DispatchType DEF TypeOK
  <1>2. \A v \in Workers \ {w} : worker'[v] = worker[v]
    BY DEF TypeOK, Dispatch, Start, Insert, Bind, Boundary, NoMoreSteps, CancelSeen, BeginStep,
       Announce, RunAgent, Submit, SubmitRunner, Await, CompleteStep, EndStep, Verdict, Finish,
       Tail, TailFailed, QueueFailed, Crash
  <1>3. UNCHANGED <<consumer, request, callback>>
    BY DEF Dispatch, Start, Insert, Bind, Boundary, Announce, RunAgent, Submit, Await, Finish,
       Tail, QueueFailed, Crash, users
  <1>4. Held(w)
    BY DEF Held, Dispatch, Start, Insert, Bind, Boundary, Announce, RunAgent, Submit, Await,
       Finish, Tail, QueueFailed, Crash
  <1>5. task.status \notin Waiting /\ (UsesCopy(w) => worker[w].copy.status \notin Waiting)
    BY <1>4 DEF OneToken
  <1>6. IdleWorker.pc = "idle" BY DEF IdleWorker
  <1>7. "CANCELED" \notin Waiting /\ "FAILED" \notin Waiting /\ "RUNNING" \notin Waiting
        /\ Terminal \cap Waiting = {}
    BY DEF Waiting, Terminal
  <1>18. /\ runCount # 0 => runCount' # 0
         /\ Stepped'
         /\ worker'[w].pc \in {"queued", "insert"} => runCount' = 0
    <2>1. worker[w].pc = "queued" => runCount = 0 BY DEF OneToken
    <2>2. Stepped BY DEF OneToken
    <2> QED BY <2>1, <2>2, ClaimUsed, DispatchStepped
  <1>8. CASE Start(w)
    <2>1. task'.status \notin Waiting BY <1>5, <1>7, <1>8 DEF Start, TypeOK, TaskRow
    <2>2. ~UsesCopy(w)' BY <1>1, <1>6, <1>8 DEF Start, UsesCopy, TypeOK, WorkerState
    <2> QED BY <1>2, <1>3, <1>18, <1>4, <2>1, <2>2, TokenKept
  <1>9. CASE Insert(w)
    <2>1. ~UsesCopy(w)' BY <1>1, <1>9 DEF Insert, UsesCopy, TypeOK, WorkerState
    <2> QED BY <1>2, <1>3, <1>18, <1>4, <1>5, <1>9, <2>1, TokenKept DEF Insert
  <1>10. CASE Bind(w)
    <2>1. task'.status = "RUNNING"
      BY <1>1, <1>10 DEF Bind, WorkerState, TaskRow
    <2>2. UsesCopy(w)' => worker'[w].copy.status = "RUNNING"
      <3>1. \/ worker'[w].copy = task'
            \/ worker'[w].pc = "queueFailed"
        BY <1>1, <1>10 DEF Bind, TypeOK, WorkerState, IdleWorker
      <3> QED BY <2>1, <3>1 DEF UsesCopy
    <2> QED BY <1>2, <1>3, <1>18, <1>4, <1>7, <2>1, <2>2, TokenKept
  <1>11. CASE Boundary(w)
    <2>1. UsesCopy(w) /\ task' = task BY <1>11 DEF Boundary, UsesCopy
    <2>2. worker'[w].copy = worker[w].copy \/ worker'[w].copy = task
      BY <1>1, <1>11 DEF Boundary, NoMoreSteps, CancelSeen, BeginStep, Verdict, TypeOK, WorkerState
    <2> QED BY <1>2, <1>3, <1>18, <1>4, <1>5, <2>1, <2>2, TokenKept
  <1>12. CASE Announce(w)
    <2>1. UsesCopy(w) /\ task' = worker[w].copy /\ worker'[w].copy = worker[w].copy
      BY <1>1, <1>12 DEF Announce, UsesCopy, TypeOK, WorkerState
    <2> QED BY <1>2, <1>3, <1>18, <1>4, <1>5, <2>1, TokenKept
  <1>13. CASE RunAgent(w) \/ Submit(w) \/ Await(w)
    <2>1. UsesCopy(w) BY <1>13 DEF RunAgent, Submit, Await, UsesCopy
    <2>2. task' = task \/ task' = worker[w].copy
      BY <1>13 DEF RunAgent, Submit, SubmitRunner, Await, CompleteStep, EndStep
    <2>3. \/ \E pc \in WorkerPCs : worker' = [worker EXCEPT ![w].pc = pc]
          \/ \E v \in Terminal : Verdict(w, "finish", v)
      <3>1. {"boundary", "await"} \subseteq WorkerPCs /\ {"FAILED", "CANCELED"} \subseteq Terminal
        BY DEF WorkerPCs, Terminal
      <3>2. CompleteStep(w) \/ SubmitRunner(w) \/ EndStep(w, "FAILED") \/ EndStep(w, "CANCELED")
        BY <1>13 DEF RunAgent, Submit, Await
      <3> QED BY <3>1, <3>2 DEF CompleteStep, SubmitRunner, EndStep
    <2>4. worker'[w].copy = worker[w].copy
      BY <1>1, <2>3 DEF Verdict, TypeOK, WorkerState
    <2> QED BY <1>2, <1>3, <1>18, <1>4, <1>5, <2>1, <2>2, <2>4, TokenKept
  <1>14. CASE Finish(w)
    <2>1. task'.status = worker[w].verdict /\ worker[w].verdict \in Terminal
      BY <1>1, <1>14 DEF Finish, WorkerState
    <2>2. ~UsesCopy(w)' BY <1>1, <1>14 DEF Finish, UsesCopy, TypeOK, WorkerState
    <2> QED BY <1>2, <1>3, <1>18, <1>4, <1>7, <2>1, <2>2, TokenKept
  <1>15. CASE Tail(w)
    <2>1. worker'[w].pc \in {"idle", "finish", "queueFailed"}
      <3>1. CASE worker' = [worker EXCEPT ![w] = IdleWorker] BY <1>6, <3>1 DEF TypeOK
      <3>2. CASE TailFailed(w) BY <1>1, <3>2 DEF TailFailed, TypeOK, WorkerState
      <3> QED BY <1>15, <3>1, <3>2 DEF Tail
    <2>2. ~UsesCopy(w)' BY <2>1 DEF UsesCopy
    <2> QED BY <1>2, <1>3, <1>18, <1>4, <1>5, <1>15, <2>2, TokenKept DEF Tail
  <1>16. CASE QueueFailed(w)
    <2>1. task'.status = "FAILED" BY <1>16 DEF QueueFailed, TypeOK, TaskRow
    <2>2. ~UsesCopy(w)' BY <1>1, <1>6, <1>16 DEF QueueFailed, UsesCopy, TypeOK
    <2> QED BY <1>2, <1>3, <1>18, <1>4, <1>7, <2>1, <2>2, TokenKept
  <1>17. CASE Crash(w)
    <2>1. ~UsesCopy(w)' BY <1>1, <1>6, <1>17 DEF Crash, UsesCopy, TypeOK
    <2> QED BY <1>2, <1>3, <1>18, <1>4, <1>5, <1>17, <2>1, TokenKept DEF Crash
  <1> QED BY <1>8, <1>9, <1>10, <1>11, <1>12, <1>13, <1>14, <1>15, <1>16, <1>17 DEF Dispatch

LEMMA ConsumerToken ==
  ASSUME TypeOK, OneToken, ClaimsRespected, NEW c \in Consumers, Consume(c)
  PROVE  OneToken'
  <1> USE DEF Waiting
  <1>0. UNCHANGED <<request, callback, runCount, steps>> /\ task \in TaskRow
    BY DEF history,  Consume, Reject, Skip, ClaimError, Claim, MarkTaskRetrying, PublishRetry,
       PublishDeadLetter, MarkTaskQueueFailed, users, TypeOK
  <1>1. ASSUME NEW a \in Attempts, Claimable(a)
        PROVE  /\ runCount = 0
               /\ \A w \in Workers : ~Held(w)
               /\ \A d \in Consumers : ~Failing(d)
    BY <1>1 DEF Claimable, OneToken
  <1>2. ASSUME NEW a \in Attempts, NEW w \in Workers, Claim(c, w, a) PROVE OneToken'
    <2>1. task'.status = "RUNNING" /\ UNCHANGED consumer BY <1>0, <1>2 DEF Claim, TaskRow
    <2>2. /\ \A v \in Workers \ {w} : worker'[v] = worker[v]
          /\ worker'[w].pc = "queued"
      BY <1>2 DEF Claim, TypeOK, IdleWorker
    <2>3. runCount = 0 /\ (\A v \in Workers : ~Held(v)) /\ (\A d \in Consumers : ~Failing(d))
      BY <1>1, <1>2 DEF Claim
    <2> QED BY <1>0, <2>1, <2>2, <2>3 DEF OneToken, Held, Failing, UsesCopy, Stepped, Busy
  <1>3. ASSUME NEW a \in Attempts, Reject(c, a) PROVE OneToken'
    <2>1. task'.status = "RUNNING" /\ UNCHANGED worker BY <1>0, <1>3 DEF Reject, TaskRow
    <2>2. \A d \in Consumers \ {c} : consumer'[d] = consumer[d]
      BY <1>3 DEF Reject, TypeOK
    <2>3. runCount = 0 /\ (\A v \in Workers : ~Held(v)) /\ (\A d \in Consumers : ~Failing(d))
      BY <1>1, <1>3 DEF Reject
    <2> QED BY <1>0, <2>1, <2>2, <2>3 DEF OneToken, Held, Failing, UsesCopy, Stepped, Busy
  <1>4. ASSUME NEW a \in Attempts, Skip(c, a) PROVE OneToken'
    BY <1>0, <1>4 DEF Skip, OneToken, Held, Failing, UsesCopy, Stepped, Busy
  <1>5. ASSUME NEW a \in Attempts PROVE ~ClaimError(c, a)
    BY DEF ClaimError, ClaimsRespected
  (* The consumer's own token. *)
  <1>6. ASSUME MarkTaskRetrying(c) \/ MarkTaskQueueFailed(c) PROVE OneToken'
    <2>1. Failing(c) /\ UNCHANGED worker /\ runCount = 0
      BY <1>6 DEF Failing, MarkTaskRetrying, MarkTaskQueueFailed, OneToken
    <2>2. /\ consumer'[c].pc \in {"republish", "idle"}
          /\ \A d \in Consumers \ {c} : consumer'[d] = consumer[d]
      BY <1>6 DEF MarkTaskRetrying, MarkTaskQueueFailed, TypeOK, ConsumerState, IdleConsumer
    <2>3. (\A v \in Workers : ~Held(v)) /\ (\A d \in Consumers \ {c} : ~Failing(d))
      BY <2>1 DEF OneToken
    <2>4. (\A v \in Workers : ~Held(v)') /\ (\A d \in Consumers : ~Failing(d)')
      BY <2>1, <2>2, <2>3 DEF Held, Failing
    <2> QED BY <1>0, <2>1, <2>4 DEF OneToken, Held, UsesCopy, Stepped, Busy
  <1>7. ASSUME PublishRetry(c) \/ PublishDeadLetter(c) PROVE OneToken'
    <2>1. UNCHANGED <<worker, task>>
      BY <1>7 DEF PublishRetry, PublishDeadLetter
    <2>2. \A d \in Consumers : Failing(d)' => Failing(d)
      BY <1>7 DEF PublishRetry, PublishDeadLetter, Requeue, Failing, TypeOK, ConsumerState, IdleConsumer
    <2> QED BY <1>0, <2>1, <2>2 DEF OneToken, Held, UsesCopy, Stepped, Busy
  <1> QED BY <1>2, <1>3, <1>4, <1>5, <1>6, <1>7 DEF Consume

LEMMA UserToken ==
  ASSUME TypeOK, OneToken, ClaimsRespected, NEW q \in Requests, User(q)
  PROVE  OneToken'
  <1>0. UNCHANGED <<worker, consumer, callback, runCount>> /\ request \in [Requests -> RequestState]
    BY DEF User, CancelRead, RetryRead, Open, CancelCommit, RetryCommit, history, TypeOK
  <1>1. request[q].copy \in TaskRow /\ \A p \in Requests \ {q} : request'[p] = request[p]
    BY DEF User, CancelRead, RetryRead, Open, CancelCommit, RetryCommit, TypeOK, RequestState
  <1>2. ASSUME task'.status \notin Waiting \/ UNCHANGED task, Stepped', request'[q].pc # "retry"
        PROVE  OneToken'
    BY <1>0, <1>1, <1>2 DEF OneToken, Held, Failing, UsesCopy, Busy
  <1>3. ASSUME CancelRead(q) PROVE OneToken'
    <2>1. request'[q].pc = "cancel" /\ UNCHANGED <<task, steps>>
      BY <1>0, <1>3 DEF CancelRead, Open, history
    <2> QED BY <1>0, <1>2, <2>1 DEF OneToken, Stepped
  <1>4. ASSUME CancelCommit(q) PROVE OneToken'
    <2>1. task'.status \notin Waiting
      BY <1>1, <1>4 DEF CancelCommit, CancelPending, CancelLiveStep, RequestCancel, TaskRow, Waiting
    <2>2. request'[q].pc = "idle" BY <1>0, <1>4 DEF CancelCommit, IdleRequest
    <2>3. Stepped'
      <3>1. CASE CancelPending(q) \/ RequestCancel(q)
        BY <1>0, <3>1 DEF CancelPending, RequestCancel, OneToken, Stepped
      <3>2. CASE CancelLiveStep(q)
        <4>1. LiveStep(q) BY <3>2 DEF CancelLiveStep
        <4>2. runCount # 0 BY <4>1, LiveStepIsThere DEF OneToken, Stepped
        <4> QED BY <1>0, <4>2 DEF Stepped
      <3> QED BY <1>4, <3>1, <3>2 DEF CancelCommit
    <2> QED BY <1>2, <2>1, <2>2, <2>3
  <1>5. ~RetryRead(q) BY DEF RetryRead, ClaimsRespected
  <1>6. ~RetryCommit(q) BY DEF RetryCommit, OneToken
  <1> QED BY <1>3, <1>4, <1>5, <1>6 DEF User

LEMMA OutsideToken ==
  ASSUME TypeOK, OneToken, Outside
  PROVE  OneToken'
  <1>0. UNCHANGED <<worker, consumer, request, runCount>>
    BY OutsideLeaves DEF Untouched
  <1>1. ASSUME task'.status \notin Waiting \/ UNCHANGED task, runCount # 0,
               \A k \in Callbacks : Busy(k)' => callback'[k].copy.status \notin Waiting
        PROVE  OneToken'
    BY <1>0, <1>1 DEF OneToken, Held, Failing, UsesCopy, Stepped
  <1>2. callback \in [Callbacks -> CallbackState] /\ NoCallback.step = 0
    BY DEF TypeOK, NoCallback
  (* Reading a step that is RUNNING: the task does not wait. *)
  <1>3. ASSUME NEW k \in Callbacks, NEW r \in Runs, NEW s \in StepNos, NEW early \in BOOLEAN,
               ReadStep(k, r, s, early)
        PROVE  OneToken'
    <2>1. runCount # 0 /\ task.status \notin Waiting /\ UNCHANGED task
      BY <1>3 DEF ReadStep, OneToken, Stepped
    <2>2. callback'[k].copy = task /\ \A l \in Callbacks \ {k} : callback'[l] = callback[l]
      BY <1>2, <1>3 DEF ReadStep
    <2> QED BY <1>1, <2>1, <2>2 DEF OneToken, Busy
  (* Writing back what was read. *)
  <1>4. ASSUME NEW k \in Callbacks, Busy(k), callback' = [callback EXCEPT ![k] = NoCallback],
               task' = task \/ task' = callback[k].copy \/ task'.status \notin Waiting
        PROVE  OneToken'
    <2>1. runCount # 0 /\ task'.status \notin Waiting
      BY <1>4 DEF OneToken
    <2>2. ~Busy(k)' /\ \A l \in Callbacks \ {k} : callback'[l] = callback[l]
      BY <1>2, <1>4 DEF Busy
    <2> QED BY <1>1, <2>1, <2>2 DEF OneToken, Busy
  <1>5. "events" \in Callbacks /\ "complete" \in Callbacks /\ "sweep" \in Callbacks
        /\ FALSE \in BOOLEAN
    BY DEF Callbacks
  <1>6. ASSUME NEW r \in Runs, NEW s \in StepNos PROVE CompleteRead(r, s) => OneToken'
    BY <1>3, <1>5 DEF CompleteRead
  <1>7. ASSUME NEW r \in Runs, NEW s \in StepNos PROVE SweepRead(r, s) => OneToken'
    BY <1>3, <1>5 DEF SweepRead
  <1>8. ASSUME NEW r \in Runs, NEW s \in StepNos, NEW early \in BOOLEAN, EventsRead(r, s, early)
        PROVE  OneToken'
    BY <1>3, <1>5, <1>8 DEF EventsRead
  <1>9. ASSUME NEW r \in Runs, NEW s \in StepNos, NEW status \in Terminal,
               CompleteAtOnce(r, s, status)
        PROVE  OneToken'
    <2>1. runCount # 0 /\ UNCHANGED <<task, callback>>
      BY <1>9 DEF CompleteAtOnce, OneToken, Stepped
    <2> QED BY <1>1, <2>1 DEF OneToken, Busy
  <1>10. ASSUME NEW status \in Terminal, CompleteCommit(status) PROVE OneToken'
    BY <1>4, <1>5, <1>10 DEF CompleteCommit, WriteBack
  <1>11. ASSUME EventsCommit PROVE OneToken'
    BY <1>4, <1>5, <1>11 DEF EventsCommit, WriteBack
  <1>12. ASSUME SweepCommit PROVE OneToken'
    <2>1. callback["sweep"].copy \in TaskRow BY <1>2, <1>5 DEF CallbackState
    <2>2. task'.status \notin Waiting BY <1>12, <2>1 DEF SweepCommit, TaskRow, Waiting
    <2> QED BY <1>4, <1>5, <1>12, <2>2 DEF SweepCommit, WriteBack
  <1> QED BY <1>6, <1>7, <1>8, <1>9, <1>10, <1>11, <1>12 DEF Outside, Complete

LEMMA TokenStep == ClaimsRespected /\ TypeOK /\ RunsOwned /\ OneToken /\ [Next]_vars => OneToken'
  <1> SUFFICES ASSUME ClaimsRespected, TypeOK, RunsOwned, OneToken, [Next]_vars PROVE OneToken'
    OBVIOUS
  <1>1. CASE DispatchPendingTasks
    BY <1>1 DEF DispatchPendingTasks, OneToken, Held, Failing, UsesCopy, Stepped, Busy, users, history
  <1>2. CASE UNCHANGED vars
    BY <1>2 DEF vars, OneToken, Held, Failing, UsesCopy, Stepped, Busy, users, history
  <1> QED BY <1>1, <1>2, ConsumerToken, DispatchToken, UserToken, OutsideToken DEF Next

LEMMA TokenInit == Init => OneToken
  BY DEF Init, OneToken, Held, Failing, UsesCopy, Busy, Stepped, IdleWorker, IdleConsumer,
     IdleRequest, NoCallback, NoStep

LEMMA RunsOwnedInit == Init => RunsOwned
  BY DEF Init, RunsOwned, Owns, HoldsRun, IdleWorker

LEMMA TokenInv ==
  ASSUME ClaimsRespected
  PROVE  Spec => [](TypeOK /\ RunsOwned /\ OneToken)
  <1>1. TypeOK /\ RunsOwned /\ OneToken /\ [Next]_vars => OneToken'
    BY TokenStep
  <1> QED BY <1>1, TokenInit, RunsOwnedInit, RunsStep, Typed, PTL DEF Spec

-----------------------------------------------------------------------------
(* Submissions.  What is Claimed can still become a run: together it is     *)
(* worth one submission not yet used.                                       *)

(* Nobody but a retry makes a waiting task out of one that is not. *)
CountsOn == task'.status \in Waiting => Claimed \/ submitted' = submitted + 1

(* What a dispatch writes on the task waits only if its copy did.           *)
LEMMA DispatchWrites ==
  ASSUME TypeOK, NEW w \in Workers, Dispatch(w) \/ Crash(w),
         UsesCopy(w) => worker[w].copy.status \notin Waiting
  PROVE  task' = task \/ task'.status \notin Waiting
  <1>1. worker[w] \in WorkerState
    BY WorkerFacts
  <1>2. "CANCELED" \notin Waiting /\ "FAILED" \notin Waiting /\ "RUNNING" \notin Waiting
        /\ Terminal \cap Waiting = {}
    BY DEF Waiting, Terminal
  <1>3. CASE Start(w) \/ QueueFailed(w)
    BY <1>2, <1>3 DEF Start, QueueFailed, TypeOK, TaskRow
  <1>4. CASE Insert(w) \/ Boundary(w) \/ Tail(w) \/ Crash(w)
    BY <1>4 DEF Insert, Boundary, Tail, Crash
  <1>5. CASE Bind(w)
    BY <1>1, <1>2, <1>5 DEF Bind, WorkerState, TaskRow
  <1>6. CASE Announce(w) \/ RunAgent(w) \/ Submit(w) \/ Await(w)
    <2>1. UsesCopy(w)
      BY <1>6 DEF UsesCopy, Announce, RunAgent, Submit, Await
    <2> QED BY <1>6, <2>1 DEF Announce, RunAgent, Submit, SubmitRunner, Await, CompleteStep, EndStep
  <1>7. CASE Finish(w)
    BY <1>1, <1>2, <1>7 DEF Finish, WorkerState
  <1> QED BY <1>3, <1>4, <1>5, <1>6, <1>7 DEF Dispatch

(* That is so while no copy of a waiting task is about to be written back.  *)
LEMMA CountsIf ==
  ASSUME TypeOK, [Next]_vars,
         \A w \in Workers : UsesCopy(w) => worker[w].copy.status \notin Waiting,
         \A k \in Callbacks : Busy(k) => callback[k].copy.status \notin Waiting
  PROVE  CountsOn
  <1>1. ASSUME task'.status \in Waiting, ~Claimed PROVE submitted' = submitted + 1
    <2>1. task \in TaskRow /\ task'.status # task.status /\ task' # task
      BY <1>1 DEF Claimed, TypeOK
    <2>2. "RUNNING" \notin Waiting /\ "CANCELED" \notin Waiting /\ "FAILED" \notin Waiting
      BY DEF Waiting
    <2>3. \A w \in Workers : ~Dispatch(w) /\ ~Crash(w)
      BY <1>1, <2>1, DispatchWrites
    <2>4. ASSUME NEW c \in Consumers PROVE ~Consume(c)
      <3>1. \A a \in Attempts : ~Claimable(a)
        BY <1>1 DEF Claimable, Claimed, Waiting
      <3>2. ~MarkTaskRetrying(c) /\ ~MarkTaskQueueFailed(c)
        BY <1>1 DEF Claimed, Failing, MarkTaskRetrying, MarkTaskQueueFailed
      <3> QED BY <2>1, <3>1, <3>2 DEF Consume, Reject, Skip, ClaimError, Claim, PublishRetry, PublishDeadLetter
    <2>5. ~Outside
      <3>1. ASSUME SweepCommit PROVE FALSE
        <4>1. callback["sweep"].copy \in TaskRow BY DEF TypeOK, CallbackState, Callbacks
        <4> QED BY <1>1, <2>2, <3>1, <4>1 DEF SweepCommit, TaskRow
      <3>2. ~EventsCommit /\ \A status \in Terminal : ~CompleteCommit(status)
        BY <1>1, <2>1 DEF EventsCommit, CompleteCommit, Callbacks
      <3>3. \A r \in Runs, s \in StepNos :
              /\ ~CompleteRead(r, s) /\ ~SweepRead(r, s)
              /\ \A status \in Terminal : ~CompleteAtOnce(r, s, status)
              /\ \A early \in BOOLEAN : ~EventsRead(r, s, early)
        BY <2>1 DEF CompleteRead, CompleteAtOnce, SweepRead, EventsRead, ReadStep
      <3> QED BY <3>1, <3>2, <3>3 DEF Outside, Complete
    <2>6. ~DispatchPendingTasks /\ ~UNCHANGED vars
      BY <2>1 DEF DispatchPendingTasks, vars
    <2>7. PICK q \in Requests : User(q)
      BY <2>3, <2>4, <2>5, <2>6 DEF Next
    <2>8. ~CancelCommit(q)
      <3>1. request[q].copy \in TaskRow BY DEF TypeOK, RequestState
      <3> QED BY <1>1, <2>2, <3>1 DEF CancelCommit, CancelPending, CancelLiveStep, RequestCancel, TaskRow
    <2> QED BY <2>1, <2>7, <2>8 DEF User, CancelRead, RetryRead, Open, RetryCommit
  <1> QED BY <1>1 DEF CountsOn

LEMMA TokenCounts ==
  ASSUME ClaimsRespected, TypeOK, OneToken, [Next]_vars PROVE CountsOn
  BY CountsIf DEF OneToken

(* Retries.  A retry is accepted for a task that is over, and while one     *)
(* request at a time is served it finds nobody at work.  Excluded are the   *)
(* faults that end a task some thread still works on, or that leave it      *)
(* waiting for a message of its own: see RetryOnlyWhenIdle.                 *)
RetriesRespected ==
  /\ Env \cap {"reject", "dbError", "cancelPending", "lateEvents", "slowComplete", "watchdog",
               "tailError", "noTransaction"} = {}
  /\ AsyncSteps = {} \/ "cancelRunning" \notin Env
  /\ \A p, q \in Requests : p = q

(* A thread that works on the task or failed before it could. *)
AtTask(w) == Dispatching(w) \/ worker[w].pc = "queueFailed"

NoSessions == AsyncSteps = {} => \A r \in Runs, s \in StepNos : ~steps[r][s].session

OneRun ==
  /\ task.status # "RETRYING"
  /\ \A v, w \in Workers : AtTask(v) /\ AtTask(w) => v = w
  /\ \A w \in Workers : AtTask(w) => task.status = "RUNNING"
  /\ \A w \in Workers : UsesCopy(w) => worker[w].copy.status = "RUNNING"
  /\ \A w \in Workers : worker[w].pc = "insert" => worker[w].run = runCount + 1
  /\ \A w \in Workers : worker[w].pc = "submit" => AsyncSteps # {}
  /\ \A c \in Consumers : consumer[c].pc = "idle"
  /\ \A q \in Requests :
       \/ request[q].pc = "idle"
       \/ request[q].pc = "cancel" /\ request[q].copy.status = "RUNNING" /\ AsyncSteps = {}
       \/ request[q].pc = "retry" /\ task.status \in Terminal
  /\ \A k \in Callbacks : ~Busy(k)
  /\ NoSessions

(* The thread at work goes on, or ends the task and is at work no more.     *)
LEMMA RunKept ==
  ASSUME OneRun, NEW w \in Workers, AtTask(w),
         \A v \in Workers \ {w} : worker'[v] = worker[v],
         AtTask(w)' => task'.status = "RUNNING",
         UsesCopy(w)' => worker'[w].copy.status = "RUNNING",
         worker'[w].pc = "insert" => worker'[w].run = runCount' + 1,
         worker'[w].pc = "submit" => AsyncSteps # {},
         UNCHANGED <<consumer, request, callback>>, NoSessions', task'.status # "RETRYING"
  PROVE  OneRun'
  <1>1. \A v \in Workers \ {w} : ~AtTask(v) /\ ~AtTask(v)'
    BY DEF OneRun, AtTask, Dispatching
  <1>2. task.status = "RUNNING" /\ "RUNNING" \notin Terminal
    BY DEF OneRun, Terminal
  <1>3. \A v \in Workers \ {w} : ~UsesCopy(v)' /\ worker'[v].pc \notin {"insert", "submit"}
    BY <1>1 DEF AtTask, Dispatching, UsesCopy
  <1> QED BY <1>1, <1>2, <1>3 DEF OneRun, Busy

(* A thread whose dispatch is over only becomes idle. *)
LEMMA RunOver ==
  ASSUME OneRun, NEW w \in Workers, ~AtTask(w),
         worker' = [worker EXCEPT ![w] = IdleWorker], worker \in [Workers -> WorkerState],
         UNCHANGED <<task, consumer, request, callback, steps, runCount>>
  PROVE  OneRun'
  <1>1. worker'[w].pc = "idle" /\ \A v \in Workers \ {w} : worker'[v] = worker[v]
    BY DEF IdleWorker
  <1>2. ~AtTask(w)' /\ ~UsesCopy(w)'
    BY <1>1 DEF AtTask, Dispatching, UsesCopy
  <1> QED BY <1>1, <1>2 DEF OneRun, AtTask, Dispatching, UsesCopy, NoSessions, Busy

(* Only a step handed to a live runner gets a session. *)
LEMMA DispatchSessions ==
  ASSUME TypeOK, NoSessions, NEW w \in Workers, Dispatch(w),
         worker[w].pc = "submit" => AsyncSteps # {}
  PROVE  NoSessions'
  <1> SUFFICES ASSUME AsyncSteps = {}, NEW r \in Runs, NEW s \in StepNos
               PROVE  ~steps'[r][s].session
    BY DEF NoSessions
  <1>1. /\ ~steps[r][s].session
        /\ steps \in [Runs -> [StepNos -> StepRow]] /\ steps[r] \in [StepNos -> StepRow]
        /\ steps[r][s] \in StepRow
    BY DEF NoSessions, TypeOK
  <1>2. CASE Start(w) \/ Insert(w) \/ Bind(w) \/ Tail(w) \/ QueueFailed(w)
    BY <1>1, <1>2 DEF Start, Insert, Bind, Tail, QueueFailed, history
  <1>3. CASE Boundary(w)
    <2>1. CASE UNCHANGED steps BY <1>1, <2>1
    <2>2. CASE BeginStep(w)
      <3>1. ~[NoStep EXCEPT !.status = "RUNNING"].session BY DEF NoStep
      <3> QED BY <1>1, <2>2, <3>1 DEF BeginStep
    <2> QED BY <1>3, <2>1, <2>2 DEF Boundary, NoMoreSteps, CancelSeen
  <1>4. CASE Announce(w)
    <2>1. ~[steps[r][s] EXCEPT !.live = TRUE].session BY <1>1 DEF StepRow
    <2> QED BY <1>1, <1>4, <2>1 DEF Announce
  <1>5. ASSUME CompleteStep(w) PROVE ~steps'[r][s].session
    BY <1>1, <1>5 DEF CompleteStep, WriteStep
  <1>6. ASSUME NEW v, EndStep(w, v) PROVE ~steps'[r][s].session
    <2>1. CASE UNCHANGED steps BY <1>1, <2>1
    <2>2. CASE WriteStep(w, [status |-> v, live |-> TRUE,
                             session |-> steps[worker[w].run][worker[w].step].session])
      <3> DEFINE row == [status |-> v, live |-> TRUE,
                         session |-> steps[worker[w].run][worker[w].step].session]
      <3>1. steps'[r][s] = IF r = worker[w].run /\ s = worker[w].step THEN row ELSE steps[r][s]
        BY <1>1, <2>2 DEF WriteStep
      <3> QED BY <1>1, <3>1
    <2> QED BY <1>6, <2>1, <2>2 DEF EndStep
  <1>7. CASE RunAgent(w) BY <1>5, <1>6, <1>7 DEF RunAgent
  <1>8. ~Submit(w) BY DEF Submit
  <1>9. CASE Await(w) BY <1>5, <1>6, <1>9 DEF Await
  <1>10. CASE Finish(w)
    <2>1. CASE UNCHANGED steps BY <1>1, <2>1
    <2>2. CASE steps' = [steps EXCEPT ![worker[w].run][worker[w].step].status = "FAILED"]
      <3>1. ~[steps[r][s] EXCEPT !.status = "FAILED"].session BY <1>1 DEF StepRow
      <3> QED BY <1>1, <2>2, <3>1
    <2> QED BY <1>10, <2>1, <2>2 DEF Finish
  <1> QED BY <1>2, <1>3, <1>4, <1>7, <1>8, <1>9, <1>10 DEF Dispatch

LEMMA DispatchRun ==
  ASSUME TypeOK, RetriesRespected, OneRun, NEW w \in Workers, Dispatch(w) \/ Crash(w)
  PROVE  OneRun'
  <1>1. worker[w] \in WorkerState /\ worker \in [Workers -> WorkerState]
    BY WorkerFacts DEF TypeOK
  <1>2. \A v \in Workers \ {w} : worker'[v] = worker[v]
    BY <1>1 DEF Dispatch, Start, Insert, Bind, Boundary, NoMoreSteps, CancelSeen, BeginStep,
       Announce, RunAgent, Submit, SubmitRunner, Await, CompleteStep, EndStep, Verdict, Finish,
       Tail, TailFailed, QueueFailed, Crash
  <1>3. UNCHANGED <<consumer, request, callback>>
    BY DEF Dispatch, Start, Insert, Bind, Boundary, Announce, RunAgent, Submit, Await, Finish,
       Tail, QueueFailed, Crash, users
  <1>4. AtTask(w) => task.status = "RUNNING" BY DEF OneRun
  <1>5. UsesCopy(w) => AtTask(w) /\ worker[w].copy.status = "RUNNING"
    BY DEF OneRun, UsesCopy, AtTask, Dispatching
  <1>6. IdleWorker.pc = "idle" BY DEF IdleWorker
  <1>7. task'.status # "RETRYING"
    BY <1>5, DispatchWrites DEF OneRun, Waiting
  <1>8. CASE Start(w)
    <2>1. AtTask(w) BY <1>8 DEF Start, AtTask, Dispatching
    <2>2. UNCHANGED <<runCount, steps>> BY <1>8 DEF Start, history
    <2>3. CASE task.cancel
      <3>1. worker'[w].pc = "tail" BY <1>1, <1>4, <1>8, <2>1, <2>3 DEF Start, WorkerState
      <3> QED BY <1>2, <1>3, <1>7, <1>8, <2>1, <3>1, RunKept
           DEF AtTask, Dispatching, UsesCopy, Start, OneRun, NoSessions, history
    <2>4. CASE ~task.cancel
      <3>1. worker'[w].pc = "insert" /\ worker'[w].run = runCount + 1 /\ UNCHANGED task
        BY <1>1, <1>4, <1>8, <2>1, <2>4 DEF Start, WorkerState
      <3> QED BY <1>2, <1>3, <1>7, <1>4, <1>8, <2>1, <2>2, <3>1, RunKept DEF UsesCopy, OneRun, NoSessions
    <2> QED BY <2>3, <2>4
  <1>9. CASE Insert(w)
    <2>1. AtTask(w) /\ runCount = worker[w].run - 1
      <3>1. worker[w].run = runCount + 1 /\ runCount \in Nat
        BY <1>9, ConstantsAssumption DEF OneRun, Insert, TypeOK
      <3> QED BY <1>9, <3>1 DEF Insert, AtTask, Dispatching
    <2>2. worker'[w].pc = "bind" /\ UNCHANGED <<task, steps>>
      BY <1>1, <1>9, <2>1 DEF Insert, WorkerState
    <2> QED BY <1>2, <1>3, <1>7, <1>4, <2>1, <2>2, RunKept DEF UsesCopy, OneRun, NoSessions
  <1>10. CASE Bind(w)
    <2>1. task'.status = "RUNNING" /\ UNCHANGED steps /\ AtTask(w)
      BY <1>1, <1>10 DEF Bind, WorkerState, TaskRow, history, AtTask, Dispatching
    <2>2. \/ worker'[w].pc = "boundary" /\ worker'[w].copy = task'
          \/ worker'[w].pc = "queueFailed"
      BY <1>1, <1>10 DEF Bind, WorkerState, IdleWorker
    <2> QED BY <1>2, <1>3, <1>7, <2>1, <2>2, RunKept DEF OneRun, NoSessions, UsesCopy
  <1>11. CASE Boundary(w)
    <2>1. UsesCopy(w) /\ task' = task BY <1>11 DEF Boundary, UsesCopy
    <2>2. worker'[w].copy = worker[w].copy \/ worker'[w].copy = task
      BY <1>1, <1>11 DEF Boundary, NoMoreSteps, CancelSeen, BeginStep, Verdict, TypeOK, WorkerState
    <2>3. worker'[w].pc \in {"finish", "announce"}
      BY <1>1, <1>11 DEF Boundary, NoMoreSteps, CancelSeen, BeginStep, Verdict, TypeOK, WorkerState
    <2>4. NoSessions' BY <1>11, DispatchSessions DEF OneRun, Dispatch
    <2> QED BY <1>2, <1>3, <1>7, <1>4, <1>5, <2>1, <2>2, <2>3, <2>4, RunKept
  <1>12. CASE Announce(w)
    <2>1. UsesCopy(w) /\ task' = worker[w].copy /\ worker'[w].copy = worker[w].copy
      BY <1>1, <1>12 DEF Announce, UsesCopy, TypeOK, WorkerState
    <2>2. \/ worker'[w].pc = "run"
          \/ worker'[w].pc = "submit" /\ AsyncSteps # {}
      BY <1>1, <1>12 DEF Announce, WorkerState
    <2>3. NoSessions' BY <1>12, DispatchSessions DEF OneRun, Dispatch
    <2> QED BY <1>2, <1>3, <1>7, <1>5, <2>1, <2>2, <2>3, RunKept
  <1>13. CASE RunAgent(w) \/ Submit(w) \/ Await(w)
    <2>1. UsesCopy(w) BY <1>13 DEF RunAgent, Submit, Await, UsesCopy
    <2>2. task' = task \/ task' = worker[w].copy
      BY <1>13 DEF RunAgent, Submit, SubmitRunner, Await, CompleteStep, EndStep
    <2>3. \/ \E pc \in {"boundary", "await"} : worker' = [worker EXCEPT ![w].pc = pc]
          \/ \E v \in Terminal : Verdict(w, "finish", v)
      <3>1. {"FAILED", "CANCELED"} \subseteq Terminal
        BY DEF Terminal
      <3>2. CompleteStep(w) \/ SubmitRunner(w) \/ EndStep(w, "FAILED") \/ EndStep(w, "CANCELED")
        BY <1>13 DEF RunAgent, Submit, Await
      <3> QED BY <3>1, <3>2 DEF CompleteStep, SubmitRunner, EndStep
    <2>4. worker'[w].copy = worker[w].copy /\ worker'[w].pc \in {"boundary", "await", "finish"}
      BY <1>1, <2>3 DEF Verdict, TypeOK, WorkerState
    <2>5. NoSessions' BY <1>13, DispatchSessions DEF OneRun, Dispatch
    <2> QED BY <1>2, <1>3, <1>7, <1>4, <1>5, <2>1, <2>2, <2>4, <2>5, RunKept
  <1>14. CASE Finish(w)
    <2>1. worker'[w].pc = "tail" /\ AtTask(w)
      BY <1>1, <1>14 DEF Finish, TypeOK, WorkerState, AtTask, Dispatching
    <2>2. NoSessions' BY <1>14, DispatchSessions DEF OneRun, Dispatch
    <2> QED BY <1>2, <1>3, <1>7, <2>1, <2>2, RunKept DEF AtTask, Dispatching, UsesCopy
  <1>15. CASE Tail(w)
    <2>1. worker' = [worker EXCEPT ![w] = IdleWorker]
      BY <1>15 DEF Tail, RetriesRespected
    <2> QED BY <1>1, <1>3, <1>15, <2>1, RunOver DEF Tail, AtTask, Dispatching
  <1>16. CASE QueueFailed(w)
    <2>1. AtTask(w) /\ worker'[w].pc = "idle" /\ UNCHANGED steps
      BY <1>1, <1>6, <1>16 DEF QueueFailed, AtTask, history
    <2> QED BY <1>2, <1>3, <1>7, <2>1, RunKept DEF AtTask, Dispatching, UsesCopy, OneRun, NoSessions
  <1>17. CASE Crash(w)
    <2>1. worker' = [worker EXCEPT ![w] = IdleWorker] /\ UNCHANGED <<task, steps, runCount>>
      BY <1>17 DEF Crash, history
    <2>2. CASE AtTask(w)
      <3>1. worker'[w].pc = "idle" BY <1>1, <1>6, <2>1
      <3> QED BY <1>2, <1>3, <1>7, <2>1, <2>2, <3>1, RunKept
           DEF AtTask, Dispatching, UsesCopy, OneRun, NoSessions
    <2>3. CASE ~AtTask(w)
      BY <1>1, <1>3, <2>1, <2>3, RunOver
    <2> QED BY <2>2, <2>3
  <1> QED BY <1>8, <1>9, <1>10, <1>11, <1>12, <1>13, <1>14, <1>15, <1>16, <1>17 DEF Dispatch

LEMMA ConsumerRun ==
  ASSUME TypeOK, RetriesRespected, OneRun, NEW c \in Consumers, Consume(c)
  PROVE  OneRun'
  <1>1. /\ ~MarkTaskRetrying(c) /\ ~PublishRetry(c) /\ ~PublishDeadLetter(c) /\ ~MarkTaskQueueFailed(c)
        /\ \A a \in Attempts : ~Reject(c, a) /\ ~ClaimError(c, a)
    BY DEF MarkTaskRetrying, PublishRetry, PublishDeadLetter, MarkTaskQueueFailed, Reject, ClaimError,
       RetriesRespected, OneRun
  <1>2. ASSUME NEW a \in Attempts, Skip(c, a) PROVE OneRun'
    BY <1>2 DEF Skip, OneRun, AtTask, Dispatching, UsesCopy, NoSessions, Busy, users, history
  <1>3. ASSUME NEW a \in Attempts, NEW w \in Workers, Claim(c, w, a) PROVE OneRun'
    <2>1. /\ task.status \in Waiting /\ task'.status = "RUNNING"
          /\ UNCHANGED <<consumer, request, callback, steps, runCount>>
      BY <1>3 DEF Claim, Claimable, Waiting, TypeOK, TaskRow, users, history
    <2>2. worker'[w].pc = "queued" /\ \A v \in Workers \ {w} : worker'[v] = worker[v]
      BY <1>3 DEF Claim, TypeOK, IdleWorker
    <2>3. \A v \in Workers : ~AtTask(v)
      BY <2>1 DEF OneRun, Waiting
    <2>4. \A v \in Workers \ {w} : ~AtTask(v)' /\ ~UsesCopy(v)'
      BY <2>2, <2>3 DEF AtTask, Dispatching, UsesCopy
    <2>5. task.status \notin Terminal BY <2>1 DEF Waiting, Terminal
    <2> QED BY <2>1, <2>2, <2>4, <2>5 DEF OneRun, UsesCopy, NoSessions, Busy
  <1> QED BY <1>1, <1>2, <1>3 DEF Consume

LEMMA UserRun ==
  ASSUME TypeOK, RetriesRespected, OneRun, NEW q \in Requests, User(q)
  PROVE  OneRun'
  <1>0. UNCHANGED <<worker, consumer, callback, runCount>>
    BY DEF User, CancelRead, RetryRead, Open, CancelCommit, RetryCommit, history
  <1>1. /\ request[q].copy \in TaskRow /\ \A p \in Requests : p = q
        /\ request \in [Requests -> RequestState]
    BY DEF TypeOK, RequestState, RetriesRespected
  <1>2. ASSUME CancelRead(q) \/ RetryRead(q) PROVE OneRun'
    <2>1. UNCHANGED <<task, steps>> BY <1>2 DEF CancelRead, RetryRead, Open, history
    <2>2. \/ request'[q].pc = "cancel" /\ request'[q].copy.status = "RUNNING" /\ AsyncSteps = {}
          \/ request'[q].pc = "retry" /\ task.status \notin {"RUNNING", "PENDING"}
      <3>1. CASE CancelRead(q)
        <4>1. task.status = "RUNNING" /\ AsyncSteps = {}
          BY <3>1 DEF CancelRead, RetriesRespected
        <4>2. request'[q].pc = "cancel" /\ request'[q].copy = task
          BY <1>1, <3>1 DEF CancelRead, Open
        <4> QED BY <4>1, <4>2
      <3>2. CASE RetryRead(q)
        BY <1>1, <3>2 DEF RetryRead, Open
      <3> QED BY <1>2, <3>1, <3>2
    <2>3. task.status # "RETRYING"
      BY DEF OneRun
    <2>4. request'[q].pc = "retry" => task.status \in Terminal
      BY <2>2, <2>3 DEF TypeOK, TaskRow
    <2> QED BY <1>0, <1>1, <2>1, <2>2, <2>4 DEF OneRun, AtTask, Dispatching, UsesCopy, NoSessions, Busy
  <1>3. ASSUME CancelCommit(q) PROVE OneRun'
    <2>1. request[q].pc = "cancel" /\ request[q].copy.status = "RUNNING" /\ AsyncSteps = {}
      BY <1>3 DEF CancelCommit, OneRun
    <2>2. ~CancelPending(q) BY <2>1 DEF CancelPending
    <2>3. ~CancelLiveStep(q)
      <3>1. \A r \in Runs, s \in StepNos : ~steps[r][s].session
        BY <2>1 DEF OneRun, NoSessions
      <3>2. ~LiveStep(q) BY <3>1, LiveStepIsThere
      <3> QED BY <3>2 DEF CancelLiveStep
    <2>4. task'.status = "RUNNING" /\ UNCHANGED steps
      BY <1>1, <1>3, <2>1, <2>2, <2>3 DEF CancelCommit, RequestCancel, TaskRow
    <2>5. request'[q].pc = "idle" BY <1>1, <1>3 DEF CancelCommit, IdleRequest
    <2> QED BY <1>0, <1>1, <2>4, <2>5 DEF OneRun, AtTask, Dispatching, UsesCopy, NoSessions, Busy
  <1>4. ASSUME RetryCommit(q) PROVE OneRun'
    <2>1. task.status \in Terminal /\ UNCHANGED steps
      BY <1>4 DEF RetryCommit, OneRun, history
    <2>2. \A w \in Workers : ~AtTask(w)
      BY <2>1 DEF OneRun, Terminal
    <2>3. \A w \in Workers : ~UsesCopy(w) BY <2>2 DEF AtTask, Dispatching, UsesCopy
    <2>4. request'[q].pc = "idle" BY <1>1, <1>4 DEF RetryCommit, IdleRequest
    <2>5. task'.status = "PENDING" BY <1>1, <1>4 DEF RetryCommit, TaskRow
    <2> QED BY <1>0, <1>1, <2>1, <2>2, <2>3, <2>4, <2>5 DEF OneRun, AtTask, Dispatching, UsesCopy, NoSessions, Busy
  <1> QED BY <1>2, <1>3, <1>4 DEF User

LEMMA OutsideRun ==
  ASSUME TypeOK, RetriesRespected, OneRun, Outside
  PROVE  OneRun'
  <1>1. ~EventsCommit /\ ~SweepCommit /\ \A status \in Terminal : ~CompleteCommit(status)
    BY DEF EventsCommit, SweepCommit, CompleteCommit, OneRun, Callbacks
  <1>2. \A r \in Runs, s \in StepNos :
          ~CompleteRead(r, s) /\ ~SweepRead(r, s) /\ \A early \in BOOLEAN : ~EventsRead(r, s, early)
    BY DEF CompleteRead, EventsRead, SweepRead, RetriesRespected
  <1>3. PICK r \in Runs, s \in StepNos, status \in Terminal : CompleteAtOnce(r, s, status)
    BY <1>1, <1>2 DEF Outside, Complete
  <1>4. steps[r][s].session BY <1>3 DEF CompleteAtOnce
  <1>5. AsyncSteps # {} BY <1>4 DEF OneRun, NoSessions
  <1> QED BY <1>3, <1>5 DEF CompleteAtOnce, OneRun, AtTask, Dispatching, UsesCopy, NoSessions, Busy, users

LEMMA RunStep == RetriesRespected /\ TypeOK /\ OneRun /\ [Next]_vars => OneRun'
  <1> SUFFICES ASSUME RetriesRespected, TypeOK, OneRun, [Next]_vars PROVE OneRun'
    OBVIOUS
  <1>1. CASE DispatchPendingTasks \/ UNCHANGED vars
    BY <1>1 DEF DispatchPendingTasks, vars, OneRun, AtTask, Dispatching, UsesCopy, NoSessions, Busy, users, history
  <1> QED BY <1>1, ConsumerRun, DispatchRun, UserRun, OutsideRun DEF Next

LEMMA RunInit == Init => OneRun
  BY DEF Init, OneRun, AtTask, Dispatching, UsesCopy, Busy, NoSessions, IdleWorker, IdleConsumer, IdleRequest,
     NoCallback, NoTask, NoStep

LEMMA RunCounts ==
  ASSUME RetriesRespected, TypeOK, OneRun, [Next]_vars PROVE CountsOn
  <1>1. \A w \in Workers : UsesCopy(w) => worker[w].copy.status \notin Waiting
    BY DEF OneRun, Waiting
  <1>2. \A k \in Callbacks : ~Busy(k)
    BY DEF OneRun
  <1> QED BY <1>1, <1>2, CountsIf

(* The conditional claim lets one thread at a time work on the task:        *)
(* whatever is lost, repeated, rejected, canceled, timed out, written back  *)
(* late or crashes, as long as nobody retries and no consumer fails before  *)
(* it has claimed; and also with retries, one request at a time.            *)
THEOREM OneDispatcherAtATime ==
  ASSUME ClaimsRespected \/ RetriesRespected
  PROVE  Spec => []OneDispatcher
  <1>1. CASE ClaimsRespected
    <2>1. OneToken => OneDispatcher
      BY DEF OneToken, OneDispatcher, Held, Dispatching
    <2> QED BY <1>1, <2>1, TokenInv, PTL
  <1>2. CASE RetriesRespected
    <2>1. OneRun => OneDispatcher
      BY DEF OneRun, OneDispatcher, AtTask
    <2>2. TypeOK /\ OneRun /\ [Next]_vars => OneRun'
      BY <1>2, RunStep
    <2> QED BY <2>1, <2>2, RunInit, Typed, PTL DEF Spec
  <1> QED BY <1>1, <1>2

-----------------------------------------------------------------------------
(* The refinement of TaskLifecycle.  What a step may rely on is the same    *)
(* with and without retries: whoever works on the task is alone, nothing is *)
(* left to claim meanwhile, and the two steps that hand work out again, a   *)
(* retry and a failed tail, find nobody at work and nothing to claim.       *)

AtWork == {w \in Workers : Dispatching(w)}
InTail == {w \in Workers : worker[w].pc \in {"tail", "queueFailed"}}

Resting == ~Claimed /\ \A w \in Workers : ~Dispatching(w)

Orderly ==
  /\ \A v, w \in Workers : Dispatching(v) /\ Dispatching(w) => v = w
  /\ \A w \in Workers : Dispatching(w) => task.status \notin Waiting /\ \A c \in Consumers : ~Failing(c)
  /\ \A w \in Workers : UsesCopy(w) => worker[w].copy.status \notin Waiting
  /\ \A c, d \in Consumers : Failing(c) /\ Failing(d) => c = d
  /\ \A c \in Consumers : Failing(c) => task.status \notin Waiting
  /\ \A q \in Requests : request[q].pc = "retry" => Resting
  /\ \A w \in Workers : \/ worker[w].pc = "queueFailed"
                        \/ worker[w].pc = "tail" /\ {"tailError", "noTransaction"} \cap Env # {}
                        => Resting

LEMMA TokenIsOrderly == OneToken => Orderly
  <1> SUFFICES ASSUME OneToken PROVE Orderly
    OBVIOUS
  <1>1. \A w \in Workers : Dispatching(w) => Held(w)
    BY DEF Dispatching, Held
  <1>2. ASSUME NEW w \in Workers, worker[w].pc \in {"tail", "queueFailed"} PROVE Resting
    <2>1. Held(w) /\ task.status \notin Waiting /\ \A c \in Consumers : ~Failing(c)
      BY <1>2 DEF OneToken, Held
    <2>2. \A v \in Workers : Held(v) => v = w BY <2>1 DEF OneToken
    <2>3. \A v \in Workers : ~Dispatching(v) BY <1>1, <1>2, <2>2 DEF Dispatching
    <2>4. \A v \in Workers : worker[v].pc \notin {"queued", "insert"} BY <2>3 DEF Dispatching
    <2> QED BY <2>1, <2>3, <2>4 DEF Resting, Claimed
  <1>3. \A q \in Requests : request[q].pc # "retry" BY DEF OneToken
  <1> QED BY <1>1, <1>2, <1>3 DEF OneToken, Orderly

LEMMA RunIsOrderly == RetriesRespected /\ OneRun => Orderly
  <1> SUFFICES ASSUME RetriesRespected, OneRun PROVE Orderly
    OBVIOUS
  <1>1. \A c \in Consumers : ~Failing(c)
    BY DEF OneRun, Failing
  <1>2. \A w \in Workers : Dispatching(w) => task.status = "RUNNING"
    BY DEF OneRun, AtTask
  <1>3. ASSUME NEW q \in Requests, request[q].pc = "retry" PROVE Resting
    <2>1. task.status \in Terminal BY <1>3 DEF OneRun
    <2>2. \A w \in Workers : ~Dispatching(w) BY <1>2, <2>1 DEF Terminal
    <2>3. \A w \in Workers : worker[w].pc \notin {"queued", "insert"} BY <2>2 DEF Dispatching
    <2>4. task.status \notin Waiting BY <2>1 DEF Terminal, Waiting
    <2> QED BY <1>1, <2>2, <2>3, <2>4 DEF Resting, Claimed
  <1>4. ASSUME NEW w \in Workers, worker[w].pc = "queueFailed" PROVE Resting
    <2>1. task.status = "RUNNING" /\ \A v \in Workers : AtTask(v) => v = w
      BY <1>4 DEF OneRun, AtTask
    <2>2. \A v \in Workers : ~Dispatching(v) BY <1>4, <2>1 DEF AtTask, Dispatching
    <2>3. \A v \in Workers : worker[v].pc \notin {"queued", "insert"} BY <2>2 DEF Dispatching
    <2> QED BY <1>1, <2>1, <2>2, <2>3 DEF Resting, Claimed, Waiting
  <1>5. {"tailError", "noTransaction"} \cap Env = {} BY DEF RetriesRespected
  <1>6. \A v, w \in Workers : Dispatching(v) /\ Dispatching(w) => v = w BY DEF OneRun, AtTask
  <1>7. \A w \in Workers : UsesCopy(w) => worker[w].copy.status = "RUNNING" BY DEF OneRun
  <1>8. "RUNNING" \notin Waiting BY DEF Waiting
  <1> QED BY <1>1, <1>2, <1>3, <1>4, <1>5, <1>6, <1>7, <1>8 DEF Orderly

(* The lifecycle does not move when its five parts do not. *)
LEMMA Stutters ==
  ASSUME Claimed' <=> Claimed, AtWork' = AtWork, InTail' = InTail, UNCHANGED <<runCount, submitted>>
  PROVE  UNCHANGED Lifecycle!vars
  <1>1. Claimed' = Claimed BY Zenon DEF Claimed
  <1> QED BY <1>1 DEF Lifecycle!vars, AtWork, InTail

(* A commit that moves no thread takes the claim away or leaves it. *)
LEMMA OnlyTheTask ==
  ASSUME Orderly, CountsOn, UNCHANGED <<worker, consumer, runCount, submitted>>, submitted \in Nat
  PROVE  [Lifecycle!Next]_(Lifecycle!vars)
  <1>1. AtWork' = AtWork /\ InTail' = InTail
    BY DEF AtWork, InTail, Dispatching
  <1>2. Claimed' => Claimed
    BY DEF CountsOn, Claimed, Failing
  <1>3. CASE Claimed' <=> Claimed
    BY <1>1, <1>3, Stutters
  <1>4. CASE Claimed /\ ~Claimed'
    <2>1. task.status \in Waiting BY <1>4 DEF Claimed, Failing
    <2>2. AtWork = {} BY <2>1 DEF Orderly, AtWork
    <2> QED BY <1>1, <1>4, <2>2 DEF Lifecycle!Next, Lifecycle!GiveUp, AtWork, InTail
  <1> QED BY <1>2, <1>3, <1>4

(* The threads at work and in their tails when one thread moves. *)
LEMMA OneMoves ==
  ASSUME NEW w \in Workers, \A v \in Workers \ {w} : worker'[v] = worker[v]
  PROVE  /\ AtWork' \ {w} = AtWork \ {w} /\ (w \in AtWork <=> Dispatching(w))
         /\ (w \in AtWork' <=> Dispatching(w)')
         /\ InTail' \ {w} = InTail \ {w} /\ (w \in InTail <=> worker[w].pc \in {"tail", "queueFailed"})
         /\ (w \in InTail' <=> worker'[w].pc \in {"tail", "queueFailed"})
  BY DEF AtWork, InTail, Dispatching

(* What a thread that moves leaves alone. *)
LEMMA DispatchLeaves ==
  ASSUME TypeOK, NEW w \in Workers, Dispatch(w) \/ Crash(w)
  PROVE  /\ UNCHANGED <<submitted, consumer>>
         /\ \A v \in Workers \ {w} : worker'[v] = worker[v]
         /\ runCount' # runCount => Insert(w) /\ runCount' = runCount + 1 /\ worker'[w].pc = "bind"
  <1>1. UNCHANGED <<submitted, consumer>>
    BY DEF Dispatch, Start, Insert, Bind, Boundary, Announce, RunAgent, Submit, Await, Finish,
       Tail, QueueFailed, Crash, users
  <1>2. \A v \in Workers \ {w} : worker'[v] = worker[v]
    BY DEF TypeOK, Dispatch, Start, Insert, Bind, Boundary, NoMoreSteps, CancelSeen, BeginStep,
       Announce, RunAgent, Submit, SubmitRunner, Await, CompleteStep, EndStep, Verdict, Finish,
       Tail, TailFailed, QueueFailed, Crash
  <1>3. ASSUME runCount' # runCount PROVE Insert(w)
    BY <1>3 DEF Dispatch, Start, Bind, Boundary, Announce, RunAgent, Submit, Await, Finish,
       Tail, QueueFailed, Crash, history
  <1>4. ASSUME runCount' # runCount PROVE runCount' = runCount + 1 /\ worker'[w].pc = "bind"
    <2>1. worker' = [worker EXCEPT ![w].pc = "bind", ![w].copy = task] /\ runCount' = runCount + 1
      BY <1>3, <1>4 DEF Insert
    <2> QED BY <2>1, WorkerFacts DEF TypeOK, WorkerState
  <1> QED BY <1>1, <1>2, <1>3, <1>4

(* A claim that does not become a run yet is still a claim. *)
LEMMA ClaimGoesOn ==
  ASSUME TypeOK, NEW w \in Workers, Dispatch(w) \/ Crash(w),
         worker[w].pc \in {"queued", "insert"}, Dispatching(w)', runCount' = runCount
  PROVE  worker'[w].pc \in {"queued", "insert"}
  <1>1. worker[w] \in WorkerState /\ runCount \in Nat
    BY WorkerFacts, ConstantsAssumption DEF TypeOK
  <1>2. IdleWorker.pc = "idle" BY DEF IdleWorker
  <1>3. CASE Start(w) BY <1>1, <1>2, <1>3 DEF Start, Dispatching, TypeOK, WorkerState
  <1>4. CASE Insert(w) BY <1>1, <1>4 DEF Insert, Dispatching, TypeOK, WorkerState
  <1>5. CASE Crash(w) BY <1>2, <1>5 DEF Crash, Dispatching, TypeOK
  <1> QED BY <1>3, <1>4, <1>5 DEF Dispatch, Bind, Boundary, Announce, RunAgent, Submit, Await,
             Finish, Tail, QueueFailed

(* A thread at work claims nothing for anybody, begins its run or ends. *)
LEMMA WorkIsLifecycle ==
  ASSUME TypeOK, Orderly, CountsOn, NEW w \in Workers, Dispatch(w) \/ Crash(w), Dispatching(w)
  PROVE  [Lifecycle!Next]_(Lifecycle!vars)
  <1>1. UNCHANGED <<submitted, consumer>> /\ \A v \in Workers \ {w} : worker'[v] = worker[v]
    BY DispatchLeaves
  <1>2. AtWork = {w} /\ w \notin InTail
    BY DEF Orderly, AtWork, InTail, Dispatching
  <1>3. \A v \in Workers \ {w} : ~Dispatching(v) /\ worker'[v].pc \notin {"queued", "insert"}
    BY <1>1 DEF Orderly, Dispatching
  <1>4. task.status \notin Waiting /\ \A c \in Consumers : ~Failing(c) /\ ~Failing(c)'
    BY <1>1 DEF Orderly, Failing
  <1>5. task'.status \notin Waiting
    BY <1>4, DispatchWrites DEF Orderly
  <1>6. Claimed' <=> worker'[w].pc \in {"queued", "insert"}
    BY <1>3, <1>4, <1>5 DEF Claimed
  <1>7. Claimed <=> worker[w].pc \in {"queued", "insert"}
    BY <1>3, <1>4 DEF Claimed, Dispatching
  <1>8. CASE Dispatching(w)' /\ runCount' = runCount
    <2>1. AtWork' = AtWork /\ InTail' = InTail
      BY <1>1, <1>2, <1>8, OneMoves DEF Dispatching
    <2>2. Claimed' <=> Claimed
      BY <1>6, <1>7, <1>8, ClaimGoesOn, ClaimUsed
    <2> QED BY <1>1, <1>8, <2>1, <2>2, Stutters
  <1>9. CASE runCount' # runCount
    <2>1. Insert(w) /\ runCount' = runCount + 1 /\ worker'[w].pc = "bind"
      BY <1>9, DispatchLeaves
    <2>2. Claimed /\ ~Claimed'
      BY <1>6, <1>7, <2>1 DEF Insert
    <2>3. AtWork' = AtWork /\ InTail' = InTail
      <3>1. Dispatching(w)' /\ worker'[w].pc \notin {"tail", "queueFailed"}
        BY <2>1 DEF Dispatching
      <3> QED BY <1>1, <1>2, <3>1, OneMoves
    <2> QED BY <1>1, <1>2, <2>1, <2>2, <2>3 DEF Lifecycle!Next, Lifecycle!Begin, AtWork, InTail
  <1>10. CASE ~Dispatching(w)' /\ runCount' = runCount
    <2>1. ~Claimed'
      BY <1>6, <1>10 DEF Dispatching
    <2>2. AtWork' = {} /\ InTail' \in {InTail, InTail \cup {w}}
      BY <1>1, <1>2, <1>10, OneMoves
    <2> QED BY <1>1, <1>2, <1>10, <2>1, <2>2 DEF Lifecycle!Next, Lifecycle!End, AtWork, InTail
  <1> QED BY <1>8, <1>9, <1>10

(* A thread that is done leaves, or takes the task again when its tail      *)
(* failed.                                                                  *)
LEMMA TailIsLifecycle ==
  ASSUME TypeOK, Orderly, NEW w \in Workers, Dispatch(w) \/ Crash(w), ~Dispatching(w)
  PROVE  [Lifecycle!Next]_(Lifecycle!vars)
  <1>1. UNCHANGED <<submitted, consumer>> /\ \A v \in Workers \ {w} : worker'[v] = worker[v]
    BY DispatchLeaves
  <1>2. worker[w].pc \in {"tail", "queueFailed"} /\ worker[w] \in WorkerState /\ w \in InTail
        /\ worker' \in [Workers -> WorkerState] /\ (Tail(w) \/ QueueFailed(w) \/ Crash(w))
    BY WorkerFacts, TypeStep DEF Dispatching, InTail, Next, TypeOK, Dispatch, Start, Insert, Bind,
       Boundary, Announce, RunAgent, Submit, Await, Finish, Tail, QueueFailed, Crash
  <1>3. UNCHANGED <<runCount>>
    BY <1>2 DEF Tail, QueueFailed, Crash, history
  <1>4. w \notin AtWork BY DEF AtWork
  <1>5. CASE worker' = [worker EXCEPT ![w] = IdleWorker]
    <2>1. worker'[w].pc = "idle" BY <1>5 DEF TypeOK, IdleWorker
    <2>2. AtWork' = AtWork /\ InTail' = InTail \ {w}
      BY <1>1, <1>4, <2>1, OneMoves DEF Dispatching
    <2>3. Claimed' <=> Claimed
      <3>1. CASE task' = task BY <1>1, <1>2, <2>1, <3>1 DEF Claimed, Failing
      <3>2. CASE QueueFailed(w)
        <4>1. ~Claimed BY <3>2 DEF QueueFailed, Orderly, Resting
        <4>2. task'.status \notin Waiting BY <3>2 DEF QueueFailed, TypeOK, TaskRow, Waiting
        <4> QED BY <1>1, <2>1, <4>1, <4>2 DEF Claimed, Failing
      <3> QED BY <1>2, <3>1, <3>2 DEF Tail, Crash
    <2>4. Claimed' = Claimed BY <2>3, Zenon DEF Claimed
    <2> QED BY <1>1, <1>2, <1>3, <2>2, <2>4 DEF Lifecycle!Next, Lifecycle!Leave, AtWork, InTail
  <1>6. CASE Tail(w) /\ TailFailed(w) /\ worker' # [worker EXCEPT ![w] = IdleWorker]
    <2>1. UNCHANGED task /\ worker[w].pc = "tail" BY <1>6 DEF Tail
    <2>2. worker'[w].pc \in {"finish", "queueFailed"}
      BY <1>2, <1>6 DEF TailFailed, TypeOK, WorkerState
    <2>3. {"tailError", "noTransaction"} \cap Env # {}
      BY <1>6 DEF Tail
    <2>4. Resting BY <2>1, <2>3 DEF Orderly
    <2>5. ~Claimed /\ ~Claimed' /\ AtWork = {}
      BY <1>1, <2>1, <2>2, <2>4 DEF Resting, Claimed, Failing, AtWork
    <2>6. CASE worker'[w].pc = "finish"
      <3>1. AtWork' = {w} /\ InTail' = InTail \ {w}
        <4>1. Dispatching(w)' /\ worker'[w].pc \notin {"tail", "queueFailed"}
          BY <2>6 DEF Dispatching
        <4> QED BY <1>1, <2>5, <4>1, OneMoves
      <3>2. Claimed' = Claimed
        BY <2>5, Zenon DEF Claimed
      <3>3. Lifecycle!Reopen(w)
        BY <1>1, <1>2, <1>3, <2>5, <3>1, <3>2 DEF Lifecycle!Reopen, AtWork, InTail
      <3> QED BY <3>3 DEF Lifecycle!Next
    <2>7. CASE worker'[w].pc = "queueFailed"
      <3>1. AtWork' = AtWork /\ InTail' = InTail
        <4>1. ~Dispatching(w)' /\ worker'[w].pc \in {"tail", "queueFailed"}
          BY <2>7 DEF Dispatching
        <4>2. AtWork' \ {w} = AtWork \ {w} /\ w \notin AtWork'
          BY <1>1, <4>1, OneMoves
        <4>3. InTail' \ {w} = InTail \ {w} /\ w \in InTail'
          BY <1>1, <4>1, OneMoves
        <4> QED BY <1>2, <1>4, <4>2, <4>3
      <3> QED BY <1>1, <1>3, <2>5, <3>1, Stutters
    <2> QED BY <2>2, <2>6, <2>7
  <1> QED BY <1>2, <1>5, <1>6 DEF Tail, QueueFailed, Crash

(* The consumers hand the submission from the queue to a thread, back to    *)
(* the queue, or give it up.                                                *)
LEMMA ConsumerIsLifecycle ==
  ASSUME TypeOK, Orderly, CountsOn, "dbError" \notin Env, NEW c \in Consumers, Consume(c)
  PROVE  [Lifecycle!Next]_(Lifecycle!vars)
  <1>0. submitted \in Nat /\ task \in TaskRow /\ consumer \in [Consumers -> ConsumerState]
        /\ worker \in [Workers -> WorkerState]
    BY DEF TypeOK
  <1>1. UNCHANGED <<runCount, submitted>>
    BY DEF Consume, Reject, Skip, ClaimError, Claim, MarkTaskRetrying, PublishRetry,
       PublishDeadLetter, MarkTaskQueueFailed, users, history
  <1>2. ASSUME UNCHANGED worker, Claimed' <=> Claimed PROVE UNCHANGED Lifecycle!vars
    BY <1>1, <1>2, Stutters DEF AtWork, InTail, Dispatching
  <1>3. ASSUME UNCHANGED worker, Failing(c), ~Failing(c)', task'.status \notin Waiting,
               \A d \in Consumers \ {c} : consumer'[d] = consumer[d]
        PROVE  Lifecycle!GiveUp
    <2>1. task.status \notin Waiting /\ \A d \in Consumers : ~Failing(d)'
      BY <1>3 DEF Orderly, Failing
    <2>2. AtWork = {} BY <1>3 DEF Orderly, AtWork
    <2>3. \A w \in Workers : worker'[w].pc \notin {"queued", "insert"}
      BY <1>3, <2>2 DEF AtWork, Dispatching
    <2>4. Claimed /\ ~Claimed' BY <1>3, <2>1, <2>3 DEF Claimed
    <2>5. AtWork' = {} /\ InTail' = InTail BY <1>3, <2>2 DEF AtWork, InTail, Dispatching
    <2> QED BY <1>1, <2>2, <2>4, <2>5 DEF Lifecycle!GiveUp, AtWork, InTail
  <1>4. \A d \in Consumers \ {c} : consumer'[d] = consumer[d]
    BY DEF TypeOK, Consume, Reject, Skip, ClaimError, Claim, MarkTaskRetrying, PublishRetry, Requeue,
       PublishDeadLetter, MarkTaskQueueFailed
  <1>5. ASSUME NEW a \in Attempts, Claimable(a) PROVE task.status \in Waiting
    BY <1>5 DEF Claimable, Waiting
  <1>6. ASSUME NEW a \in Attempts, Reject(c, a) PROVE UNCHANGED Lifecycle!vars
    <2>1. Claimed BY <1>5, <1>6 DEF Reject, Claimed
    <2>2. Failing(c)' BY <1>0, <1>6 DEF Reject, Failing
    <2>3. Claimed' BY <2>2 DEF Claimed
    <2> QED BY <1>2, <1>6, <2>1, <2>3 DEF Reject
  <1>7. ASSUME NEW a \in Attempts, Skip(c, a) PROVE UNCHANGED Lifecycle!vars
    <2>1. UNCHANGED <<task, consumer, worker>> BY <1>7 DEF Skip
    <2> QED BY <1>2, <2>1 DEF Claimed, Failing
  <1>8. ASSUME NEW a \in Attempts, NEW w \in Workers, Claim(c, w, a) PROVE Lifecycle!Next
    <2>1. task.status \in Waiting /\ worker[w].pc = "idle" BY <1>5, <1>8 DEF Claim
    <2>2. worker'[w].pc = "queued" /\ \A v \in Workers \ {w} : worker'[v] = worker[v]
      BY <1>0, <1>8 DEF Claim, IdleWorker
    <2>3. AtWork = {} BY <2>1 DEF Orderly, AtWork
    <2>4. AtWork' = {w} /\ InTail' = InTail /\ w \notin InTail
      BY <2>1, <2>2, <2>3, OneMoves DEF Dispatching
    <2>5. Claimed /\ Claimed' BY <2>1, <2>2 DEF Claimed
    <2> QED BY <1>1, <2>3, <2>4, <2>5 DEF Lifecycle!Next, Lifecycle!Claim, AtWork, InTail
  <1>9. ASSUME MarkTaskRetrying(c) PROVE UNCHANGED Lifecycle!vars
    <2>1. Claimed BY <1>9 DEF MarkTaskRetrying, Claimed, Failing
    <2>2. task'.status \in Waiting BY <1>0, <1>9 DEF MarkTaskRetrying, TaskRow, Waiting
    <2> QED BY <1>2, <1>9, <2>1, <2>2 DEF MarkTaskRetrying, Claimed
  <1>10. ASSUME PublishRetry(c) PROVE UNCHANGED Lifecycle!vars
    <2>1. ~Failing(c) BY <1>10 DEF PublishRetry, Failing
    <2>2. ~Failing(c)'
      BY <1>0, <1>10 DEF PublishRetry, Requeue, Failing, IdleConsumer
    <2>3. UNCHANGED <<task, worker>> BY <1>10 DEF PublishRetry
    <2>4. \A d \in Consumers : Failing(d)' <=> Failing(d) BY <1>4, <2>1, <2>2 DEF Failing
    <2> QED BY <1>2, <2>3, <2>4 DEF Claimed
  <1>11. ASSUME PublishDeadLetter(c) PROVE [Lifecycle!Next]_(Lifecycle!vars)
    <2>1. Failing(c) /\ UNCHANGED <<task, worker>> BY <1>11 DEF PublishDeadLetter, Failing
    <2>2. CASE Failing(c)'
      <3>1. Claimed /\ Claimed' BY <2>1, <2>2 DEF Claimed
      <3> QED BY <1>2, <2>1, <3>1
    <2>3. CASE ~Failing(c)'
      <3>1. task'.status \notin Waiting BY <2>1 DEF Orderly
      <3> QED BY <1>3, <1>4, <2>1, <2>3, <3>1 DEF Lifecycle!Next
    <2> QED BY <2>2, <2>3
  <1>12. ASSUME MarkTaskQueueFailed(c) PROVE Lifecycle!Next
    <2>1. Failing(c) /\ UNCHANGED worker BY <1>12 DEF MarkTaskQueueFailed, Failing
    <2>2. ~Failing(c)' BY <1>0, <1>12 DEF MarkTaskQueueFailed, Failing, IdleConsumer
    <2>3. task'.status \notin Waiting BY <1>0, <1>12 DEF MarkTaskQueueFailed, TaskRow, Waiting
    <2> QED BY <1>3, <1>4, <2>1, <2>2, <2>3 DEF Lifecycle!Next
  <1> QED BY <1>6, <1>7, <1>8, <1>9, <1>10, <1>11, <1>12 DEF Consume, ClaimError

(* A retry that commits is a new submission. *)
LEMMA UserIsLifecycle ==
  ASSUME TypeOK, Orderly, CountsOn, NEW q \in Requests, User(q)
  PROVE  [Lifecycle!Next]_(Lifecycle!vars)
  <1>1. UNCHANGED <<runCount, worker, consumer>>
    BY DEF User, CancelRead, RetryRead, Open, CancelCommit, RetryCommit, history
  <1>2. CASE RetryCommit(q)
    <2>1. ~Claimed /\ AtWork = {} BY <1>2 DEF RetryCommit, Orderly, Resting, AtWork
    <2>2. request[q].copy \in TaskRow BY DEF TypeOK, RequestState
    <2>3. task'.status = "PENDING" BY <1>2, <2>2 DEF RetryCommit, TaskRow
    <2>4. Claimed' BY <2>3 DEF Claimed, Waiting
    <2>5. AtWork' = {} /\ InTail' = InTail BY <1>1, <2>1 DEF AtWork, InTail, Dispatching
    <2>6. submitted' = submitted + 1 BY <1>2 DEF RetryCommit
    <2> QED BY <1>1, <2>1, <2>4, <2>5, <2>6 DEF Lifecycle!Next, Lifecycle!Resubmit, AtWork, InTail
  <1>3. CASE CancelRead(q) \/ RetryRead(q) \/ CancelCommit(q)
    <2>1. UNCHANGED submitted BY <1>3 DEF CancelRead, RetryRead, Open, CancelCommit
    <2> QED BY <1>1, <2>1, OnlyTheTask DEF TypeOK
  <1> QED BY <1>2, <1>3 DEF User

LEMMA LifecycleStep ==
  ASSUME TypeOK, Orderly, CountsOn, "dbError" \notin Env, [Next]_vars
  PROVE  [Lifecycle!Next]_(Lifecycle!vars)
  <1>1. CASE DispatchPendingTasks \/ UNCHANGED vars \/ Outside
    <2>1. UNCHANGED <<worker, consumer, runCount, submitted>>
      BY <1>1, OutsideLeaves DEF Untouched, DispatchPendingTasks, vars, users, history
    <2> QED BY <2>1, OnlyTheTask DEF TypeOK
  <1>2. ASSUME NEW w \in Workers, Dispatch(w) \/ Crash(w) PROVE [Lifecycle!Next]_(Lifecycle!vars)
    BY <1>2, WorkIsLifecycle, TailIsLifecycle
  <1> QED BY <1>1, <1>2, ConsumerIsLifecycle, UserIsLifecycle DEF Next

LEMMA LifecycleInit == Init => Lifecycle!Init
  <1> SUFFICES ASSUME Init PROVE Lifecycle!Init
    OBVIOUS
  <1>1. Claimed BY DEF Init, NoTask, Claimed, Waiting
  <1>2. AtWork = {} /\ InTail = {} BY DEF Init, AtWork, InTail, Dispatching, IdleWorker
  <1>3. runCount = 0 /\ submitted = 1 BY DEF Init
  <1>4. Claimed = TRUE BY <1>1, Zenon DEF Claimed
  <1> QED BY <1>2, <1>3, <1>4 DEF Lifecycle!Init, AtWork, InTail

(* The execution centre implements TaskLifecycle: whatever is lost,         *)
(* repeated, rejected, canceled, timed out, written back late or crashes,   *)
(* without retries, and also with them, one request at a time, every step   *)
(* of it is a step of the lifecycle or does not move it.                    *)
THEOREM ImplementsTaskLifecycle ==
  ASSUME ClaimsRespected \/ RetriesRespected
  PROVE  Spec => LifecycleKept
  <1>1. "dbError" \notin Env
    BY DEF ClaimsRespected, RetriesRespected
  <1>2. CASE ClaimsRespected
    <2>1. TypeOK /\ OneToken /\ [Next]_vars => [Lifecycle!Next]_(Lifecycle!vars)
      BY <1>1, <1>2, TokenIsOrderly, TokenCounts, LifecycleStep
    <2> QED BY <1>2, <2>1, TokenInv, LifecycleInit, PTL DEF Spec, LifecycleKept, Lifecycle!Spec
  <1>3. CASE RetriesRespected
    <2>1. TypeOK /\ OneRun /\ [Next]_vars => OneRun'
      BY <1>3, RunStep
    <2>2. TypeOK /\ OneRun /\ [Next]_vars => [Lifecycle!Next]_(Lifecycle!vars)
      BY <1>1, <1>3, RunIsOrderly, RunCounts, LifecycleStep
    <2> QED BY <2>1, <2>2, RunInit, Typed, LifecycleInit, PTL DEF Spec, LifecycleKept, Lifecycle!Spec
  <1> QED BY <1>2, <1>3

(* A claim is worth a submission that is not used yet. *)
Counted == runCount <= submitted /\ (Claimed => runCount < submitted)

(* What the lifecycle is worth, whoever implements it: one thread at a time *)
(* works on the task, runs never exceed submissions, and a submission comes *)
(* when nobody works.                                                       *)
THEOREM LifecycleMeansOrder ==
  LifecycleKept => [](OneDispatcher /\ NoReplay) /\ RetryOnlyWhenIdle
  <1> DEFINE Numbers == runCount \in Nat /\ submitted \in Nat
             LInv == Numbers /\ Counted /\ OneDispatcher
  <1> USE DEF AtWork, InTail
  <1>1. Lifecycle!Init => LInv
    BY DEF Lifecycle!Init, Counted, OneDispatcher
  <1>2. LInv /\ [Lifecycle!Next]_(Lifecycle!vars) => LInv'
    <2> SUFFICES ASSUME LInv, [Lifecycle!Next]_(Lifecycle!vars) PROVE LInv'
      OBVIOUS
    <2>1. ASSUME UNCHANGED <<runCount, submitted>>, Claimed' => Claimed PROVE (Numbers /\ Counted)'
      BY <2>1 DEF Counted
    <2>2. ASSUME AtWork' \subseteq AtWork PROVE OneDispatcher'
      BY <2>2 DEF OneDispatcher
    <2>3. ASSUME NEW w \in Workers, AtWork' \subseteq {w} PROVE OneDispatcher'
      BY <2>3 DEF OneDispatcher
    <2>4. CASE UNCHANGED Lifecycle!vars
      BY <2>1, <2>2, <2>4 DEF Lifecycle!vars
    <2>5. ASSUME NEW w \in Workers, Lifecycle!Claim(w) PROVE LInv'
      BY <2>1, <2>3, <2>5 DEF Lifecycle!Claim
    <2>6. ASSUME NEW w \in Workers, Lifecycle!Begin(w) PROVE LInv'
      <3>1. runCount' = runCount + 1 /\ submitted' = submitted /\ Claimed /\ ~Claimed'
        BY <2>6 DEF Lifecycle!Begin
      <3>2. (Numbers /\ Counted)' BY <3>1 DEF Counted
      <3> QED BY <2>2, <2>6, <3>2 DEF Lifecycle!Begin
    <2>7. ASSUME NEW w \in Workers, Lifecycle!End(w) PROVE LInv'
      BY <2>1, <2>2, <2>7 DEF Lifecycle!End
    <2>8. ASSUME NEW w \in Workers, Lifecycle!Reopen(w) PROVE LInv'
      BY <2>1, <2>3, <2>8 DEF Lifecycle!Reopen
    <2>9. ASSUME NEW w \in Workers, Lifecycle!Leave(w) PROVE LInv'
      BY <2>1, <2>2, <2>9 DEF Lifecycle!Leave
    <2>10. CASE Lifecycle!GiveUp
      BY <2>1, <2>2, <2>10 DEF Lifecycle!GiveUp
    <2>11. CASE Lifecycle!Resubmit
      <3>1. runCount' = runCount /\ submitted' = submitted + 1
        BY <2>11 DEF Lifecycle!Resubmit
      <3>2. (Numbers /\ Counted)' BY <3>1 DEF Counted
      <3> QED BY <2>2, <2>11, <3>2 DEF Lifecycle!Resubmit
    <2> QED BY <2>4, <2>5, <2>6, <2>7, <2>8, <2>9, <2>10, <2>11 DEF Lifecycle!Next
  <1>3. [Lifecycle!Next]_(Lifecycle!vars)
        => [submitted' # submitted => \A w \in Workers : ~Dispatching(w)]_vars
    <2> SUFFICES ASSUME [Lifecycle!Next]_(Lifecycle!vars), submitted' # submitted
                 PROVE  \A w \in Workers : ~Dispatching(w)
      OBVIOUS
    <2>1. Lifecycle!Resubmit
      BY DEF Lifecycle!Next, Lifecycle!vars, Lifecycle!Claim, Lifecycle!Begin, Lifecycle!End,
         Lifecycle!Reopen, Lifecycle!Leave, Lifecycle!GiveUp
    <2> QED BY <2>1 DEF Lifecycle!Resubmit
  <1>4. LInv => OneDispatcher /\ NoReplay
    BY DEF Counted, NoReplay
  <1> HIDE DEF LInv
  <1> QED BY <1>1, <1>2, <1>3, <1>4, PTL DEF LifecycleKept, Lifecycle!Spec, RetryOnlyWhenIdle

(* The queue never replays a task: a task has at most one run per time      *)
(* somebody submitted it, whatever is lost, delivered twice, crashes or     *)
(* fails, without retries and also with them, one request at a time.        *)
THEOREM RunsAreSubmitted ==
  ASSUME ClaimsRespected \/ RetriesRespected
  PROVE  Spec => []NoReplay
  BY ImplementsTaskLifecycle, LifecycleMeansOrder, PTL

(* A retry is accepted only while no thread works on the task.              *)
THEOREM RetriesFindNobody ==
  ASSUME RetriesRespected
  PROVE  Spec => RetryOnlyWhenIdle
  BY ImplementsTaskLifecycle, LifecycleMeansOrder, PTL

-----------------------------------------------------------------------------
(* The way of a dispatch from its bound run to its end. *)

InSteps == {"boundary", "announce", "run", "submit", "await"}

(* A run that is bound goes to its first step or the plan could not be      *)
(* restored.                                                                *)
LEMMA BindsOrThrows ==
  ASSUME TypeOK, NEW w \in Workers, Bind(w), worker'[w].pc # "queueFailed"
  PROVE  \E bound : /\ worker' = [worker EXCEPT ![w].pc = "boundary", ![w].copy = bound,
                                                ![w].guarded = TRUE]
                    /\ task' = bound /\ bound.status = "RUNNING"
  <1> DEFINE bound == [worker[w].copy EXCEPT !.status = "RUNNING", !.run = worker[w].run]
             thrown == [IdleWorker EXCEPT !.pc = "queueFailed"]
  <1>1. worker[w] \in WorkerState /\ worker \in [Workers -> WorkerState]
    BY WorkerFacts DEF TypeOK
  <1>2. thrown.pc = "queueFailed" BY DEF IdleWorker
  <1>3. bound.status = "RUNNING" BY <1>1 DEF WorkerState, TaskRow
  <1>4. \/ worker' = [worker EXCEPT ![w].pc = "boundary", ![w].copy = bound, ![w].guarded = TRUE]
        \/ worker' = [worker EXCEPT ![w] = thrown]
    BY DEF Bind
  <1>5. task' = bound BY DEF Bind
  <1> HIDE DEF bound, thrown
  <1>6. worker' # [worker EXCEPT ![w] = thrown]
    <2>1. [worker EXCEPT ![w] = thrown][w] = thrown BY <1>1
    <2> QED BY <1>2, <2>1
  <1> QED BY <1>3, <1>4, <1>5, <1>6

LEMMA DispatchGoes ==
  ASSUME TypeOK, NEW w \in Workers, Dispatch(w), HoldsRun(w),
         ~(Bind(w) /\ worker'[w].pc = "queueFailed")
  PROVE  /\ worker'[w].run = worker[w].run
         /\ worker'[w].guarded = (worker[w].guarded \/ worker[w].pc = "bind")
         /\ worker[w].pc # "finish" => worker'[w].pc \in InSteps \cup {"finish"}
         /\ worker[w].pc = "finish" => worker'[w].pc = "tail"
  <1>1. worker[w] \in WorkerState /\ worker \in [Workers -> WorkerState]
    BY WorkerFacts DEF TypeOK
  <1>2. ASSUME NEW pc \in InSteps \cup {"finish"}, NEW v, Verdict(w, pc, v)
        PROVE  worker'[w].run = worker[w].run /\ worker'[w].guarded = worker[w].guarded /\ worker'[w].pc = pc
    BY <1>1, <1>2 DEF Verdict, WorkerState
  <1>3. worker[w].guarded \in BOOLEAN BY <1>1 DEF WorkerState
  <1>4. CASE Bind(w)
    <2>1. PICK bound : worker' = [worker EXCEPT ![w].pc = "boundary", ![w].copy = bound,
                                                ![w].guarded = TRUE]
      BY <1>4, BindsOrThrows
    <2>2. worker[w].pc = "bind" BY <1>4 DEF Bind
    <2> QED BY <1>1, <2>1, <2>2 DEF WorkerState, InSteps
  <1>5. CASE Boundary(w)
    <2>1. CASE NoMoreSteps(w) \/ CancelSeen(w)
      BY <1>2, <1>3, <1>5, <2>1 DEF NoMoreSteps, CancelSeen, Boundary
    <2>2. CASE BeginStep(w)
      <3> DEFINE x == [worker[w] EXCEPT !.pc = "announce", !.step = worker[w].step + 1,
                         !.copy = IF Scenario = "GENERIC" THEN task ELSE @]
      <3>1. worker' = [worker EXCEPT ![w] = x] BY <2>2 DEF BeginStep
      <3>2. x.run = worker[w].run /\ x.guarded = worker[w].guarded /\ x.pc = "announce"
        BY <1>1 DEF WorkerState
      <3> HIDE DEF x
      <3>3. worker'[w] = x BY <1>1, <3>1
      <3> QED BY <1>3, <1>5, <3>2, <3>3 DEF Boundary, InSteps
    <2> QED BY <1>5, <2>1, <2>2 DEF Boundary
  <1>6. CASE Announce(w)
    BY <1>1, <1>6 DEF Announce, WorkerState, InSteps
  <1>7. CASE RunAgent(w) \/ Submit(w) \/ Await(w)
    <2>1. CompleteStep(w) \/ SubmitRunner(w) \/ EndStep(w, "FAILED") \/ EndStep(w, "CANCELED")
      BY <1>7 DEF RunAgent, Submit, Await
    <2>2. worker[w].pc \in {"run", "submit", "await"} BY <1>7 DEF RunAgent, Submit, Await
    <2>3. ASSUME NEW pc \in {"boundary", "await"}, worker' = [worker EXCEPT ![w].pc = pc]
          PROVE  /\ worker'[w].run = worker[w].run /\ worker'[w].guarded = worker[w].guarded
                 /\ worker'[w].pc = pc
      BY <1>1, <2>3 DEF WorkerState
    <2>5. CASE CompleteStep(w) \/ SubmitRunner(w)
      <3>1. PICK pc \in {"boundary", "await"} : worker' = [worker EXCEPT ![w].pc = pc]
        BY <2>5 DEF CompleteStep, SubmitRunner
      <3> QED BY <1>3, <2>2, <2>3, <3>1 DEF InSteps
    <2>4. CASE EndStep(w, "FAILED") \/ EndStep(w, "CANCELED")
      BY <1>2, <1>3, <2>2, <2>4 DEF EndStep
    <2> QED BY <2>1, <2>4, <2>5
  <1>8. CASE Finish(w)
    BY <1>1, <1>3, <1>8 DEF Finish, WorkerState
  <1>9. ~Start(w) /\ ~Insert(w) /\ ~Tail(w) /\ ~QueueFailed(w)
    BY DEF HoldsRun, Start, Insert, Tail, QueueFailed
  <1> QED BY <1>4, <1>5, <1>6, <1>7, <1>8, <1>9 DEF Dispatch

LEMMA OthersStay ==
  ASSUME TypeOK, NEW w \in Workers, Dispatch(w) \/ Crash(w)
  PROVE  /\ \A v \in Workers \ {w} : worker'[v] = worker[v]
         /\ UNCHANGED <<consumer, request, callback, submitted>>
  <1>1. \A v \in Workers \ {w} : worker'[v] = worker[v]
    BY DEF TypeOK, Dispatch, Start, Insert, Bind, Boundary, NoMoreSteps, CancelSeen, BeginStep,
       Announce, RunAgent, Submit, SubmitRunner, Await, CompleteStep, EndStep, Verdict, Finish,
       Tail, TailFailed, QueueFailed, Crash
  <1>2. UNCHANGED <<consumer, request, callback, submitted>>
    BY DEF Dispatch, Start, Insert, Bind, Boundary, Announce, RunAgent, Submit, Await, Finish,
       Tail, QueueFailed, Crash, users
  <1> QED BY <1>1, <1>2

-----------------------------------------------------------------------------
(* The workspaces.  One that is ACTIVE belongs to a thread that still has   *)
(* to schedule its cleanup; a crash and an exception before the cleanup     *)
(* break this.                                                              *)

Attends(w) == worker[w].pc \in InSteps \cup {"finish", "tail"}

OpenAttended ==
  \A r \in Runs : workspace[r] = "ACTIVE" => \E w \in Workers : Attends(w) /\ worker[w].run = r

CleanupsRespected == Env \cap {"crash", "tailError"} = {}

LEMMA OpenStep == CleanupsRespected /\ TypeOK /\ OpenAttended /\ [Next]_vars => OpenAttended'
  <1> SUFFICES ASSUME CleanupsRespected, TypeOK, OpenAttended, [Next]_vars PROVE OpenAttended'
    OBVIOUS
  <1>1. ASSUME UNCHANGED <<workspace, worker>> PROVE OpenAttended'
    BY <1>1 DEF OpenAttended, Attends
  <1>2. ASSUME NEW w \in Workers, \A v \in Workers \ {w} : worker'[v] = worker[v],
               \/ ~Attends(w)
               \/ Attends(w)' /\ worker'[w].run = worker[w].run
               \/ workspace'[worker[w].run] # "ACTIVE",
               \A r \in Runs : workspace'[r] = "ACTIVE" =>
                 workspace[r] = "ACTIVE" \/ (Attends(w)' /\ worker'[w].run = r)
        PROVE  OpenAttended'
    <2> SUFFICES ASSUME NEW r \in Runs, workspace'[r] = "ACTIVE"
                 PROVE  \E v \in Workers : Attends(v)' /\ worker'[v].run = r
      BY DEF OpenAttended
    <2>1. CASE Attends(w)' /\ worker'[w].run = r BY <2>1
    <2>2. CASE ~(Attends(w)' /\ worker'[w].run = r)
      <3>1. PICK v \in Workers : Attends(v) /\ worker[v].run = r
        BY <1>2, <2>2 DEF OpenAttended
      <3>2. v # w BY <1>2, <2>2, <3>1
      <3>3. worker'[v] = worker[v] BY <1>2, <3>2
      <3> QED BY <3>1, <3>3 DEF Attends
    <2> QED BY <2>1, <2>2
  <1>3. ASSUME NEW w \in Workers, Dispatch(w) PROVE OpenAttended'
    <2>1. \A v \in Workers \ {w} : worker'[v] = worker[v] BY <1>3, OthersStay
    <2>2. CASE HoldsRun(w) /\ ~Bind(w)
      <3>1. Attends(w)' /\ worker'[w].run = worker[w].run
        BY <1>3, <2>2, DispatchGoes DEF Attends
      <3>2. \/ UNCHANGED workspace
            \/ workspace' = [workspace EXCEPT ![worker[w].run] = "ACTIVE"]
        BY <1>3, <2>2 DEF HoldsRun, Dispatch, Start, Insert, Bind, Boundary, Announce, RunAgent, Submit,
           SubmitRunner, Await, Finish, Tail, QueueFailed, history
      <3>3. \A r \in Runs : workspace'[r] = "ACTIVE" => workspace[r] = "ACTIVE" \/ worker[w].run = r
        BY <3>2 DEF TypeOK
      <3>4. \A r \in Runs : workspace'[r] = "ACTIVE" =>
              workspace[r] = "ACTIVE" \/ (Attends(w)' /\ worker'[w].run = r)
        BY <3>1, <3>3 DEF Attends
      <3> QED BY <1>2, <2>1, <3>1, <3>4
    <2>3. CASE Tail(w)
      <3>1. ScheduleCleanup(w) BY <2>3 DEF Tail, CleanupsRespected
      <3>2. \A r \in Runs : workspace'[r] = "ACTIVE" => workspace[r] = "ACTIVE" /\ r # worker[w].run
        BY <3>1 DEF ScheduleCleanup
      <3> SUFFICES ASSUME NEW r \in Runs, workspace'[r] = "ACTIVE"
                   PROVE  \E v \in Workers : Attends(v)' /\ worker'[v].run = r
        BY DEF OpenAttended
      <3>3. PICK v \in Workers : Attends(v) /\ worker[v].run = r
        BY <3>2 DEF OpenAttended
      <3>4. worker'[v] = worker[v] BY <2>1, <3>2, <3>3
      <3> QED BY <3>3, <3>4 DEF Attends
    <2>4. CASE Start(w) \/ Insert(w) \/ Bind(w) \/ QueueFailed(w)
      <3>1. ~Attends(w) BY <2>4 DEF Attends, InSteps, Start, Insert, Bind, QueueFailed
      <3>2. UNCHANGED workspace BY <2>4 DEF Start, Insert, Bind, QueueFailed, history
      <3>3. \A r \in Runs : workspace'[r] = "ACTIVE" =>
              workspace[r] = "ACTIVE" \/ (Attends(w)' /\ worker'[w].run = r)
        BY <3>2 DEF Attends
      <3> QED BY <1>2, <2>1, <3>1, <3>3
    <2> QED BY <1>3, <2>2, <2>3, <2>4 DEF Dispatch, HoldsRun, Boundary, Announce, RunAgent, Submit, Await, Finish
  <1>4. ASSUME NEW w \in Workers PROVE ~Crash(w)
    BY DEF Crash, CleanupsRespected
  <1>5. ASSUME NEW c \in Consumers, Consume(c) PROVE OpenAttended'
    <2>1. ASSUME NEW a \in Attempts, NEW w \in Workers, Claim(c, w, a) PROVE OpenAttended'
      <3>1. ~Attends(w) /\ \A v \in Workers \ {w} : worker'[v] = worker[v]
        BY <2>1 DEF Claim, Attends, InSteps, TypeOK
      <3>2. \A r \in Runs : workspace'[r] = "ACTIVE" =>
              workspace[r] = "ACTIVE" \/ (Attends(w)' /\ worker'[w].run = r)
        BY <2>1 DEF Attends, Claim, history
      <3> QED BY <1>2, <3>1, <3>2
    <2>2. CASE UNCHANGED <<workspace, worker>> BY <1>1, <2>2
    <2> QED BY <1>5, <2>1, <2>2 DEF Consume, Reject, Skip, ClaimError, MarkTaskRetrying, PublishRetry,
           PublishDeadLetter, MarkTaskQueueFailed, history
  <1>6. ASSUME NEW q \in Requests, User(q) PROVE OpenAttended'
    BY <1>1, <1>6 DEF User, CancelRead, RetryRead, Open, CancelCommit, RetryCommit, history
  <1>7. ASSUME Outside PROVE OpenAttended'
    <2>1. UNCHANGED <<workspace, worker>>
      BY <1>7, OutsideLeaves DEF Untouched
    <2> QED BY <1>1, <2>1
  <1>8. CASE DispatchPendingTasks \/ UNCHANGED vars
    BY <1>1, <1>8 DEF DispatchPendingTasks, vars, history
  <1> QED BY <1>3, <1>4, <1>5, <1>6, <1>7, <1>8 DEF Next

(* Every workspace a runner opened is handed to the cleanup by the time no  *)
(* thread works on the task, however the task ended and however often it    *)
(* was dispatched.                                                          *)
THEOREM WorkspacesAreCleaned ==
  ASSUME CleanupsRespected
  PROVE  Spec => []NoWorkspaceLeak
  <1>1. Init => OpenAttended
    BY DEF Init, OpenAttended
  <1>2. OpenAttended => NoWorkspaceLeak
    BY DEF OpenAttended, NoWorkspaceLeak, AllIdle, Attends, InSteps
  <1> QED BY <1>1, <1>2, OpenStep, Typed, PTL DEF Spec

-----------------------------------------------------------------------------
(* The settlement.  While the charge is open there is a thread on its way   *)
(* to the tail of a finish method, or no run was ever inserted and the task *)
(* is not over.  What breaks this is a thread that stops or throws before   *)
(* it settles.                                                              *)

ToSettle(w) == worker[w].pc \notin {"idle", "queued"}

SettlementDue ==
  /\ Stepped
  /\ \A k \in Callbacks : Busy(k) => runCount # 0
  /\ credit.status = "CHARGED" =>
       \/ \E w \in Workers : ToSettle(w)
       \/ runCount = 0 /\ task.status \notin Terminal

SettlementsRespected == Env \cap {"crash", "tailError", "noTransaction"} = {}

LEMMA SettleSettles == SettledCredit.status # "CHARGED"
  BY DEF SettledCredit

LEMMA DispatchDue ==
  ASSUME SettlementsRespected, TypeOK, RunsOwned, SettlementDue, NEW w \in Workers, Dispatch(w)
  PROVE  SettlementDue'
  <1>1. /\ \A v \in Workers \ {w} : worker'[v] = worker[v]
        /\ UNCHANGED callback
    BY OthersStay
  <1>2. (runCount # 0 => runCount' # 0) /\ Stepped'
    BY DispatchStepped DEF SettlementDue
  <1>3. \A k \in Callbacks : Busy(k)' => runCount' # 0
    BY <1>1, <1>2 DEF SettlementDue, Busy
  <1>4. ASSUME ToSettle(w)' PROVE SettlementDue'
    BY <1>2, <1>3, <1>4 DEF SettlementDue
  <1>5. ASSUME credit'.status # "CHARGED" PROVE SettlementDue'
    BY <1>2, <1>3, <1>5 DEF SettlementDue
  <1>6. worker[w] \in WorkerState /\ worker \in [Workers -> WorkerState]
    BY WorkerFacts DEF TypeOK
  <1>7. CASE HoldsRun(w)
    BY <1>4, <1>7, DispatchGoes DEF ToSettle, InSteps
  <1>8. CASE Start(w)
    <2>1. UNCHANGED <<runCount, credit>> BY <1>8 DEF Start, history, money
    <2>2. CASE task.status = "RUNNING"
      <3>1. worker'[w].pc \in {"tail", "insert"}
        BY <1>6, <1>8, <2>2 DEF Start, WorkerState
      <3> QED BY <1>4, <3>1 DEF ToSettle
    <2>3. CASE task.status # "RUNNING"
      <3>1. UNCHANGED task BY <1>8, <2>3 DEF Start
      <3>2. \A v \in Workers : ToSettle(v) => ToSettle(v)'
        BY <1>1, <1>8 DEF ToSettle, Start
      <3> QED BY <1>2, <1>3, <2>1, <3>1, <3>2 DEF SettlementDue
    <2> QED BY <2>2, <2>3
  <1>9. CASE Insert(w)
    <2>1. worker'[w].pc \in {"bind", "queueFailed"} BY <1>6, <1>9 DEF Insert, WorkerState
    <2> QED BY <1>4, <2>1 DEF ToSettle
  <1>10. CASE Tail(w) \/ QueueFailed(w)
    <2>1. Settle BY <1>10 DEF Tail, QueueFailed, SettlementsRespected
    <2> QED BY <1>5, <2>1, SettleSettles DEF Settle
  <1> QED BY <1>7, <1>8, <1>9, <1>10 DEF Dispatch, HoldsRun, Bind, Boundary, Announce, RunAgent, Submit,
         Await, Finish

LEMMA DueStep ==
  SettlementsRespected /\ TypeOK /\ RunsOwned /\ SettlementDue /\ [Next]_vars => SettlementDue'
  <1> SUFFICES ASSUME SettlementsRespected, TypeOK, RunsOwned, SettlementDue, [Next]_vars
               PROVE  SettlementDue'
    OBVIOUS
  <1>1. ASSUME UNCHANGED <<runCount, worker, steps, callback>>,
               \/ UNCHANGED <<task, credit>>
               \/ credit'.status # "CHARGED"
               \/ UNCHANGED credit /\ task'.status \notin Terminal
        PROVE  SettlementDue'
    BY <1>1 DEF SettlementDue, ToSettle, Stepped, Busy
  (* Nobody touches a step or settles from outside before there is a run.   *)
  <1>2. ASSUME runCount # 0, UNCHANGED <<runCount, worker, credit>> PROVE SettlementDue'
    BY <1>2 DEF SettlementDue, ToSettle, Stepped
  <1>3. "PENDING" \notin Terminal /\ "RETRYING" \notin Terminal /\ "RUNNING" \notin Terminal
    BY DEF Terminal
  <1>4. task \in TaskRow BY DEF TypeOK
  <1>5. ASSUME NEW c \in Consumers, Consume(c) PROVE SettlementDue'
    <2>1. ASSUME NEW a \in Attempts, NEW w \in Workers, Claim(c, w, a) PROVE SettlementDue'
      <3>1. task'.status = "RUNNING" /\ UNCHANGED <<runCount, steps, callback, credit>>
        BY <1>4, <2>1 DEF Claim, TaskRow, history, money
      <3>2. \A v \in Workers : ToSettle(v) => ToSettle(v)'
        BY <2>1 DEF Claim, TypeOK, ToSettle
      <3> QED BY <1>3, <3>1, <3>2 DEF SettlementDue, Stepped, Busy
    <2>2. ASSUME NEW a \in Attempts, Reject(c, a) PROVE SettlementDue'
      <3>1. task'.status = "RUNNING" BY <1>4, <2>2 DEF Reject, TaskRow
      <3> QED BY <1>1, <1>3, <2>2, <3>1 DEF Reject, history, money
    <2>3. ASSUME MarkTaskRetrying(c) PROVE SettlementDue'
      <3>1. task'.status = "RETRYING" BY <1>4, <2>3 DEF MarkTaskRetrying, TaskRow
      <3> QED BY <1>1, <1>3, <2>3, <3>1 DEF MarkTaskRetrying, history, money
    <2>4. ASSUME MarkTaskQueueFailed(c) PROVE SettlementDue'
      BY <1>1, <2>4, SettleSettles DEF MarkTaskQueueFailed, Settle, history
    <2>5. ASSUME UNCHANGED <<runCount, worker, steps, callback, task, credit>> PROVE SettlementDue'
      BY <1>1, <2>5
    <2> QED BY <1>5, <2>1, <2>2, <2>3, <2>4, <2>5 DEF Consume, Skip, ClaimError, PublishRetry,
           PublishDeadLetter, history, money
  <1>6. ASSUME NEW q \in Requests, User(q) PROVE SettlementDue'
    <2>0. request[q].copy \in TaskRow /\ request[q].runRow.step \in 0..NumSteps
      BY DEF TypeOK, RequestState, RunRow
    <2>1. ASSUME CancelRead(q) \/ RetryRead(q) PROVE SettlementDue'
      BY <1>1, <2>1 DEF CancelRead, RetryRead, Open, history, money
    <2>2. ASSUME RetryCommit(q) PROVE SettlementDue'
      <3>1. task'.status = "PENDING" BY <2>0, <2>2 DEF RetryCommit, TaskRow
      <3> QED BY <1>1, <1>3, <2>2, <3>1 DEF RetryCommit, history, money
    <2>3. ASSUME CancelCommit(q) PROVE SettlementDue'
      <3>1. UNCHANGED <<runCount, worker, callback>> BY <2>3 DEF CancelCommit
      <3>2. CASE CancelPending(q)
        BY <1>1, <3>1, <3>2, SettleSettles DEF CancelPending, Settle
      <3>3. CASE RequestCancel(q)
        <4>1. task'.status = "RUNNING" BY <2>0, <3>3 DEF RequestCancel, TaskRow
        <4> QED BY <1>1, <1>3, <3>1, <3>3, <4>1 DEF RequestCancel
      <3>4. CASE CancelLiveStep(q)
        <4>1. LiveStep(q) BY <3>4 DEF CancelLiveStep
        <4>2. runCount # 0 BY <4>1, LiveStepIsThere DEF SettlementDue, Stepped
        <4> QED BY <1>2, <3>1, <3>4, <4>2 DEF CancelLiveStep
      <3> QED BY <2>3, <3>2, <3>3, <3>4 DEF CancelCommit
    <2> QED BY <1>6, <2>1, <2>2, <2>3 DEF User
  <1>7. ASSUME Outside PROVE SettlementDue'
    <2>1. UNCHANGED <<runCount, worker, credit>>
      BY <1>7, OutsideLeaves DEF Untouched
    <2>2. runCount # 0 BY <1>7, OutsideLeaves DEF Found, SettlementDue, Stepped
    <2> QED BY <1>2, <2>1, <2>2
  <1>8. CASE DispatchPendingTasks \/ UNCHANGED vars
    BY <1>1, <1>8 DEF DispatchPendingTasks, vars, history, money
  <1>9. \A w \in Workers : ~Crash(w)
    BY DEF Crash, SettlementsRespected
  <1> QED BY <1>5, <1>6, <1>7, <1>8, <1>9, DispatchDue DEF Next

(* If the settlement had the transaction its lookup asks for, no thread     *)
(* died and no tail threw, a task that is over would be settled as soon as  *)
(* no thread works on it: no entry point that ends a task forgets to, and   *)
(* no retry, user, runner or consumer gets in the way.  On the executor     *)
(* threads the code opens no such transaction: there TerminalMeansSettled   *)
(* fails (the run unsettled).  UnstartedTasksAreSettled needs none of this. *)
THEOREM SettledGivenTransactions ==
  ASSUME SettlementsRespected
  PROVE  Spec => []TerminalMeansSettled
  <1>1. Init => SettlementDue
    BY DEF Init, SettlementDue, Stepped, Busy, NoStep, NoTask, NoCallback, Terminal
  <1>2. SettlementDue => TerminalMeansSettled
    BY DEF SettlementDue, TerminalMeansSettled, AllIdle, ToSettle
  <1> QED BY <1>1, <1>2, DueStep, RunsOwnedInit, RunsStep, Typed, PTL DEF Spec

-----------------------------------------------------------------------------
(* What holds of the settlement as the code is.  The entry points that end  *)
(* a task no thread has begun a run for are transactions of their own: the  *)
(* consumer at its last attempt and the user who cancels a waiting task.    *)
(* Only the cancelation of a claimed task reaches a thread before its run.  *)

UnstartedSettled == task.status \in Terminal /\ runCount = 0 => credit.status # "CHARGED"

Unstarted ==
  /\ Stepped
  /\ \A k \in Callbacks : Busy(k) => runCount # 0
  /\ \A q \in Requests : request[q].pc = "cancel" => request[q].copy.status = "PENDING"
  /\ runCount = 0 =>
       /\ task.status \in Terminal => credit.status # "CHARGED"
       /\ ~task.cancel
       /\ \A w \in Workers : \/ worker[w].pc \in {"idle", "queued"}
                             \/ worker[w].pc = "insert" /\ worker[w].run = 1

LEMMA UnstartedStep ==
  ASSUME "cancelRunning" \notin Env
  PROVE  TypeOK /\ RunsOwned /\ Unstarted /\ [Next]_vars => Unstarted'
  <1> SUFFICES ASSUME TypeOK, RunsOwned, Unstarted, [Next]_vars PROVE Unstarted'
    OBVIOUS
  <1>1. task \in TaskRow /\ runCount \in Nat /\ "PENDING" \notin Terminal
        /\ "RETRYING" \notin Terminal /\ "RUNNING" \notin Terminal
    BY ConstantsAssumption DEF TypeOK, Terminal
  (* Nothing outside a dispatch moves a thread, a run or a step.            *)
  <1>2. ASSUME UNCHANGED <<runCount, worker, steps, callback>>,
               \A q \in Requests : request'[q].pc = "cancel" => request'[q].copy.status = "PENDING",
               runCount = 0 => ~task'.cancel,
               \/ UNCHANGED <<task, credit>>
               \/ credit'.status # "CHARGED"
               \/ UNCHANGED credit /\ task'.status \notin Terminal
        PROVE  Unstarted'
    BY <1>2 DEF Unstarted, Stepped, Busy
  <1>3. ASSUME NEW w \in Workers, Dispatch(w) \/ Crash(w) PROVE Unstarted'
    <2>1. /\ \A v \in Workers \ {w} : worker'[v] = worker[v]
          /\ UNCHANGED <<request, callback>>
      BY <1>3, OthersStay
    <2>2. (runCount # 0 => runCount' # 0) /\ Stepped'
      BY <1>3, DispatchStepped DEF Unstarted
    <2>3. worker[w] \in WorkerState /\ worker \in [Workers -> WorkerState]
      BY WorkerFacts DEF TypeOK
    <2>4. CASE runCount' # 0 BY <2>1, <2>2, <2>4 DEF Unstarted, Busy
    <2>5. CASE runCount' = 0
      <3>1. runCount = 0 BY <2>2, <2>5
      <3>2. ~task.cancel /\ (worker[w].pc = "insert" => worker[w].run - 1 = runCount)
        BY <3>1 DEF Unstarted
      <3>3. ~Insert(w)
        BY <1>1, <2>5, <3>1, <3>2 DEF Insert
      <3>4. Start(w) \/ Crash(w)
        BY <1>3, <3>1, <3>3 DEF Unstarted, Dispatch, Bind, Boundary, Announce, RunAgent, Submit, Await,
           Finish, Tail, QueueFailed
      <3>5. UNCHANGED <<task, credit>> BY <3>2, <3>4 DEF Start, Crash, money
      <3>6. \/ worker'[w].pc = "idle"
            \/ worker'[w].pc = "insert" /\ worker'[w].run = 1
        BY <2>3, <3>1, <3>2, <3>4 DEF Start, Crash, WorkerState, IdleWorker
      <3> QED BY <2>1, <2>2, <3>1, <3>5, <3>6 DEF Unstarted, Busy
    <2> QED BY <2>4, <2>5
  <1>4. ASSUME NEW c \in Consumers, Consume(c) PROVE Unstarted'
    <2>1. UNCHANGED request
      BY <1>4 DEF Consume, Reject, Skip, ClaimError, Claim, MarkTaskRetrying, PublishRetry,
         PublishDeadLetter, MarkTaskQueueFailed, users
    <2>2. ASSUME NEW a \in Attempts, NEW w \in Workers, Claim(c, w, a) PROVE Unstarted'
      <3>1. /\ task'.status = "RUNNING" /\ task'.cancel = task.cancel
            /\ UNCHANGED <<runCount, steps, callback, credit>>
        BY <1>1, <2>2 DEF Claim, TaskRow, history, money
      <3>2. worker'[w].pc = "queued" /\ \A v \in Workers \ {w} : worker'[v] = worker[v]
        BY <2>2 DEF Claim, TypeOK, IdleWorker
      <3> QED BY <1>1, <2>1, <3>1, <3>2 DEF Unstarted, Stepped, Busy
    <2>3. ASSUME NEW a \in Attempts, Reject(c, a) PROVE Unstarted'
      <3>1. task'.status = "RUNNING" /\ task'.cancel = task.cancel
        BY <1>1, <2>3 DEF Reject, TaskRow
      <3> QED BY <1>1, <1>2, <2>1, <2>3, <3>1 DEF Reject, history, money, Unstarted
    <2>4. ASSUME MarkTaskRetrying(c) PROVE Unstarted'
      <3>1. task'.status = "RETRYING" /\ task'.cancel = task.cancel
        BY <1>1, <2>4 DEF MarkTaskRetrying, TaskRow
      <3> QED BY <1>1, <1>2, <2>1, <2>4, <3>1 DEF MarkTaskRetrying, history, money, Unstarted
    <2>5. ASSUME MarkTaskQueueFailed(c) PROVE Unstarted'
      <3>1. ~task'.cancel BY <1>1, <2>5 DEF MarkTaskQueueFailed, TaskRow
      <3> QED BY <1>2, <2>1, <2>5, <3>1, SettleSettles DEF MarkTaskQueueFailed, Settle, history, Unstarted
    <2>6. ASSUME UNCHANGED <<runCount, worker, steps, callback, task, credit>> PROVE Unstarted'
      BY <1>2, <2>1, <2>6 DEF Unstarted
    <2> QED BY <1>4, <2>2, <2>3, <2>4, <2>5, <2>6 DEF Consume, Skip, ClaimError, PublishRetry,
           PublishDeadLetter, history, money
  <1>5. ASSUME NEW q \in Requests, User(q) PROVE Unstarted'
    <2>0. request \in [Requests -> RequestState] /\ request[q].copy \in TaskRow
      BY DEF TypeOK, RequestState
    <2>1. \A p \in Requests \ {q} : request'[p] = request[p]
      BY <1>5, <2>0 DEF User, CancelRead, RetryRead, Open, CancelCommit, RetryCommit
    <2>2. ASSUME CancelRead(q) \/ RetryRead(q) PROVE Unstarted'
      <3>1. request'[q].pc = "cancel" => request'[q].copy.status = "PENDING"
        BY <2>0, <2>2 DEF CancelRead, RetryRead, Open
      <3> QED BY <1>2, <2>1, <2>2, <3>1 DEF CancelRead, RetryRead, Open, history, money, Unstarted
    <2>3. ASSUME RetryCommit(q) PROVE Unstarted'
      <3>1. task'.status = "PENDING" /\ ~task'.cancel /\ request'[q].pc = "idle"
        BY <2>0, <2>3 DEF RetryCommit, TaskRow, IdleRequest
      <3> QED BY <1>1, <1>2, <2>1, <2>3, <3>1 DEF RetryCommit, history, money, Unstarted
    <2>4. ASSUME CancelCommit(q) PROVE Unstarted'
      <3>1. request[q].copy.status = "PENDING" /\ request'[q].pc = "idle"
        BY <2>0, <2>4 DEF CancelCommit, Unstarted, IdleRequest
      <3>2. CancelPending(q) /\ UNCHANGED <<runCount, worker, callback>>
        BY <2>4, <3>1 DEF CancelCommit, CancelLiveStep, RequestCancel
      <3>3. ~task'.cancel BY <2>0, <3>2 DEF CancelPending, TaskRow
      <3> QED BY <1>2, <2>1, <3>1, <3>2, <3>3, SettleSettles DEF CancelPending, Settle, Unstarted
    <2> QED BY <1>5, <2>2, <2>3, <2>4 DEF User
  <1>6. ASSUME Outside PROVE Unstarted'
    <2>1. UNCHANGED <<runCount, request>>
      BY <1>6, OutsideLeaves DEF Untouched
    <2>2. runCount # 0 BY <1>6, OutsideLeaves DEF Found, Unstarted, Stepped
    <2> QED BY <2>1, <2>2 DEF Unstarted, Stepped
  <1>7. CASE DispatchPendingTasks \/ UNCHANGED vars
    BY <1>2, <1>7 DEF DispatchPendingTasks, vars, users, history, money, Unstarted
  <1> QED BY <1>3, <1>4, <1>5, <1>6, <1>7 DEF Next

(* A task that ends before it has a run is settled when it ends: canceled   *)
(* while it waits, or given up by the consumer after the pool or the        *)
(* database refused it too often, whatever else fails, whether or not the   *)
(* executor threads have the transaction, and however often it is retried.  *)
(* The exception is the user who cancels a claimed task before its run.     *)
THEOREM UnstartedTasksAreSettled ==
  ASSUME "cancelRunning" \notin Env
  PROVE  Spec => []UnstartedSettled
  <1>1. Init => Unstarted
    BY DEF Init, Unstarted, Stepped, Busy, NoStep, NoTask, NoCallback, IdleWorker, IdleRequest, Terminal
  <1>2. Unstarted => UnstartedSettled
    BY DEF Unstarted, UnstartedSettled
  <1>3. TypeOK /\ RunsOwned /\ Unstarted /\ [Next]_vars => Unstarted'
    BY UnstartedStep
  <1> QED BY <1>1, <1>2, <1>3, RunsOwnedInit, RunsStep, Typed, PTL DEF Spec

-----------------------------------------------------------------------------
(* The charge.  Whoever settles holds the token; after that no step of the  *)
(* task is run again, so the design draft cannot appear behind a refund.  A *)
(* retry runs steps again, and the cancelation of a waiting task refunds    *)
(* without the token: these are excluded.                                   *)

Settled == credit.status \in {"RETAINED", "REFUNDED"}

ChargeClosed ==
  /\ PaidForDelivered
  /\ Settled =>
       /\ task.status \notin Waiting
       /\ \A c \in Consumers : ~Failing(c)
       /\ \A w \in Workers : worker[w].pc \in {"idle", "finish", "tail", "queueFailed"}
  /\ \A q \in Requests : request[q].pc = "cancel" => request[q].copy.status = "RUNNING"

ChargesRespected == Env \cap {"dbError", "retry", "cancelPending"} = {}

LEMMA SettledRight ==
  ASSUME TypeOK, PaidForDelivered, Settle, UNCHANGED delivered
  PROVE  PaidForDelivered' /\ (Settled => UNCHANGED credit)
  <1>1. credit \in CreditRow BY DEF TypeOK
  <1>2. CASE credit.status # "CHARGED"
    BY <1>2 DEF Settle, SettledCredit, PaidForDelivered
  <1>3. CASE credit.status = "CHARGED" /\ delivered
    <2>1. credit'.status = "RETAINED" BY <1>1, <1>3 DEF Settle, SettledCredit, CreditRow
    <2> QED BY <1>3, <2>1 DEF PaidForDelivered, Settled
  <1>4. CASE credit.status = "CHARGED" /\ ~delivered
    <2>1. credit'.status = "REFUNDED" BY <1>4 DEF Settle, SettledCredit
    <2> QED BY <1>4, <2>1 DEF PaidForDelivered, Settled
  <1> QED BY <1>2, <1>3, <1>4

LEMMA DispatchCharge ==
  ASSUME TypeOK, OneToken, ChargeClosed, NEW w \in Workers, Dispatch(w) \/ Crash(w)
  PROVE  ChargeClosed'
  <1>1. /\ \A v \in Workers \ {w} : worker'[v] = worker[v]
        /\ UNCHANGED <<consumer, request>>
    BY OthersStay
  <1>2. worker[w].pc # "idle"
    BY DEF Dispatch, Start, Insert, Bind, Boundary, Announce, RunAgent, Submit, Await, Finish,
       Tail, QueueFailed, Crash
  <1>3. task.status \notin Waiting /\ (UsesCopy(w) => worker[w].copy.status \notin Waiting)
        /\ (\A v \in Workers \ {w} : worker[v].pc = "idle") /\ (\A c \in Consumers : ~Failing(c))
    BY <1>2 DEF OneToken, Held
  <1>4. task'.status \notin Waiting /\ \A c \in Consumers : ~Failing(c)'
    BY <1>1, <1>3, DispatchWrites DEF Failing
  <1>5. ASSUME PaidForDelivered', worker'[w].pc \in {"idle", "finish", "tail", "queueFailed"}
        PROVE  ChargeClosed'
    BY <1>1, <1>3, <1>4, <1>5 DEF ChargeClosed, Settled
  <1>6. ASSUME ~Settled, UNCHANGED credit PROVE ChargeClosed'
    BY <1>1, <1>6 DEF ChargeClosed, Settled, PaidForDelivered
  <1>7. worker[w] \in WorkerState /\ worker \in [Workers -> WorkerState] /\ IdleWorker.pc = "idle"
    BY WorkerFacts DEF TypeOK, IdleWorker
  <1>8. CASE Tail(w) \/ QueueFailed(w)
    <2>1. worker'[w].pc \in {"idle", "finish", "queueFailed"}
      <3>1. CASE worker' = [worker EXCEPT ![w] = IdleWorker] BY <1>7, <3>1
      <3>2. CASE TailFailed(w) BY <1>7, <3>2 DEF TailFailed, WorkerState
      <3> QED BY <1>8, <3>1, <3>2 DEF Tail, QueueFailed
    <2>2. UNCHANGED delivered /\ (Settle \/ UNCHANGED credit)
      BY <1>8 DEF Tail, QueueFailed
    <2>3. PaidForDelivered'
      BY <2>2, SettledRight DEF ChargeClosed, PaidForDelivered
    <2> QED BY <1>5, <2>1, <2>3
  <1>9. CASE ~(Tail(w) \/ QueueFailed(w))
    <2>1. UNCHANGED credit
      BY <1>9 DEF Dispatch, Start, Insert, Bind, Boundary, Announce, RunAgent, Submit, Await, Finish,
         Crash, money
    <2>2. CASE ~Settled BY <1>6, <2>1, <2>2
    <2>3. CASE Settled
      <3>1. worker[w].pc = "finish" \/ Crash(w)
        BY <1>2, <1>9, <2>3 DEF ChargeClosed, Dispatch, Start, Insert, Bind, Boundary, Announce, RunAgent,
           Submit, Await, Finish
      <3>2. CASE Crash(w)
        <4>1. worker'[w].pc = "idle" BY <1>7, <3>2 DEF Crash
        <4>2. UNCHANGED delivered BY <3>2 DEF Crash, money
        <4> QED BY <1>5, <2>1, <4>1, <4>2 DEF ChargeClosed, PaidForDelivered
      <3>3. CASE ~Crash(w) /\ worker[w].pc = "finish"
        <4>1. Finish(w)
          BY <3>3 DEF Dispatch, Start, Insert, Bind, Boundary, Announce, RunAgent, Submit, Await, Tail,
             QueueFailed
        <4>2. worker'[w].pc = "tail" BY <1>7, <4>1 DEF Finish
        <4>3. UNCHANGED delivered BY <4>1 DEF Finish, money
        <4> QED BY <1>5, <2>1, <4>2, <4>3 DEF ChargeClosed, PaidForDelivered
      <3> QED BY <3>1, <3>2, <3>3
    <2> QED BY <2>2, <2>3
  <1> QED BY <1>8, <1>9

LEMMA ChargeStep ==
  ChargesRespected /\ TypeOK /\ OneToken /\ OneToken' /\ ChargeClosed /\ [Next]_vars => ChargeClosed'
  <1> SUFFICES ASSUME ChargesRespected, TypeOK, OneToken, OneToken', ChargeClosed, [Next]_vars
               PROVE  ChargeClosed'
    OBVIOUS
  <1>1. ASSUME UNCHANGED <<worker, request, credit, delivered>>,
               Settled => task'.status \notin Waiting,
               Settled => \A c \in Consumers : ~Failing(c)'
        PROVE  ChargeClosed'
    BY <1>1 DEF ChargeClosed, Settled, PaidForDelivered
  <1>2. task \in TaskRow BY DEF TypeOK
  <1>3. ASSUME NEW c \in Consumers, Consume(c) PROVE ChargeClosed'
    <2>1. UNCHANGED request /\ UNCHANGED delivered
      BY <1>3 DEF Consume, Reject, Skip, ClaimError, Claim, MarkTaskRetrying, PublishRetry,
         PublishDeadLetter, MarkTaskQueueFailed, users, money
    <2>2. ASSUME MarkTaskQueueFailed(c) PROVE ChargeClosed'
      <3>1. Failing(c) /\ UNCHANGED worker /\ Settle BY <2>2 DEF MarkTaskQueueFailed, Failing
      <3>2. task'.status = "FAILED" BY <1>2, <2>2 DEF MarkTaskQueueFailed, TaskRow
      <3>3. consumer'[c].pc = "idle" /\ \A d \in Consumers \ {c} : consumer'[d] = consumer[d]
        BY <2>2 DEF MarkTaskQueueFailed, TypeOK, IdleConsumer
      <3>4. (\A w \in Workers : worker[w].pc = "idle") /\ (\A d \in Consumers \ {c} : ~Failing(d))
        BY <3>1 DEF OneToken, Held
      <3>5. \A d \in Consumers : ~Failing(d)' BY <3>3, <3>4 DEF Failing
      <3>6. PaidForDelivered' BY <2>1, <3>1, SettledRight DEF ChargeClosed
      <3> QED BY <2>1, <3>1, <3>2, <3>4, <3>5, <3>6 DEF ChargeClosed, Waiting
    <2>3. ASSUME ~MarkTaskQueueFailed(c), ~Settled PROVE ChargeClosed'
      <3>1. UNCHANGED credit
        BY <1>3, <2>3 DEF Consume, Reject, Skip, ClaimError, Claim, MarkTaskRetrying, PublishRetry,
           PublishDeadLetter, money
      <3> QED BY <2>1, <2>3, <3>1 DEF ChargeClosed, Settled, PaidForDelivered
    <2>4. ASSUME Settled PROVE MarkTaskQueueFailed(c) \/ ChargeClosed'
      <3>1. (\A a \in Attempts : ~Claimable(a)) /\ (\A d \in Consumers : ~Failing(d))
        BY <2>4 DEF ChargeClosed, Claimable, Waiting
      <3>2. ~MarkTaskRetrying(c) /\ ~PublishDeadLetter(c)
        BY <3>1 DEF MarkTaskRetrying, PublishDeadLetter, Failing
      <3>3. \A a \in Attempts : ~ClaimError(c, a)
        BY DEF ClaimError, ChargesRespected
      <3>4. ASSUME NEW a \in Attempts, Skip(c, a) PROVE ChargeClosed'
        BY <1>1, <2>4, <3>1, <3>4 DEF Skip, ChargeClosed, Failing, users, money
      <3>5. ASSUME PublishRetry(c) PROVE ChargeClosed'
        <4>1. consumer' = [consumer EXCEPT ![c] = IdleConsumer]
          BY <3>5 DEF PublishRetry, Requeue
        <4>2. \A d \in Consumers : ~Failing(d)'
          BY <3>1, <4>1 DEF Failing, TypeOK, IdleConsumer
        <4> QED BY <1>1, <2>4, <3>5, <4>2 DEF PublishRetry, ChargeClosed, users, money
      <3> QED BY <1>3, <3>1, <3>2, <3>3, <3>4, <3>5 DEF Consume, Claim, Reject
    <2> QED BY <2>2, <2>3, <2>4
  <1>4. ASSUME NEW q \in Requests, User(q) PROVE ChargeClosed'
    <2>1. request \in [Requests -> RequestState] /\ request[q].copy \in TaskRow
      BY DEF TypeOK, RequestState
    <2>2. ASSUME CancelRead(q) PROVE ChargeClosed'
      <3>1. task.status = "RUNNING" /\ UNCHANGED <<task, consumer, worker, credit, delivered>>
        BY <2>2 DEF CancelRead, ChargesRespected, Open, money
      <3>2. request'[q].copy = task /\ \A p \in Requests \ {q} : request'[p] = request[p]
        BY <2>1, <2>2 DEF CancelRead, Open
      <3> QED BY <3>1, <3>2 DEF ChargeClosed, Settled, PaidForDelivered, Failing
    <2>3. ASSUME CancelCommit(q) PROVE ChargeClosed'
      <3>1. request[q].copy.status = "RUNNING"
        BY <2>3 DEF CancelCommit, ChargeClosed
      <3>2. task'.status \notin Waiting /\ UNCHANGED <<consumer, worker, credit, delivered>>
        BY <2>1, <2>3, <3>1 DEF CancelCommit, CancelPending, CancelLiveStep, RequestCancel, TaskRow, Waiting
      <3>3. request'[q].pc = "idle" /\ \A p \in Requests \ {q} : request'[p] = request[p]
        BY <2>1, <2>3 DEF CancelCommit, IdleRequest
      <3> QED BY <3>2, <3>3 DEF ChargeClosed, Settled, PaidForDelivered, Failing
    <2> QED BY <1>4, <2>2, <2>3 DEF User, RetryRead, RetryCommit, ChargesRespected, OneToken
  <1>5. ASSUME Outside PROVE ChargeClosed'
    <2>1. UNCHANGED <<runCount, worker, request, credit, delivered, consumer>>
      BY <1>5, OutsideLeaves DEF Untouched
    <2>3. runCount # 0 BY <1>5, OutsideLeaves DEF Found, OneToken, Stepped
    <2>4. task'.status \notin Waiting BY <2>1, <2>3 DEF OneToken
    <2> QED BY <1>1, <2>1, <2>4 DEF ChargeClosed, Failing
  <1>6. CASE DispatchPendingTasks \/ UNCHANGED vars
    BY <1>1, <1>6 DEF DispatchPendingTasks, vars, users, money, ChargeClosed, Failing
  <1> QED BY <1>3, <1>4, <1>5, <1>6, DispatchCharge DEF Next

(* Who got a design draft pays for it and who got none has the charge back, *)
(* in every submission that is not retried and not canceled while waiting.  *)
THEOREM ChargesFollowDelivery ==
  ASSUME ChargesRespected
  PROVE  Spec => []PaidForDelivered
  <1>1. ClaimsRespected BY DEF ChargesRespected, ClaimsRespected
  <1>2. Init => ChargeClosed
    BY DEF Init, ChargeClosed, PaidForDelivered, Settled, IdleRequest
  <1>3. ChargeClosed => PaidForDelivered BY DEF ChargeClosed
  <1>4. TypeOK /\ OneToken /\ OneToken' /\ ChargeClosed /\ [Next]_vars => ChargeClosed'
    BY ChargeStep
  <1>5. Spec => [](TypeOK /\ RunsOwned /\ OneToken) BY <1>1, TokenInv
  <1> QED BY <1>2, <1>3, <1>4, <1>5, PTL DEF Spec

-----------------------------------------------------------------------------
(* The rows agree.  A step is RUNNING only at the thread that works on it,  *)
(* whose finish method closes it, and whoever writes the task back holds a  *)
(* copy that is RUNNING or was never bound to a run.  A thread whose plan   *)
(* could not be restored leaves its run as it was inserted.  Late events    *)
(* and the watchdog write rows of runs that are over; a crash, an exception *)
(* in the tail and a retry leave a step or a run behind.                    *)

OpenTask(t) == t.status = "RUNNING" \/ t.run = 0

MayBeOpen(w) == \/ worker[w].pc \in InSteps \ {"boundary"}
                \/ worker[w].pc = "finish" /\ worker[w].verdict = "FAILED"

RowsAgree ==
  (\A w \in Workers : ~HoldsRun(w)) =>
    \/ task.status \notin Terminal \/ task.run = 0
    \/ runs[task.run].status = task.status
    \/ NeverBegun(runs[task.run])

StepsAttended ==
  \A r \in Runs, s \in StepNos : steps[r][s].status = "RUNNING" =>
    /\ \E w \in Workers : MayBeOpen(w) /\ worker[w].run = r /\ worker[w].step = s
    /\ OpenTask(task)

CopiesOpen ==
  /\ Busy("complete") => OpenTask(callback["complete"].copy)
  /\ \A w \in Workers : worker[w].pc \in InSteps => OpenTask(worker[w].copy)
  /\ \A w \in Workers : worker[w].pc = "boundary" => OpenTask(task)

Straight ==
  /\ \A w \in Workers : worker[w].pc \in InSteps \cup {"finish"} => worker[w].guarded
  /\ \A w \in Workers : worker[w].pc = "insert" => worker[w].run = runCount + 1
  /\ ~Busy("sweep") /\ ~Busy("events")

BoundLate ==
  /\ task.run # 0 => runCount # 0
  /\ \A q \in Requests : request[q].pc = "cancel" =>
       /\ request[q].copy.run # 0 => runCount # 0
       /\ request[q].copy.status = "PENDING" => request[q].copy.run = 0

(* The run as it was inserted, or none. *)
Fresh(n) == n = 0 \/ runs[n] = [status |-> "RUNNING", step |-> 0]

UnbegunAt(w) ==
  /\ worker[w].pc = "bind" => Fresh(worker[w].run)
  /\ worker[w].pc = "queueFailed" => "planError" \in Env
  /\ Fresh(task.run)
  /\ ~Busy("complete")
  /\ \A q \in Requests : request[q].pc = "cancel" => Fresh(request[q].copy.run)

BeforePlan(w) == worker[w].pc \in {"bind", "queueFailed"}

Unbegun == \A w \in Workers : BeforePlan(w) => UnbegunAt(w)

Outcome == RowsAgree /\ StepsAttended /\ CopiesOpen /\ Straight /\ BoundLate /\ Unbegun

OutcomesRespected ==
  Env \cap {"dbError", "retry", "crash", "tailError", "noTransaction", "lateEvents", "watchdog"} = {}

(* What the thread with the token owes for its next state. *)
LEMMA OutcomeKept ==
  ASSUME OneToken, Outcome, NEW w \in Workers, Held(w),
         \A v \in Workers \ {w} : worker'[v] = worker[v],
         UNCHANGED <<request, callback>>, runCount # 0 => runCount' # 0,
         \/ HoldsRun(w)' \/ task'.status \notin Terminal \/ task'.run = 0
         \/ runs'[task'.run].status = task'.status \/ NeverBegun(runs[task.run])',
         \A r \in Runs, s \in StepNos : steps'[r][s].status = "RUNNING" =>
           MayBeOpen(w)' /\ worker'[w].run = r /\ worker'[w].step = s /\ OpenTask(task'),
         worker'[w].pc \in InSteps => OpenTask(worker'[w].copy),
         worker'[w].pc = "boundary" => OpenTask(task'),
         worker'[w].pc \in InSteps \cup {"finish"} => worker'[w].guarded,
         BeforePlan(w)' => UnbegunAt(w)',
         worker'[w].pc = "insert" => worker'[w].run = runCount' + 1,
         task'.run # 0 => runCount' # 0
  PROVE  Outcome'
  <1>1. \A v \in Workers \ {w} : worker'[v] = worker[v] /\ worker'[v].pc = "idle"
    BY DEF OneToken, Held
  <1>2. RowsAgree' BY DEF RowsAgree
  <1>3. StepsAttended' BY DEF StepsAttended
  <1>4. CopiesOpen'
    <2>1. "idle" \notin InSteps /\ "idle" # "boundary" BY DEF InSteps
    <2> QED BY <1>1, <2>1 DEF Outcome, CopiesOpen, Busy
  <1>5. Straight'
    <2>1. "idle" \notin InSteps \cup {"finish"} BY DEF InSteps
    <2> QED BY <1>1, <2>1 DEF Outcome, Straight, Busy
  <1>6. BoundLate' BY DEF Outcome, BoundLate
  <1>7. Unbegun' BY <1>1 DEF Unbegun, BeforePlan
  <1> QED BY <1>2, <1>3, <1>4, <1>5, <1>6, <1>7 DEF Outcome

(* Before it moves: a RUNNING step is its own.                              *)
LEMMA OwnStep ==
  ASSUME OneToken, Outcome, NEW w \in Workers, Held(w),
         NEW r \in Runs, NEW s \in StepNos, steps[r][s].status = "RUNNING"
  PROVE  MayBeOpen(w) /\ worker[w].run = r /\ worker[w].step = s /\ OpenTask(task)
  <1>1. PICK v \in Workers : MayBeOpen(v) /\ worker[v].run = r /\ worker[v].step = s
    BY DEF Outcome, StepsAttended
  <1>2. Held(v) BY <1>1 DEF MayBeOpen, Held, InSteps
  <1>3. v = w BY <1>2 DEF OneToken
  <1> QED BY <1>1, <1>3 DEF Outcome, StepsAttended

(* A step that is RUNNING belongs to a thread that restored its plan.       *)
LEMMA PlanIsThere ==
  ASSUME OneToken, Outcome, NEW r \in Runs, NEW s \in StepNos, steps[r][s].status = "RUNNING"
  PROVE  \A w \in Workers : ~BeforePlan(w)
  <1>1. PICK v \in Workers : MayBeOpen(v)
    BY DEF Outcome, StepsAttended
  <1>2. Held(v) /\ ~BeforePlan(v) BY <1>1 DEF MayBeOpen, Held, InSteps, BeforePlan
  <1>3. \A w \in Workers : BeforePlan(w) => Held(w) BY DEF BeforePlan, Held
  <1> QED BY <1>2, <1>3 DEF OneToken

LEMMA BeforeRun ==
  ASSUME TypeOK, RunsOwned, OneToken, Outcome, OutcomesRespected, NEW w \in Workers,
         Start(w) \/ Insert(w)
  PROVE  Outcome'
  <1>1. worker[w] \in WorkerState /\ worker \in [Workers -> WorkerState] /\ task \in TaskRow
    BY WorkerFacts DEF TypeOK
  <1>2. Held(w) /\ Dispatch(w) BY DEF Held, Start, Insert, Dispatch
  <1>3. /\ \A v \in Workers \ {w} : worker'[v] = worker[v]
        /\ UNCHANGED <<request, callback>> /\ (runCount # 0 => runCount' # 0)
    BY <1>2, OthersStay, DispatchStepped DEF OneToken
  <1>4. UNCHANGED steps BY DEF Start, Insert, history
  <1>5. \A r \in Runs, s \in StepNos : steps'[r][s].status # "RUNNING"
    <2>1. ~MayBeOpen(w) BY DEF MayBeOpen, InSteps, Start, Insert
    <2> QED BY <1>2, <1>4, <2>1, OwnStep
  <1>6. runCount = 0 /\ task.run = 0
    BY DEF Start, Insert, OneToken, Outcome, BoundLate
  <1>7. CASE Start(w)
    <2>1. task'.run = 0 BY <1>1, <1>6, <1>7 DEF Start, TaskRow
    <2>2. worker'[w].pc \in {"idle", "tail", "insert"}
      BY <1>1, <1>7 DEF Start, WorkerState, IdleWorker
    <2>3. worker'[w].pc = "insert" => worker'[w].run = runCount' + 1
      BY <1>1, <1>7 DEF Start, WorkerState, IdleWorker, history
    <2> QED BY <1>2, <1>3, <1>5, <2>1, <2>2, <2>3, OutcomeKept DEF InSteps, BeforePlan
  <1>8. CASE Insert(w)
    <2>1. runCount = worker[w].run - 1
      <3>1. worker[w].run = runCount + 1 /\ runCount = 0
        BY <1>6, <1>8 DEF Insert, Outcome, Straight
      <3> QED BY <3>1
    <2>2. worker'[w].pc = "bind" BY <1>1, <1>8, <2>1 DEF Insert, WorkerState
    <2>3. HoldsRun(w)' BY <2>2 DEF HoldsRun
    <2>4. task'.run = 0 BY <1>6, <1>8 DEF Insert
    <2>5. UnbegunAt(w)'
      <3>1. worker'[w].run = worker[w].run /\ worker[w].run \in Runs
        <4>1. worker[w].run = 1 /\ worker[w].run \in 0..MaxRuns
          BY <1>1, <1>6, <1>8 DEF Insert, Outcome, Straight, WorkerState
        <4>2. worker[w].run \in Runs BY <4>1, ConstantsAssumption DEF Runs
        <4> QED BY <1>1, <1>8, <2>1, <4>2 DEF Insert, WorkerState
      <3>2. runs'[worker[w].run] = [status |-> "RUNNING", step |-> 0]
        BY <1>8, <2>1, <3>1 DEF Insert, TypeOK
      <3>3. ~Busy("complete")' BY <1>3, <1>6 DEF OneToken, Busy, Callbacks
      <3>4. \A q \in Requests : request'[q].pc = "cancel" => request'[q].copy.run = 0
        BY <1>3, <1>6 DEF Outcome, BoundLate
      <3> QED BY <2>2, <2>4, <3>1, <3>2, <3>3, <3>4 DEF UnbegunAt, Fresh
    <2> QED BY <1>2, <1>3, <1>5, <2>2, <2>3, <2>4, <2>5, OutcomeKept DEF InSteps
  <1> QED BY <1>7, <1>8

LEMMA InRun ==
  ASSUME TypeOK, RunsOwned, OneToken, Outcome, OutcomesRespected, NEW w \in Workers,
         Dispatch(w), HoldsRun(w), ~(Bind(w) /\ worker'[w].pc = "queueFailed")
  PROVE  Outcome'
  <1> DEFINE me == worker[w]  r == worker[w].run  s == worker[w].step
  <1>1. worker[w] \in WorkerState /\ worker \in [Workers -> WorkerState] /\ task \in TaskRow
        /\ steps \in [Runs -> [StepNos -> StepRow]]
    BY WorkerFacts DEF TypeOK
  <1>2. Held(w) BY DEF Held, HoldsRun
  <1>3. /\ \A v \in Workers \ {w} : worker'[v] = worker[v]
        /\ UNCHANGED <<request, callback>> /\ (runCount # 0 => runCount' # 0)
    BY OthersStay, DispatchStepped DEF OneToken
  <1>4. r \in 1..runCount /\ runCount \in 0..MaxRuns BY DEF RunsOwned, Owns, TypeOK
  <1>5. r \in Runs /\ runCount # 0
    BY <1>4, ConstantsAssumption DEF Runs
  <1>6. \A i \in Runs, j \in StepNos : steps[i][j].status = "RUNNING" =>
          MayBeOpen(w) /\ r = i /\ s = j /\ OpenTask(task)
    BY <1>2, OwnStep
  <1>7. /\ me.pc \in InSteps \cup {"finish"} => me.guarded
        /\ me.pc \in InSteps => OpenTask(me.copy)
        /\ me.pc = "boundary" => OpenTask(task)
    BY DEF Outcome, CopiesOpen, Straight
  <1>8. /\ worker'[w].run = r
        /\ worker'[w].guarded
        /\ me.pc # "finish" => worker'[w].pc \in InSteps \cup {"finish"}
        /\ me.pc = "finish" => worker'[w].pc = "tail"
    BY <1>7, DispatchGoes DEF HoldsRun, InSteps
  <1> HIDE DEF r, s, me
  <1>9. ASSUME HoldsRun(w)' \/ task'.run = 0 \/ runs'[task'.run].status = task'.status,
               \A i \in Runs, j \in StepNos : steps'[i][j].status = "RUNNING" =>
                  MayBeOpen(w)' /\ r = i /\ worker'[w].step = j /\ OpenTask(task'),
               worker'[w].pc \in InSteps => OpenTask(worker'[w].copy),
               worker'[w].pc = "boundary" => OpenTask(task')
        PROVE  Outcome'
    <2>1. ~BeforePlan(w)' /\ worker'[w].pc # "insert" BY <1>8 DEF InSteps, BeforePlan
    <2> QED BY <1>2, <1>3, <1>5, <1>8, <1>9, <2>1, OutcomeKept
  <1>10. me.pc # "finish" => HoldsRun(w)' BY <1>8 DEF HoldsRun, InSteps
  <1>11. CASE Bind(w)
    <2>1. ~MayBeOpen(w) /\ me.pc # "finish" BY <1>11 DEF Bind, MayBeOpen, InSteps, me
    <2>2. UNCHANGED steps BY <1>11 DEF Bind, history
    <2>3. OpenTask(task') /\ OpenTask(worker'[w].copy)
      <3>1. PICK bound : /\ worker' = [worker EXCEPT ![w].pc = "boundary", ![w].copy = bound,
                                                     ![w].guarded = TRUE]
                         /\ task' = bound /\ bound.status = "RUNNING"
        BY <1>1, <1>11, BindsOrThrows
      <3>2. worker'[w].copy = task' /\ task'.status = "RUNNING" BY <1>1, <3>1 DEF WorkerState
      <3> QED BY <3>2 DEF OpenTask
    <2> QED BY <1>6, <1>9, <1>10, <2>1, <2>2, <2>3
  <1>12. CASE Boundary(w)
    <2>1. me.pc = "boundary" /\ ~MayBeOpen(w) /\ UNCHANGED task /\ OpenTask(task) /\ OpenTask(me.copy)
      BY <1>7, <1>12 DEF Boundary, MayBeOpen, InSteps, me
    <2>2. CASE NoMoreSteps(w) \/ CancelSeen(w)
      <3>1. UNCHANGED steps BY <2>2 DEF NoMoreSteps, CancelSeen
      <3>2. worker'[w].pc = "finish" BY <1>1, <2>2 DEF NoMoreSteps, CancelSeen, Verdict, WorkerState
      <3>3. worker'[w].pc \notin InSteps /\ worker'[w].pc # "boundary" BY <3>2 DEF InSteps
      <3> QED BY <1>6, <1>9, <1>10, <2>1, <3>1, <3>3
    <2>3. CASE BeginStep(w)
      <3> DEFINE row == [NoStep EXCEPT !.status = "RUNNING"]
                 next == s + 1
                 x == [worker[w] EXCEPT !.pc = "announce", !.step = next,
                         !.copy = IF Scenario = "GENERIC" THEN task ELSE @]
      <3>1. steps' = [steps EXCEPT ![r][next] = row] /\ worker' = [worker EXCEPT ![w] = x]
        BY <2>3 DEF BeginStep, r, s
      <3>2. x.pc = "announce" /\ x.step = next /\ (x.copy = task \/ x.copy = me.copy)
        BY <1>1 DEF WorkerState, me
      <3> HIDE DEF x, next, row
      <3>3. worker'[w] = x BY <1>1, <3>1
      <3>4. MayBeOpen(w)' /\ worker'[w].pc # "boundary" BY <3>2, <3>3 DEF MayBeOpen, InSteps
      <3>5. \A i \in Runs, j \in StepNos : ~(i = r /\ j = next) => steps'[i][j] = steps[i][j]
        BY <1>1, <3>1
      <3> QED BY <1>6, <1>9, <1>10, <2>1, <3>2, <3>3, <3>4, <3>5
    <2> QED BY <1>12, <2>2, <2>3 DEF Boundary
  <1>13. CASE Announce(w)
    <2>1. me.pc = "announce" /\ task' = me.copy /\ OpenTask(me.copy)
      BY <1>7, <1>13 DEF Announce, me, InSteps
    <2>2. worker'[w].pc \in {"submit", "run"} /\ worker'[w].copy = me.copy /\ worker'[w].step = s
      BY <1>1, <1>13 DEF Announce, WorkerState, me, s
    <2>3. \A i \in Runs, j \in StepNos : steps'[i][j].status = steps[i][j].status
      <3>1. steps' = [steps EXCEPT ![r][s].live = TRUE] BY <1>13 DEF Announce, r, s
      <3>2. s \in StepNos => steps[r] \in [StepNos -> StepRow] /\ steps[r][s] \in StepRow
        BY <1>1, <1>5
      <3> QED BY <1>1, <1>5, <3>1, <3>2 DEF StepRow
    <2>4. MayBeOpen(w)' BY <2>2 DEF MayBeOpen, InSteps
    <2> QED BY <1>6, <1>9, <1>10, <2>1, <2>2, <2>3, <2>4
  <1>14. CASE RunAgent(w) \/ Submit(w) \/ Await(w)
    <2>1. me.pc \in InSteps \ {"boundary"} /\ OpenTask(me.copy) /\ me.pc # "finish"
      BY <1>7, <1>14 DEF RunAgent, Submit, Await, me, InSteps
    <2>2. ASSUME NEW row, WriteStep(w, row)
          PROVE  /\ \A i \in Runs, j \in StepNos : ~(i = r /\ j = s) => steps'[i][j] = steps[i][j]
                 /\ s \in StepNos => steps'[r][s] = row
      BY <1>1, <1>5, <2>2 DEF WriteStep, r, s
    <2>3. CASE CompleteStep(w)
      <3> DEFINE row == [status |-> "SUCCESS", session |-> worker[w].step \in AsyncSteps, live |-> TRUE]
      <3>1. task' = me.copy /\ WriteStep(w, row) /\ worker' = [worker EXCEPT ![w].pc = "boundary"]
        BY <2>3 DEF CompleteStep, me
      <3>2. worker'[w].copy = me.copy BY <1>1, <3>1 DEF WorkerState, me
      <3>3. row.status # "RUNNING" OBVIOUS
      <3> HIDE DEF row
      <3>4. \A i \in Runs, j \in StepNos : steps'[i][j].status # "RUNNING"
        BY <1>6, <2>2, <3>1, <3>3
      <3> QED BY <1>9, <1>10, <2>1, <3>1, <3>2, <3>4
    <2>4. CASE SubmitRunner(w)
      <3> DEFINE row == [status |-> "RUNNING", session |-> TRUE, live |-> TRUE]
      <3>1. task' = me.copy /\ WriteStep(w, row) /\ worker' = [worker EXCEPT ![w].pc = "await"]
        BY <2>4 DEF SubmitRunner, me
      <3>2. worker'[w].copy = me.copy /\ worker'[w].pc = "await" /\ worker'[w].step = s
        BY <1>1, <3>1 DEF WorkerState, me, s
      <3> HIDE DEF row
      <3>3. MayBeOpen(w)' BY <3>2 DEF MayBeOpen, InSteps
      <3>4. \A i \in Runs, j \in StepNos : steps'[i][j].status = "RUNNING" => r = i /\ s = j
        BY <1>6, <2>2, <3>1
      <3> QED BY <1>9, <1>10, <2>1, <3>1, <3>2, <3>3, <3>4
    <2>5. ASSUME NEW v \in {"FAILED", "CANCELED"}, EndStep(w, v),
                 v = "CANCELED" => steps[r][s].status = "CANCELED"
          PROVE  Outcome'
      <3>1. worker'[w].pc = "finish" /\ worker'[w].verdict = v /\ worker'[w].step = s
        BY <1>1, <2>5 DEF EndStep, Verdict, WorkerState, s
      <3>2. worker'[w].pc \notin InSteps /\ worker'[w].pc # "boundary" BY <3>1 DEF InSteps
      <3>3. CASE Scenario = "TECHNICAL_DESIGN"
        <4> DEFINE row == [status |-> v, live |-> TRUE,
                            session |-> steps[worker[w].run][worker[w].step].session]
        <4>1. WriteStep(w, row) BY <2>5, <3>3 DEF EndStep
        <4>2. row.status # "RUNNING" OBVIOUS
        <4> HIDE DEF row
        <4>3. \A i \in Runs, j \in StepNos : steps'[i][j].status # "RUNNING"
          BY <1>6, <2>2, <4>1, <4>2
        <4> QED BY <1>9, <1>10, <2>1, <3>2, <4>3
      <3>4. CASE Scenario # "TECHNICAL_DESIGN"
        <4>1. UNCHANGED <<steps, task>> BY <2>5, <3>4 DEF EndStep
        <4>2. \A i \in Runs, j \in StepNos : steps'[i][j].status = "RUNNING" => v = "FAILED"
          BY <1>6, <2>5, <4>1
        <4>3. v = "FAILED" => MayBeOpen(w)' BY <3>1 DEF MayBeOpen
        <4> QED BY <1>6, <1>9, <1>10, <2>1, <3>1, <3>2, <4>1, <4>2, <4>3
      <3> QED BY <3>3, <3>4
    <2>6. \/ CompleteStep(w) \/ SubmitRunner(w) \/ EndStep(w, "FAILED")
          \/ EndStep(w, "CANCELED") /\ steps[r][s].status = "CANCELED"
      BY <1>14 DEF RunAgent, Submit, Await, r, s
    <2> QED BY <2>3, <2>4, <2>5, <2>6
  <1>15. CASE Finish(w)
    <2>1. me.pc = "finish" /\ me.guarded /\ me.verdict \in Terminal
      BY <1>1, <1>7, <1>15 DEF Finish, me, WorkerState
    <2>2. worker'[w].pc \notin InSteps /\ worker'[w].pc # "boundary" BY <1>8, <2>1 DEF InSteps
    <2>3. task' = [status |-> me.verdict, cancel |-> FALSE, run |-> r]
          /\ runs' = [runs EXCEPT ![r] = [status |-> me.verdict, step |-> s]]
      BY <1>15 DEF Finish, WriteRun, me, r, s
    <2>4. runs'[task'.run].status = task'.status
      BY <1>5, <2>3 DEF TypeOK
    <2>5. \A i \in Runs, j \in StepNos : steps'[i][j].status # "RUNNING"
      <3>1. CASE me.verdict = "FAILED" /\ s # 0
        <4>1. steps' = [steps EXCEPT ![r][s].status = "FAILED"]
          BY <1>15, <2>1, <3>1 DEF Finish, me, r, s
        <4>2. \A i \in Runs, j \in StepNos : ~(i = r /\ j = s) => steps'[i][j] = steps[i][j]
          BY <1>1, <4>1
        <4>3. s \in StepNos => steps'[r][s].status = "FAILED"
          <5> SUFFICES ASSUME s \in StepNos PROVE steps'[r][s].status = "FAILED"
            OBVIOUS
          <5>1. steps[r] \in [StepNos -> StepRow] /\ steps[r][s] \in StepRow BY <1>1, <1>5
          <5> QED BY <1>1, <1>5, <4>1, <5>1 DEF StepRow
        <4> QED BY <1>6, <4>2, <4>3
      <3>2. CASE me.verdict # "FAILED"
        <4>1. UNCHANGED steps /\ ~MayBeOpen(w)
          BY <1>15, <2>1, <3>2 DEF Finish, MayBeOpen, InSteps, me
        <4> QED BY <1>6, <4>1
      <3>3. CASE s = 0
        <4>1. UNCHANGED steps /\ s \notin StepNos BY <1>15, <3>3 DEF Finish, StepNos, me, s
        <4> QED BY <1>6, <4>1
      <3> QED BY <3>1, <3>2, <3>3
    <2> QED BY <1>9, <2>2, <2>4, <2>5
  <1> QED BY <1>11, <1>12, <1>13, <1>14, <1>15
     DEF Dispatch, HoldsRun, Start, Insert, Tail, QueueFailed

(* The plan cannot be restored: the run stays as it was inserted.           *)
LEMMA PlanGone ==
  ASSUME TypeOK, RunsOwned, OneToken, Outcome, NEW w \in Workers,
         Bind(w), worker'[w].pc = "queueFailed"
  PROVE  Outcome'
  <1>1. worker[w] \in WorkerState /\ worker \in [Workers -> WorkerState]
    BY WorkerFacts DEF TypeOK
  <1>2. Held(w) /\ Dispatch(w) /\ worker[w].pc = "bind" BY DEF Held, Bind, Dispatch
  <1>3. \A v \in Workers \ {w} : worker'[v] = worker[v]
    BY <1>2, OthersStay
  <1>4. UNCHANGED <<request, callback, runs, runCount, steps>>
    BY DEF Bind, history, users
  <1>5. task'.status = "RUNNING" /\ task'.run = worker[w].run
    BY <1>1 DEF Bind, WorkerState, TaskRow
  <1>6. "planError" \in Env
    BY <1>1 DEF Bind, WorkerState
  <1>7. runCount # 0
    <2>1. worker[w].run \in 1..runCount /\ runCount \in 0..MaxRuns
      BY <1>2 DEF RunsOwned, Owns, HoldsRun, TypeOK
    <2> QED BY <2>1, ConstantsAssumption
  <1>8. UnbegunAt(w)'
    BY <1>2, <1>4, <1>5, <1>6 DEF Outcome, Unbegun, UnbegunAt, BeforePlan, Fresh, Busy
  <1>9. \A r \in Runs, s \in StepNos : steps'[r][s].status # "RUNNING"
    BY <1>2, <1>4, PlanIsThere DEF BeforePlan
  <1>10. "queueFailed" \notin InSteps \cup {"finish"} /\ "RUNNING" \notin Terminal
    BY DEF InSteps, Terminal
  <1> QED BY <1>2, <1>3, <1>4, <1>5, <1>7, <1>8, <1>9, <1>10, OutcomeKept

(* The thread is through: its run is over, or was never begun.              *)
LEMMA AfterRun ==
  ASSUME TypeOK, OneToken, Outcome, OutcomesRespected, NEW w \in Workers,
         Tail(w) \/ QueueFailed(w)
  PROVE  Outcome'
  <1>1. worker' = [worker EXCEPT ![w] = IdleWorker] /\ UNCHANGED <<runs, runCount, steps>>
    BY DEF Tail, QueueFailed, OutcomesRespected, history
  <1>2. worker'[w].pc = "idle" /\ \A v \in Workers \ {w} : worker'[v] = worker[v]
    BY <1>1 DEF TypeOK, IdleWorker
  <1>3. Held(w) /\ ~HoldsRun(w) /\ ~MayBeOpen(w)
    BY DEF Tail, QueueFailed, Held, HoldsRun, MayBeOpen, InSteps
  <1>4. \A r \in Runs, s \in StepNos : steps'[r][s].status # "RUNNING"
    BY <1>1, <1>3, OwnStep
  <1>5. task'.run = task.run
    BY DEF Tail, QueueFailed, TypeOK, TaskRow
  <1>6. \/ task'.status \notin Terminal \/ task'.run = 0
        \/ runs'[task'.run].status = task'.status \/ NeverBegun(runs[task.run])'
    <2>1. CASE Tail(w)
      <3>1. \A v \in Workers : ~HoldsRun(v)
        BY <1>3 DEF OneToken, Held, HoldsRun
      <3> QED BY <1>1, <2>1, <3>1 DEF Tail, Outcome, RowsAgree, NeverBegun
    <2>2. CASE QueueFailed(w)
      <3>1. "planError" \in Env /\ Fresh(task.run)
        BY <2>2 DEF QueueFailed, Outcome, Unbegun, UnbegunAt, BeforePlan
      <3>2. task'.status = "FAILED" BY <2>2 DEF QueueFailed, TypeOK, TaskRow
      <3> QED BY <1>1, <1>5, <3>1, <3>2 DEF Fresh, NeverBegun
    <2> QED BY <2>1, <2>2
  <1>7. UNCHANGED <<request, callback>> BY DEF Tail, QueueFailed, users
  <1>8. "idle" \notin InSteps \cup {"finish"} BY DEF InSteps
  <1>9. task'.run # 0 => runCount' # 0 BY <1>1, <1>5 DEF Outcome, BoundLate
  <1>10. ~BeforePlan(w)' BY <1>2 DEF BeforePlan
  <1> QED BY <1>1, <1>2, <1>3, <1>4, <1>6, <1>7, <1>8, <1>9, <1>10, OutcomeKept

(* Before the first run nothing that happens to the task binds it to one.   *)
LEMMA OutcomeUnbound ==
  ASSUME OneToken, Outcome, runCount = 0, task'.run = 0,
         \A w \in Workers : worker'[w].pc \in {"idle", "queued"},
         UNCHANGED <<runCount, steps, request, callback>>
  PROVE  Outcome'
  <1>1. {"idle", "queued"} \cap (InSteps \cup {"finish", "boundary", "queueFailed", "insert"}) = {}
    BY DEF InSteps
  <1>2. StepsAttended' BY DEF OneToken, Stepped, StepsAttended
  <1>3. RowsAgree' BY DEF RowsAgree
  <1>4. CopiesOpen' BY <1>1 DEF Outcome, CopiesOpen, Busy
  <1>5. Straight' BY <1>1 DEF Outcome, Straight, Busy
  <1>6. BoundLate' BY DEF Outcome, BoundLate
  <1>7. Unbegun' BY <1>1 DEF Unbegun, BeforePlan
  <1> QED BY <1>2, <1>3, <1>4, <1>5, <1>6, <1>7 DEF Outcome

LEMMA ConsumerOutcome ==
  ASSUME TypeOK, OneToken, Outcome, OutcomesRespected, NEW c \in Consumers, Consume(c)
  PROVE  Outcome'
  <1>0. UNCHANGED <<request, callback, runCount, steps, runs>> /\ task \in TaskRow
    BY DEF history, Consume, Reject, Skip, ClaimError, Claim, MarkTaskRetrying, PublishRetry,
       PublishDeadLetter, MarkTaskQueueFailed, users, TypeOK
  <1>1. task.run # 0 => runCount # 0 BY DEF Outcome, BoundLate
  <1>2. ASSUME NEW a \in Attempts, Claimable(a)
        PROVE  runCount = 0 /\ task.run = 0 /\ \A w \in Workers : worker[w].pc = "idle"
    BY <1>1, <1>2 DEF Claimable, OneToken, Waiting, Held
  <1>3. ASSUME NEW a \in Attempts, NEW w \in Workers, Claim(c, w, a) PROVE Outcome'
    <2>1. task'.run = task.run BY <1>0, <1>3 DEF Claim, TaskRow
    <2>2. \A v \in Workers : worker'[v].pc \in {"idle", "queued"}
      BY <1>2, <1>3 DEF Claim, TypeOK, IdleWorker
    <2> QED BY <1>0, <1>2, <1>3, <2>1, <2>2, OutcomeUnbound DEF Claim
  <1>4. ASSUME NEW a \in Attempts, Reject(c, a) PROVE Outcome'
    <2>1. task'.run = task.run BY <1>0, <1>4 DEF Reject, TaskRow
    <2> QED BY <1>0, <1>2, <1>4, <2>1, OutcomeUnbound DEF Reject
  <1>5. ASSUME MarkTaskRetrying(c) \/ MarkTaskQueueFailed(c) PROVE Outcome'
    <2>1. Failing(c) /\ UNCHANGED worker /\ runCount = 0
      BY <1>5 DEF Failing, MarkTaskRetrying, MarkTaskQueueFailed, OneToken
    <2>2. \A w \in Workers : worker[w].pc = "idle" BY <2>1 DEF OneToken, Held
    <2>3. task'.run = task.run
      BY <1>0, <1>5 DEF MarkTaskRetrying, MarkTaskQueueFailed, TaskRow
    <2> QED BY <1>0, <1>1, <2>1, <2>2, <2>3, OutcomeUnbound
  <1>6. ASSUME UNCHANGED <<task, worker>> PROVE Outcome'
    BY <1>0, <1>6 DEF Outcome, RowsAgree, HoldsRun, StepsAttended, MayBeOpen, CopiesOpen, Straight,
       BoundLate, Busy, Unbegun, UnbegunAt, BeforePlan, Fresh, NeverBegun
  <1> QED BY <1>3, <1>4, <1>5, <1>6 DEF Consume, Skip, ClaimError, PublishRetry, PublishDeadLetter

LEMMA UserOutcome ==
  ASSUME TypeOK, RunsOwned, OneToken, Outcome, OutcomesRespected, NEW q \in Requests, User(q)
  PROVE  Outcome'
  <1>0. UNCHANGED <<worker, callback, runCount>> /\ request \in [Requests -> RequestState]
    BY DEF User, CancelRead, RetryRead, Open, CancelCommit, RetryCommit, history, TypeOK
  <1>1. request[q].copy \in TaskRow /\ request[q].runRow \in RunRow /\ task \in TaskRow
        /\ \A p \in Requests \ {q} : request'[p] = request[p]
    BY DEF User, CancelRead, RetryRead, Open, CancelCommit, RetryCommit, TypeOK, RequestState
  <1>2. CASE CancelRead(q)
    <2>1. UNCHANGED <<task, runs, steps>> /\ request'[q].copy = task
      BY <1>0, <1>2 DEF CancelRead, Open, history
    <2>2. task.status = "PENDING" => task.run = 0
      BY DEF OneToken, Waiting, Outcome, BoundLate
    <2>3. BoundLate' BY <1>0, <1>1, <2>1, <2>2 DEF Outcome, BoundLate
    <2>4. Unbegun'
      BY <1>0, <1>1, <2>1 DEF Outcome, Unbegun, UnbegunAt, BeforePlan, Fresh, Busy
    <2> QED BY <1>0, <2>1, <2>3, <2>4 DEF Outcome, RowsAgree, HoldsRun, StepsAttended, MayBeOpen,
           CopiesOpen, Straight, Busy, NeverBegun
  <1>3. CASE CancelCommit(q)
    <2>1. request[q].pc = "cancel" /\ request'[q].pc = "idle"
      BY <1>0, <1>3 DEF CancelCommit, IdleRequest
    <2>2. task'.run = request[q].copy.run
      <3>1. CASE CancelPending(q) BY <1>1, <3>1 DEF CancelPending, TaskRow
      <3>2. CASE CancelLiveStep(q) BY <1>1, <3>2 DEF CancelLiveStep, TaskRow
      <3>3. CASE RequestCancel(q) BY <1>1, <3>3 DEF RequestCancel, TaskRow
      <3> QED BY <1>3, <3>1, <3>2, <3>3 DEF CancelCommit
    <2>3. BoundLate' BY <1>0, <1>1, <2>1, <2>2 DEF Outcome, BoundLate
    <2>4. ASSUME OpenTask(task'), UNCHANGED <<runs, steps>> PROVE Outcome'
      <3>1. task'.status \notin Terminal \/ task'.run = 0 BY <2>4 DEF OpenTask, Terminal
      <3>2. RowsAgree' BY <3>1 DEF RowsAgree
      <3>3. Unbegun'
        BY <1>0, <1>1, <2>1, <2>2, <2>4 DEF Outcome, Unbegun, UnbegunAt, BeforePlan, Fresh, Busy
      <3> QED BY <1>0, <2>3, <2>4, <3>2, <3>3 DEF Outcome, StepsAttended, MayBeOpen, CopiesOpen, Straight, Busy
    <2>5. CASE CancelPending(q)
      <3>1. request[q].copy.run = 0 BY <2>1, <2>5 DEF CancelPending, Outcome, BoundLate
      <3> QED BY <2>2, <2>4, <2>5, <3>1 DEF CancelPending, OpenTask
    <2>6. CASE RequestCancel(q)
      <3>1. task'.status = "RUNNING" BY <1>1, <2>6 DEF RequestCancel, TaskRow
      <3> QED BY <2>4, <2>6, <3>1 DEF RequestCancel, OpenTask
    <2>7. CASE CancelLiveStep(q)
      <3> DEFINE r == request[q].copy.run  s == request[q].runRow.step
      <3>1. r \in Runs /\ s \in StepNos
        BY <2>7, LiveStepIsThere DEF CancelLiveStep
      <3>2. steps[r][s].status = "RUNNING" /\ steps' = [steps EXCEPT ![r][s].status = "CANCELED"]
        BY <2>7 DEF CancelLiveStep, LiveStep
      <3> HIDE DEF r, s
      <3>3. PICK w \in Workers : MayBeOpen(w) /\ worker[w].run = r /\ worker[w].step = s
        BY <3>1, <3>2 DEF Outcome, StepsAttended
      <3>4. Held(w) /\ HoldsRun(w) /\ worker[w].pc # "boundary"
        BY <3>3 DEF MayBeOpen, Held, HoldsRun, InSteps
      <3>5. \A i \in Runs, j \in StepNos : steps[i][j].status = "RUNNING" => i = r /\ j = s
        BY <3>3, <3>4, OwnStep
      <3>6. \A i \in Runs, j \in StepNos : steps'[i][j].status # "RUNNING"
        <4>1. steps \in [Runs -> [StepNos -> StepRow]] BY DEF TypeOK
        <4>2. steps[r] \in [StepNos -> StepRow] /\ steps[r][s] \in StepRow BY <3>1, <4>1
        <4>3. steps'[r][s].status = "CANCELED" BY <3>1, <3>2, <4>1, <4>2 DEF StepRow
        <4>4. \A i \in Runs, j \in StepNos : ~(i = r /\ j = s) => steps'[i][j] = steps[i][j]
          BY <3>2, <4>1
        <4> QED BY <3>5, <4>3, <4>4
      <3>7. RowsAgree' BY <1>0, <3>4 DEF RowsAgree, HoldsRun
      <3>8. \A v \in Workers : worker[v].pc # "boundary"
        BY <3>4 DEF OneToken, Held
      <3>9. CopiesOpen' BY <1>0, <3>8 DEF Outcome, CopiesOpen, Busy
      <3>10. Unbegun' BY <1>0, <3>1, <3>2, PlanIsThere DEF Unbegun, BeforePlan
      <3> QED BY <1>0, <2>3, <3>6, <3>7, <3>9, <3>10 DEF Outcome, StepsAttended, Straight, Busy
    <2> QED BY <1>3, <2>5, <2>6, <2>7 DEF CancelCommit
  <1>4. ~RetryRead(q) /\ ~RetryCommit(q) BY DEF RetryRead, RetryCommit, OutcomesRespected, OneToken
  <1> QED BY <1>2, <1>3, <1>4 DEF User

LEMMA OutsideOutcome ==
  ASSUME TypeOK, OneToken, Outcome, OutcomesRespected, Outside
  PROVE  Outcome'
  <1>0. UNCHANGED <<worker, request, runCount>>
    BY OutsideLeaves DEF Untouched
  <1>1. callback \in [Callbacks -> CallbackState] /\ NoCallback.step = 0
        /\ {"events", "complete", "sweep"} = Callbacks /\ steps \in [Runs -> [StepNos -> StepRow]]
    BY DEF TypeOK, NoCallback, Callbacks
  <1>u. Unbegun'
    <2>1. \A w \in Workers : ~BeforePlan(w)
      <3>1. CASE \E k \in Callbacks : Busy(k)
        BY <1>1, <3>1 DEF Outcome, Unbegun, UnbegunAt, Straight
      <3>2. CASE \E r \in Runs, s \in StepNos : steps[r][s].status = "RUNNING"
        BY <3>2, PlanIsThere
      <3> QED BY <3>1, <3>2, OutsideLeaves DEF Found
    <2> QED BY <1>0, <2>1 DEF Unbegun, BeforePlan
  <1>2. ASSUME NEW r \in Runs, NEW s \in StepNos, CompleteRead(r, s) PROVE Outcome'
    <2>1. /\ UNCHANGED <<task, runs, steps>> /\ OpenTask(task)
          /\ callback'["complete"].copy = task
          /\ \A k \in Callbacks \ {"complete"} : callback'[k] = callback[k]
      BY <1>1, <1>2 DEF CompleteRead, ReadStep, history, Outcome, StepsAttended
    <2>2. CopiesOpen' BY <1>0, <2>1 DEF Outcome, CopiesOpen
    <2> QED BY <1>0, <1>1, <1>u, <2>1, <2>2 DEF Outcome, RowsAgree, HoldsRun, StepsAttended,
           MayBeOpen, Straight, BoundLate, Busy, NeverBegun
  (* A step that ends is not RUNNING any more.                              *)
  <1>3. ASSUME \A i \in Runs, j \in StepNos : steps'[i][j].status = "RUNNING" =>
                 steps[i][j].status = "RUNNING",
               UNCHANGED <<task, runs>> \/ OpenTask(task'),
               task' = task \/ runCount # 0,
               UNCHANGED callback \/ callback' = [callback EXCEPT !["complete"] = NoCallback]
        PROVE  Outcome'
    <2>1. /\ Busy("complete")' => Busy("complete") /\ callback'["complete"] = callback["complete"]
          /\ ~Busy("events")' /\ ~Busy("sweep")'
      BY <1>1, <1>3 DEF Busy, Outcome, Straight
    <2>2. RowsAgree'
      <3>1. CASE UNCHANGED <<task, runs>> BY <1>0, <3>1 DEF Outcome, RowsAgree, HoldsRun, NeverBegun
      <3>2. CASE OpenTask(task') BY <3>2 DEF RowsAgree, OpenTask, Terminal
      <3> QED BY <1>3, <3>1, <3>2
    <2>3. StepsAttended' BY <1>0, <1>3 DEF Outcome, StepsAttended, MayBeOpen
    <2>4. CopiesOpen' BY <1>0, <1>3, <2>1 DEF Outcome, CopiesOpen
    <2>5. Straight' BY <1>0, <2>1 DEF Outcome, Straight
    <2>6. BoundLate' BY <1>0, <1>3 DEF Outcome, BoundLate
    <2> QED BY <1>u, <2>2, <2>3, <2>4, <2>5, <2>6 DEF Outcome
  <1>4. ASSUME NEW r \in Runs, NEW s \in StepNos, NEW status \in Terminal,
               CompleteAtOnce(r, s, status)
        PROVE  Outcome'
    <2>1. steps' = [steps EXCEPT ![r][s].status = status, ![r][s].live = TRUE]
          /\ UNCHANGED <<task, runs, callback>>
      BY <1>4 DEF CompleteAtOnce
    <2>2. steps[r] \in [StepNos -> StepRow] /\ steps[r][s] \in StepRow BY <1>1
    <2>3. \A i \in Runs, j \in StepNos : ~(i = r /\ j = s) => steps'[i][j] = steps[i][j]
      BY <1>1, <2>1
    <2>4. steps'[r][s].status = status BY <1>1, <2>1, <2>2 DEF StepRow
    <2> QED BY <1>3, <2>1, <2>3, <2>4 DEF Terminal
  <1>5. ASSUME NEW status \in Terminal, CompleteCommit(status) PROVE Outcome'
    <2> DEFINE row == [callback["complete"].stepRow EXCEPT !.status = status, !.live = TRUE]
               r == callback["complete"].run  s == callback["complete"].step
    <2>1. /\ Busy("complete") /\ task' = callback["complete"].copy
          /\ steps' = [steps EXCEPT ![r][s] = row]
          /\ callback' = [callback EXCEPT !["complete"] = NoCallback]
      BY <1>5 DEF CompleteCommit, WriteBack
    <2>2. row.status = status
      BY <1>1 DEF CallbackState, StepRow
    <2> HIDE DEF row, r, s
    <2>3. \A i \in Runs, j \in StepNos : steps'[i][j] = steps[i][j] \/ steps'[i][j] = row
      BY <1>1, <2>1
    <2>4. runCount # 0 /\ OpenTask(task')
      BY <2>1, <1>1 DEF OneToken, Outcome, CopiesOpen
    <2> QED BY <1>3, <2>1, <2>2, <2>3, <2>4 DEF Terminal
  <1>6. ~EventsCommit /\ ~SweepCommit
    BY DEF EventsCommit, SweepCommit, Outcome, Straight
  <1>7. \A r \in Runs, s \in StepNos :
          ~SweepRead(r, s) /\ \A early \in BOOLEAN : ~EventsRead(r, s, early)
    BY DEF SweepRead, EventsRead, OutcomesRespected
  <1> QED BY <1>2, <1>4, <1>5, <1>6, <1>7 DEF Outside, Complete

LEMMA OutcomeStep ==
  ASSUME OutcomesRespected
  PROVE  TypeOK /\ RunsOwned /\ OneToken /\ Outcome /\ [Next]_vars => Outcome'
  <1> SUFFICES ASSUME TypeOK, RunsOwned, OneToken, Outcome, [Next]_vars PROVE Outcome'
    OBVIOUS
  <1>1. CASE DispatchPendingTasks \/ UNCHANGED vars
    BY <1>1 DEF DispatchPendingTasks, vars, users, history, Outcome, RowsAgree, HoldsRun,
       StepsAttended, MayBeOpen, CopiesOpen, Straight, BoundLate, Busy, Unbegun, UnbegunAt,
       BeforePlan, Fresh, NeverBegun
  <1>2. \A w \in Workers : ~Crash(w) BY DEF Crash, OutcomesRespected
  <1>3. ASSUME NEW w \in Workers, Dispatch(w) PROVE Outcome'
    <2>1. Start(w) \/ Insert(w) \/ HoldsRun(w) \/ Tail(w) \/ QueueFailed(w)
      BY <1>3 DEF Dispatch, HoldsRun, Bind, Boundary, Announce, RunAgent, Submit, Await, Finish
    <2> QED BY <1>3, <2>1, BeforeRun, InRun, PlanGone, AfterRun
  <1> QED BY <1>1, <1>2, <1>3, ConsumerOutcome, UserOutcome, OutsideOutcome DEF Next

(* While nobody works on a finished task its row, the row of its run and    *)
(* the rows of its steps tell the same story, although claims are lost,     *)
(* signals repeated, runners fail, answer late or not at all, and users     *)
(* cancel at any point.  The one exception is the run whose plan could not  *)
(* be restored: it stays as it was inserted while its task has failed.      *)
THEOREM FinishedRowsAgree ==
  ASSUME OutcomesRespected
  PROVE  Spec => []OutcomeAgrees
  <1>1. ClaimsRespected BY DEF OutcomesRespected, ClaimsRespected
  <1>2. Init => Outcome
    <2> SUFFICES ASSUME Init PROVE Outcome
      OBVIOUS
    <2>1. task.run = 0 /\ (\A w \in Workers : worker[w].pc = "idle")
          /\ (\A q \in Requests : request[q].pc = "idle")
      BY DEF Init, NoTask, IdleWorker, IdleRequest
    <2>2. \A k \in Callbacks : ~Busy(k) BY DEF Init, Busy, NoCallback
    <2>3. \A r \in Runs, s \in StepNos : steps[r][s].status = "NONE" BY DEF Init, NoStep
    <2>4. "idle" \notin InSteps \cup {"finish", "boundary", "queueFailed", "insert"}
      BY DEF InSteps
    <2>5. {"events", "complete", "sweep"} \subseteq Callbacks BY DEF Callbacks
    <2> QED BY <2>1, <2>2, <2>3, <2>4, <2>5
       DEF Outcome, RowsAgree, StepsAttended, CopiesOpen, Straight, BoundLate, Unbegun, BeforePlan
  <1>3. TypeOK /\ Outcome => OutcomeAgrees
    <2> SUFFICES ASSUME TypeOK, Outcome, task.status \in Terminal, AllIdle, task.run # 0
                 PROVE  /\ runs[task.run].status = task.status \/ NeverBegun(runs[task.run])
                        /\ \A s \in StepNos : steps[task.run][s].status # "RUNNING"
      BY DEF OutcomeAgrees
    <2>1. \A w \in Workers : ~HoldsRun(w) /\ ~MayBeOpen(w)
      BY DEF AllIdle, HoldsRun, MayBeOpen, InSteps
    <2>2. task.run \in Runs
      <3>1. task.run \in 0..MaxRuns BY DEF TypeOK, TaskRow
      <3> QED BY <3>1, ConstantsAssumption DEF Runs
    <2> QED BY <2>1, <2>2 DEF Outcome, RowsAgree, StepsAttended
  <1>4. TypeOK /\ RunsOwned /\ OneToken /\ Outcome /\ [Next]_vars => Outcome'
    BY OutcomeStep
  <1>5. Spec => [](TypeOK /\ RunsOwned /\ OneToken) BY <1>1, TokenInv
  <1> QED BY <1>2, <1>3, <1>4, <1>5, PTL DEF Spec

=============================================================================
