-------------------------- MODULE ExecutionCenter --------------------------
(***************************************************************************)
(* The life of one execution task: the HTTP entry points that create,      *)
(* cancel and retry it, the RabbitMQ signal that wakes a consumer, the     *)
(* executor threads that claim and run it, the runner callbacks and the    *)
(* watchdog that end its live steps, and the credit settlement at the end. *)
(*                                                                         *)
(* Every action is one database commit, or a group of commits one thread   *)
(* makes back to back.  A thread or transaction that read a row earlier    *)
(* writes the whole row back: the JPA entities carry no version column, so *)
(* a save replaces every column by the copy the writer holds.              *)
(***************************************************************************)
EXTENDS Naturals, FiniteSets, Functions

CONSTANTS
  Workers,        \* threads of executionTaskExecutor, each on its own instance
  Consumers,      \* RabbitMQ listener threads
  Requests,       \* HTTP requests that can be in flight at the same time
  Scenario,       \* "GENERIC" or "TECHNICAL_DESIGN"
  NumSteps,       \* steps of the workflow plan
  AsyncSteps,     \* the steps a live runner executes
  DesignStep,     \* the step whose artifact is the design draft
  MaxAttempts,    \* platform.execution.task.rabbit.max-attempts
  Env,            \* what the environment may do, a subset of Faults
  MaxRuns,        \* bound on the run rows of the task
  MaxMsgs,        \* bound on the messages in the queue
  MaxSubmissions  \* bound on how often the task is put in the queue

Faults == {"loss",           \* a publish after commit fails
           "retryLoss",      \* publishRetry or publishDeadLetter fails
           "duplicate",      \* the broker delivers a message again
           "dbError",        \* the database fails a consumer
           "reject",         \* the executor pool rejects a claimed task
           "crash",          \* an instance dies with its worker
           "planError",      \* restoreWorkflow finds an agent of the plan gone
           "stepError",      \* an agent or the submit call fails
           "runnerError",    \* the runner reports FAILED
           "tailError",      \* writeback, settlement or notification throws
           "noTransaction",  \* the settlement lookup of an executor thread does
                             \* so every time, for want of a transaction
           "timeout",        \* a live step outlives its maximum runtime
           "watchdog",       \* the watchdog finds a silent step
           "lateEvents",     \* runner events commit after their step was read
           "slowComplete",   \* so does a runner's completion
           "cancelPending",  \* the user cancels a task still in the queue
           "cancelRunning",  \* the user cancels a running task
           "retry"}          \* the user retries

ASSUME ConstantsAssumption ==
  /\ Scenario \in {"GENERIC", "TECHNICAL_DESIGN"}
  /\ NumSteps \in Nat \ {0}
  /\ AsyncSteps \subseteq 1..NumSteps
  /\ DesignStep \in 1..NumSteps
  /\ MaxAttempts \in Nat \ {0}
  /\ MaxRuns \in Nat /\ MaxMsgs \in Nat /\ MaxSubmissions \in Nat
  /\ Env \subseteq Faults

VARIABLES
  task,       \* the execution_task row
  runs,       \* the execution_run rows by run number
  runCount,   \* how many of them exist
  steps,      \* the execution_step rows by run number and step number
  queue,      \* messages waiting in execution.task.queue by their attempt
  consumer,   \* what each listener thread does with a delivery that failed
  worker,     \* the dispatch each executor thread is in
  request,    \* the cancel or retry transaction of each HTTP request
  callback,   \* the runner and watchdog transactions in flight
  credit,     \* the settlement row: its status and the refunds it wrote
  delivered,  \* a valid design draft exists among the task's artifacts
  workspace,  \* the cleanup record of each run's workspace
  submitted   \* how often the task was put in the queue

history == <<runs, runCount, steps, workspace>>
users   == <<request, submitted>>
money   == <<credit, delivered>>
vars    == <<task, history, queue, consumer, worker, callback, users, money>>

Runs     == 1..MaxRuns
StepNos  == 1..NumSteps
Attempts == 0..(MaxAttempts - 1)
Terminal == {"SUCCESS", "FAILED", "CANCELED"}

TaskRow == [status : {"PENDING", "RETRYING", "RUNNING"} \cup Terminal,
            cancel : BOOLEAN, run : 0..MaxRuns]
RunRow  == [status : {"NONE", "RUNNING"} \cup Terminal, step : 0..NumSteps]
StepRow == [status : {"NONE", "RUNNING"} \cup Terminal,
            session : BOOLEAN, live : BOOLEAN]

NoTask == [status |-> "PENDING", cancel |-> FALSE, run |-> 0]
NoRun  == [status |-> "NONE", step |-> 0]
NoStep == [status |-> "NONE", session |-> FALSE, live |-> FALSE]

WorkerPCs == {"idle", "queued", "insert", "bind", "boundary", "announce", "run",
              "submit", "await", "finish", "tail", "queueFailed"}
IdleWorker == [pc |-> "idle", copy |-> NoTask, run |-> 0, step |-> 0,
               verdict |-> "FAILED", guarded |-> FALSE]
IdleConsumer == [pc |-> "idle", attempt |-> 0]
IdleRequest  == [pc |-> "idle", copy |-> NoTask, runRow |-> NoRun]
NoCallback   == [run |-> 0, step |-> 0, stepRow |-> NoStep, runRow |-> NoRun,
                 copy |-> NoTask, early |-> FALSE]
Callbacks    == {"events", "complete", "sweep"}

ConsumerState == [pc : {"idle", "failed", "republish", "dead"}, attempt : Attempts]
WorkerState   == [pc : WorkerPCs, copy : TaskRow, run : 0..MaxRuns, step : 0..NumSteps,
                  verdict : Terminal, guarded : BOOLEAN]
RequestState  == [pc : {"idle", "cancel", "retry"}, copy : TaskRow, runRow : RunRow]
CallbackState == [run : 0..MaxRuns, step : 0..NumSteps, stepRow : StepRow,
                  runRow : RunRow, copy : TaskRow, early : BOOLEAN]
CreditRow     == [status : {"NONE", "CHARGED", "RETAINED", "REFUNDED"}, refunds : Nat]

(* Every row, thread and transaction keeps its shape. *)
TypeOK ==
  /\ task \in TaskRow
  /\ runs \in [Runs -> RunRow]
  /\ runCount \in 0..MaxRuns
  /\ steps \in [Runs -> [StepNos -> StepRow]]
  /\ queue \in [Attempts -> Nat]
  /\ consumer \in [Consumers -> ConsumerState]
  /\ worker \in [Workers -> WorkerState]
  /\ request \in [Requests -> RequestState]
  /\ callback \in [Callbacks -> CallbackState]
  /\ credit \in CreditRow
  /\ delivered \in BOOLEAN
  /\ workspace \in [Runs -> {"NONE", "ACTIVE", "SCHEDULED"}]
  /\ submitted \in Nat

(* A page or the public paid entry creates the task; the signal follows the *)
(* commit and may be lost.                                                  *)
Init ==
  /\ task = NoTask
  /\ runs = [r \in Runs |-> NoRun]
  /\ runCount = 0
  /\ steps = [r \in Runs |-> [s \in StepNos |-> NoStep]]
  /\ \/ queue = [a \in Attempts |-> IF a = 0 THEN 1 ELSE 0]
     \/ "loss" \in Env /\ queue = [a \in Attempts |-> 0]
  /\ consumer = [c \in Consumers |-> IdleConsumer]
  /\ worker = [w \in Workers |-> IdleWorker]
  /\ request = [q \in Requests |-> IdleRequest]
  /\ callback = [k \in Callbacks |-> NoCallback]
  /\ credit = [status |-> IF Scenario = "TECHNICAL_DESIGN" THEN "CHARGED" ELSE "NONE",
               refunds |-> 0]
  /\ delivered = FALSE
  /\ workspace = [r \in Runs |-> "NONE"]
  /\ submitted = 1

-----------------------------------------------------------------------------
(* The queue and its consumers *)

QueueRoom == SumFunction(queue) < MaxMsgs

Publish(a) == queue' = [queue EXCEPT ![a] = @ + 1]

(* The signal sent once the transaction that queued the task committed. *)
PublishAfterCommit ==
  \/ QueueRoom /\ Publish(0)
  \/ "loss" \in Env /\ UNCHANGED queue

(* Mutant: the scan looks at the retrying tasks instead. *)
DispatchRetryingTasks ==
  /\ task.status = "RETRYING"
  /\ QueueRoom
  /\ Publish(0)
  /\ UNCHANGED <<task, history, consumer, worker, callback, users, money>>

(* The 5 second scan publishes a signal for every PENDING task. *)
DispatchPendingTasks ==
  /\ task.status = "PENDING"
  /\ QueueRoom
  /\ Publish(0)
  /\ UNCHANGED <<task, history, consumer, worker, callback, users, money>>

(* A delivered message leaves the queue unless its acknowledgement is lost. *)
Take(a) ==
  /\ queue[a] > 0
  /\ \/ queue' = [queue EXCEPT ![a] = @ - 1]
     \/ "duplicate" \in Env /\ UNCHANGED queue

(* Mutants: any unfinished task, any task that is not running. *)
ClaimableUnlessDone(a) == task.status \notin Terminal
ClaimableUnlessRunning(a) == task.status # "RUNNING"

(* Only a message that comes back from the retry queue claims RETRYING. *)
Claimable(a) == task.status \in {"PENDING"} \cup (IF a > 0 THEN {"RETRYING"} ELSE {})

(* One conditional update claims the task, then the pool gets it. *)
Claim(c, w, a) ==
  /\ consumer[c].pc = "idle"
  /\ worker[w].pc = "idle"
  /\ Take(a)
  /\ Claimable(a)
  /\ task' = [task EXCEPT !.status = "RUNNING"]
  /\ worker' = [worker EXCEPT ![w] = [IdleWorker EXCEPT !.pc = "queued"]]
  /\ UNCHANGED <<history, consumer, callback, users, money>>

(* The pool is full: the claim has committed and execute() throws. *)
Reject(c, a) ==
  /\ "reject" \in Env
  /\ consumer[c].pc = "idle"
  /\ Take(a)
  /\ Claimable(a)
  /\ task' = [task EXCEPT !.status = "RUNNING"]
  /\ consumer' = [consumer EXCEPT ![c] = [pc |-> "failed", attempt |-> a]]
  /\ UNCHANGED <<history, worker, callback, users, money>>

(* A signal for a task that cannot be claimed is dropped. *)
Skip(c, a) ==
  /\ consumer[c].pc = "idle"
  /\ Take(a)
  /\ ~Claimable(a)
  /\ UNCHANGED <<task, history, consumer, worker, callback, users, money>>

(* The claiming update itself throws. *)
ClaimError(c, a) ==
  /\ "dbError" \in Env
  /\ consumer[c].pc = "idle"
  /\ Take(a)
  /\ consumer' = [consumer EXCEPT ![c] = [pc |-> "failed", attempt |-> a]]
  /\ UNCHANGED <<task, history, worker, callback, users, money>>

LastAttempt(c) == consumer[c].attempt + 1 >= MaxAttempts

(* A publish that throws leaves the message unacknowledged: it comes back. *)
Requeue(c) ==
  /\ "retryLoss" \in Env
  /\ QueueRoom
  /\ Publish(consumer[c].attempt)
  /\ consumer' = [consumer EXCEPT ![c] = IdleConsumer]

(* The consumer's catch block below the last attempt: markTaskRetrying     *)
(* commits whatever the task was doing ...                                 *)
MarkTaskRetrying(c) ==
  /\ consumer[c].pc = "failed"
  /\ ~LastAttempt(c)
  /\ task' = [task EXCEPT !.status = "RETRYING"]
  /\ consumer' = [consumer EXCEPT ![c].pc = "republish"]
  /\ UNCHANGED <<history, queue, worker, callback, users, money>>

(* ... and the retry message follows.  The delay queue is not told apart   *)
(* from the main queue.                                                    *)
PublishRetry(c) ==
  /\ consumer[c].pc = "republish"
  /\ \/ /\ QueueRoom
        /\ Publish(consumer[c].attempt + 1)
        /\ consumer' = [consumer EXCEPT ![c] = IdleConsumer]
     \/ Requeue(c)
  /\ UNCHANGED <<task, history, worker, callback, users, money>>

(* The catch block at the last attempt: first the dead letter ... *)
PublishDeadLetter(c) ==
  /\ consumer[c].pc = "failed"
  /\ LastAttempt(c)
  /\ \/ /\ consumer' = [consumer EXCEPT ![c].pc = "dead"]
        /\ UNCHANGED queue
     \/ Requeue(c)
  /\ UNCHANGED <<task, history, worker, callback, users, money>>

-----------------------------------------------------------------------------
(* Mutant: the outcome of the task decides, not the design draft. *)
SettledByOutcome ==
  CASE credit.status # "CHARGED" -> credit
    [] credit.status = "CHARGED" /\ task.status = "SUCCESS" -> [credit EXCEPT !.status = "RETAINED"]
    [] OTHER -> [status |-> "REFUNDED", refunds |-> credit.refunds + 1]

(* Credit settlement, one transaction on the locked settlement row: a task *)
(* with a valid design draft keeps the charge, any other is refunded.      *)
SettledCredit ==
  CASE credit.status # "CHARGED" -> credit
    [] credit.status = "CHARGED" /\ delivered -> [credit EXCEPT !.status = "RETAINED"]
    [] OTHER -> [status |-> "REFUNDED", refunds |-> credit.refunds + 1]

Settle == credit' = SettledCredit

(* ... then markTaskQueueFailed, in a transaction of its own. *)
MarkTaskQueueFailed(c) ==
  /\ consumer[c].pc = "dead"
  /\ task' = [task EXCEPT !.status = "FAILED", !.cancel = FALSE]
  /\ Settle
  /\ consumer' = [consumer EXCEPT ![c] = IdleConsumer]
  /\ UNCHANGED <<history, queue, worker, callback, users, delivered>>

-----------------------------------------------------------------------------
(* The dispatch one executor thread runs: dispatchTaskInternal and the      *)
(* methods it calls.  The thread works on detached entities: worker[w].copy *)
(* is the task it read, worker[w].step the run's current step it set.       *)

(* Mutant: the early cancellation forgets to settle. *)
StartUnsettled(w) ==
  /\ worker[w].pc = "queued"
  /\ IF task.status = "RUNNING" /\ ~task.cancel /\ runCount < MaxRuns
     THEN worker' = [worker EXCEPT ![w].pc = "insert", ![w].run = runCount + 1]
     ELSE worker' = [worker EXCEPT ![w] = IdleWorker]
  /\ task' = IF task.cancel THEN [task EXCEPT !.status = "CANCELED"] ELSE task
  /\ UNCHANGED <<history, queue, consumer, callback, users, money>>

(* The task is read; one that is not RUNNING any more, or that carries a    *)
(* cancel request, is not started.  The flag of a canceled task stays set.  *)
(* MaxRuns bounds the runs here.                                            *)
Start(w) ==
  /\ worker[w].pc = "queued"
  /\ \/ /\ task.status # "RUNNING"
        /\ worker' = [worker EXCEPT ![w] = IdleWorker]
        /\ UNCHANGED task
     \/ /\ task.status = "RUNNING" /\ task.cancel
        /\ task' = [task EXCEPT !.status = "CANCELED"]
        /\ worker' = [worker EXCEPT ![w].pc = "tail", ![w].verdict = "CANCELED"]
     \/ /\ task.status = "RUNNING" /\ ~task.cancel
        /\ runCount < MaxRuns
        /\ worker' = [worker EXCEPT ![w].pc = "insert", ![w].run = runCount + 1]
        /\ UNCHANGED task
  /\ UNCHANGED <<history, queue, consumer, callback, users, money>>

(* Mutant: without the unique run number the insert always succeeds. *)
InsertUnchecked(w) ==
  /\ worker[w].pc = "insert"
  /\ runs' = [runs EXCEPT ![worker[w].run] = [status |-> "RUNNING", step |-> 0]]
  /\ runCount' = worker[w].run
  /\ worker' = [worker EXCEPT ![w].pc = "bind", ![w].copy = task]
  /\ UNCHANGED <<task, steps, workspace, queue, consumer, callback, users, money>>

(* createRun inserts the run under the number it counted; (task, run_no) is *)
(* unique.  The task is read again.                                         *)
Insert(w) ==
  /\ worker[w].pc = "insert"
  /\ \/ /\ runCount = worker[w].run - 1
        /\ runs' = [runs EXCEPT ![worker[w].run] = [status |-> "RUNNING", step |-> 0]]
        /\ runCount' = runCount + 1
        /\ worker' = [worker EXCEPT ![w].pc = "bind", ![w].copy = task]
     \/ /\ runCount # worker[w].run - 1
        /\ worker' = [worker EXCEPT ![w].pc = "queueFailed", ![w].run = 0]
        /\ UNCHANGED <<runs, runCount>>
  /\ UNCHANGED <<task, steps, workspace, queue, consumer, callback, users, money>>

(* The run becomes the task's current one and the plan is restored from the *)
(* bindings stored with the task.  The try block begins after that: what    *)
(* restoreWorkflow throws goes to the catch of the queue entry, which knows *)
(* the task but not the run.                                                *)
Bind(w) ==
  LET bound == [worker[w].copy EXCEPT !.status = "RUNNING", !.run = worker[w].run]
  IN  /\ worker[w].pc = "bind"
      /\ task' = bound
      /\ \/ worker' = [worker EXCEPT ![w].pc = "boundary", ![w].copy = bound,
                                     ![w].guarded = TRUE]
         \/ /\ "planError" \in Env
            /\ worker' = [worker EXCEPT ![w] = [IdleWorker EXCEPT !.pc = "queueFailed"]]
      /\ UNCHANGED <<history, queue, consumer, callback, users, money>>

(* Every write of the run row by the worker carries the step it is at.      *)
WriteRun(w, status, step) ==
  runs' = [runs EXCEPT ![worker[w].run] = [status |-> status, step |-> step]]

WriteStep(w, row) == steps' = [steps EXCEPT ![worker[w].run][worker[w].step] = row]

Verdict(w, pc, verdict) ==
  worker' = [worker EXCEPT ![w].pc = pc, ![w].verdict = verdict]

NoMoreSteps(w) ==
  /\ worker[w].step = NumSteps
  /\ Verdict(w, "finish", "SUCCESS")
  /\ UNCHANGED <<runs, steps>>

CancelSeen(w) ==
  /\ worker[w].step < NumSteps
  /\ task.cancel
  /\ Verdict(w, "finish", "CANCELED")
  /\ UNCHANGED <<runs, steps>>

(* The generic loop works on the task it read at this boundary, the         *)
(* technical design workflow on the one bound at the start.                 *)
BeginStep(w) ==
  LET next == worker[w].step + 1
  IN  /\ worker[w].step < NumSteps
      /\ ~task.cancel
      /\ steps' = [steps EXCEPT ![worker[w].run][next] = [NoStep EXCEPT !.status = "RUNNING"]]
      /\ WriteRun(w, "RUNNING", next)
      /\ worker' = [worker EXCEPT ![w].pc = "announce", ![w].step = next,
                       ![w].copy = IF Scenario = "GENERIC" THEN task ELSE @]

(* The step boundary: the cancel flag is looked at here and nowhere else.   *)
Boundary(w) ==
  /\ worker[w].pc = "boundary"
  /\ NoMoreSteps(w) \/ CancelSeen(w) \/ BeginStep(w)
  /\ UNCHANGED <<task, runCount, workspace, queue, consumer, callback, users, money>>

(* The task copy is saved for its summary; recordStepStarted appends the    *)
(* first event, which marks the step as live.                               *)
Announce(w) ==
  /\ worker[w].pc = "announce"
  /\ task' = worker[w].copy
  /\ steps' = [steps EXCEPT ![worker[w].run][worker[w].step].live = TRUE]
  /\ worker' = [worker EXCEPT ![w].pc =
                   IF worker[w].step \in AsyncSteps THEN "submit" ELSE "run"]
  /\ UNCHANGED <<runs, runCount, workspace, queue, consumer, callback, users, money>>

(* The step succeeded: its row, the events, the artifact and the run row.   *)
CompleteStep(w) ==
  /\ WriteStep(w, [status |-> "SUCCESS", session |-> worker[w].step \in AsyncSteps,
                   live |-> TRUE])
  /\ WriteRun(w, "RUNNING", worker[w].step)
  /\ task' = worker[w].copy
  /\ delivered' = \/ delivered
                  \/ Scenario = "TECHNICAL_DESIGN" /\ worker[w].step = DesignStep
  /\ worker' = [worker EXCEPT ![w].pc = "boundary"]

(* The step did not: the technical design workflow writes its row and       *)
(* events before it reports, the generic loop leaves that to finishFailed.  *)
EndStep(w, verdict) ==
  /\ Verdict(w, "finish", verdict)
  /\ IF Scenario = "TECHNICAL_DESIGN"
     THEN /\ WriteStep(w, [status |-> verdict, live |-> TRUE,
                           session |-> steps[worker[w].run][worker[w].step].session])
          /\ task' = worker[w].copy
     ELSE UNCHANGED <<steps, task>>
  /\ UNCHANGED <<runs, delivered>>

(* A step the worker executes itself, blocking in runAgent. *)
RunAgent(w) ==
  /\ worker[w].pc = "run"
  /\ \/ CompleteStep(w)
     \/ "stepError" \in Env /\ EndStep(w, "FAILED")
  /\ UNCHANGED <<runCount, workspace, queue, consumer, callback, users, credit>>

(* A step a live runner executes: startAsyncExecution, bindRunnerSession.   *)
SubmitRunner(w) ==
  /\ WriteStep(w, [status |-> "RUNNING", session |-> TRUE, live |-> TRUE])
  /\ task' = worker[w].copy
  /\ workspace' = [workspace EXCEPT ![worker[w].run] = "ACTIVE"]
  /\ worker' = [worker EXCEPT ![w].pc = "await"]
  /\ UNCHANGED <<runs, delivered>>

Submit(w) ==
  /\ worker[w].pc = "submit"
  /\ \/ SubmitRunner(w)
     \/ "stepError" \in Env /\ EndStep(w, "FAILED") /\ UNCHANGED workspace
  /\ UNCHANGED <<runCount, queue, consumer, callback, users, credit>>

(* awaitTerminalStep polls the row until it is terminal or time is up. *)
Await(w) ==
  LET status == steps[worker[w].run][worker[w].step].status
  IN  /\ worker[w].pc = "await"
      /\ \/ status = "SUCCESS" /\ CompleteStep(w)
         \/ status = "CANCELED" /\ EndStep(w, "CANCELED")
         \/ status = "FAILED" /\ EndStep(w, "FAILED")
         \/ status \notin Terminal /\ "timeout" \in Env /\ EndStep(w, "FAILED")
      /\ UNCHANGED <<runCount, workspace, queue, consumer, callback, users, credit>>

(* Mutant: the outcome is saved on the task only. *)
FinishTaskOnly(w) ==
  /\ worker[w].pc = "finish"
  /\ task' = [status |-> worker[w].verdict, cancel |-> FALSE, run |-> worker[w].run]
  /\ worker' = [worker EXCEPT ![w].pc = "tail"]
  /\ UNCHANGED <<history, queue, consumer, callback, users, money>>

(* finishSuccess, finishFailed, finishCanceled and, once the guarded part   *)
(* threw, finishInfrastructureFailure: the rows of the run and the task.    *)
Finish(w) ==
  LET me == worker[w]
  IN  /\ me.pc = "finish"
      /\ WriteRun(w, me.verdict, me.step)
      /\ IF me.verdict = "FAILED" /\ me.guarded /\ me.step # 0
         THEN steps' = [steps EXCEPT ![me.run][me.step].status = "FAILED"]
         ELSE UNCHANGED steps
      /\ task' = [status |-> me.verdict, cancel |-> FALSE, run |-> me.run]
      /\ worker' = [worker EXCEPT ![w].pc = "tail"]
      /\ UNCHANGED <<runCount, workspace, queue, consumer, callback, users, money>>

(* Mutant: only a successful run gives its workspace back. *)
ScheduleCleanupOnSuccess(w) ==
  workspace' = [r \in Runs |-> IF r = worker[w].run /\ worker[w].verdict = "SUCCESS"
                               THEN "SCHEDULED" ELSE workspace[r]]

ScheduleCleanup(w) ==
  workspace' = [r \in Runs |-> IF r = worker[w].run /\ workspace[r] = "ACTIVE"
                               THEN "SCHEDULED" ELSE workspace[r]]

(* What an exception in the tail of a finish method starts. *)
TailFailed(w) ==
  worker' = [worker EXCEPT
    ![w] = IF @.guarded THEN [@ EXCEPT !.pc = "finish", !.verdict = "FAILED", !.guarded = FALSE]
                        ELSE [@ EXCEPT !.pc = "queueFailed"]]

(* The rest of a finish method: writeback to the work item, the workspace   *)
(* cleanup, the settlement, the notification.  Each may throw.  The lookup  *)
(* of the settlement row asks for a row lock, which needs a transaction the *)
(* finish methods, called on this, do not open.                             *)
Tail(w) ==
  /\ worker[w].pc = "tail"
  /\ \/ /\ "noTransaction" \notin Env
        /\ ScheduleCleanup(w) /\ Settle
        /\ \/ worker' = [worker EXCEPT ![w] = IdleWorker]
           \/ "tailError" \in Env /\ TailFailed(w)
     \/ /\ {"tailError", "noTransaction"} \cap Env # {}
        /\ ScheduleCleanup(w) /\ UNCHANGED credit
        /\ TailFailed(w)
     \/ /\ "tailError" \in Env
        /\ UNCHANGED <<workspace, credit>>
        /\ TailFailed(w)
  /\ UNCHANGED <<task, runs, runCount, steps, queue, consumer, callback, users, delivered>>

(* markTaskQueueFailed called by the executor thread itself. *)
QueueFailed(w) ==
  /\ worker[w].pc = "queueFailed"
  /\ task' = [task EXCEPT !.status = "FAILED", !.cancel = FALSE]
  /\ \/ "noTransaction" \notin Env /\ Settle
     \/ {"tailError", "noTransaction"} \cap Env # {} /\ UNCHANGED credit
  /\ worker' = [worker EXCEPT ![w] = IdleWorker]
  /\ UNCHANGED <<history, queue, consumer, callback, users, delivered>>

(* An instance stops with the dispatch it runs; nothing takes it up again.  *)
Crash(w) ==
  /\ "crash" \in Env
  /\ worker[w].pc # "idle"
  /\ worker' = [worker EXCEPT ![w] = IdleWorker]
  /\ UNCHANGED <<task, history, queue, consumer, callback, users, money>>

-----------------------------------------------------------------------------
(* The user: cancelExecutionTask and retryExecutionTask, each a transaction *)
(* that reads the task with its run and writes the row it read.             *)

Open(q, pc) ==
  /\ request[q].pc = "idle"
  /\ request' = [request EXCEPT ![q] =
       [pc |-> pc, copy |-> task, runRow |-> IF task.run = 0 THEN NoRun ELSE runs[task.run]]]
  /\ UNCHANGED <<task, history, queue, consumer, worker, callback, submitted, money>>

CancelRead(q) ==
  /\ \/ task.status = "PENDING" /\ "cancelPending" \in Env
     \/ task.status = "RUNNING" /\ "cancelRunning" \in Env
  /\ Open(q, "cancel")

(* A task still in the queue is canceled at once. *)
CancelPending(q) ==
  /\ request[q].copy.status = "PENDING"
  /\ task' = [request[q].copy EXCEPT !.status = "CANCELED", !.cancel = FALSE]
  /\ Settle
  /\ UNCHANGED <<runs, steps>>

LiveStep(q) ==
  LET row == request[q].runRow
      run == request[q].copy.run
  IN  run # 0 /\ row.step # 0 /\ steps[run][row.step].status = "RUNNING"
                            /\ steps[run][row.step].session

(* requestCancelRunningTask ends a step with a live runner right away ...   *)
CancelLiveStep(q) ==
  LET run == request[q].copy.run
      row == request[q].runRow
  IN  /\ request[q].copy.status = "RUNNING"
      /\ LiveStep(q)
      /\ task' = [request[q].copy EXCEPT !.status = "CANCELED", !.cancel = TRUE]
      /\ runs' = [runs EXCEPT ![run] = [row EXCEPT !.status = "CANCELED"]]
      /\ steps' = [steps EXCEPT ![run][row.step].status = "CANCELED"]
      /\ UNCHANGED credit

(* ... and leaves any other to the next step boundary. *)
RequestCancel(q) ==
  /\ request[q].copy.status = "RUNNING"
  /\ ~LiveStep(q)
  /\ task' = [request[q].copy EXCEPT !.cancel = TRUE]
  /\ UNCHANGED <<runs, steps, credit>>

CancelCommit(q) ==
  /\ request[q].pc = "cancel"
  /\ CancelPending(q) \/ CancelLiveStep(q) \/ RequestCancel(q)
  /\ request' = [request EXCEPT ![q] = IdleRequest]
  /\ UNCHANGED <<runCount, workspace, queue, consumer, worker, callback, submitted, delivered>>

(* Mutant: a retry is accepted whatever the task is doing. *)
RetryReadAnyStatus(q) ==
  /\ "retry" \in Env
  /\ submitted < MaxSubmissions
  /\ Open(q, "retry")

RetryRead(q) ==
  /\ "retry" \in Env
  /\ task.status \notin {"RUNNING", "PENDING"}
  /\ submitted < MaxSubmissions
  /\ Open(q, "retry")

RetryCommit(q) ==
  /\ request[q].pc = "retry"
  /\ submitted < MaxSubmissions
  /\ task' = [request[q].copy EXCEPT !.status = "PENDING", !.cancel = FALSE]
  /\ PublishAfterCommit
  /\ submitted' = submitted + 1
  /\ request' = [request EXCEPT ![q] = IdleRequest]
  /\ UNCHANGED <<history, consumer, worker, callback, money>>

-----------------------------------------------------------------------------
(* Transactions from outside on a live step: the runner's /events and       *)
(* /complete callbacks and the 10 second watchdog.  Each reads the step, its *)
(* run and the task, and writes what it read.  At most one of each kind is  *)
(* in flight.                                                               *)

Busy(k) == callback[k].step # 0

ReadStep(k, r, s, early) ==
  /\ ~Busy(k)
  /\ steps[r][s].status = "RUNNING"
  /\ callback' = [callback EXCEPT ![k] =
       [run |-> r, step |-> s, stepRow |-> steps[r][s], runRow |-> runs[r],
        copy |-> task, early |-> early]]
  /\ UNCHANGED <<task, history, queue, consumer, worker, users, money>>

WriteBack(k, stepRow, runRow) ==
  /\ steps' = [steps EXCEPT ![callback[k].run][callback[k].step] = stepRow]
  /\ runs' = [runs EXCEPT ![callback[k].run] = runRow]
  /\ callback' = [callback EXCEPT ![k] = NoCallback]
  /\ UNCHANGED <<runCount, workspace, queue, consumer, worker, users, money>>

(* A batch that opens with an event that touches the task has read the task *)
(* row along with the step; any other reads it when it holds the run's lock.*)
EventsRead(r, s, early) ==
  /\ "lateEvents" \in Env
  /\ steps[r][s].session
  /\ ReadStep("events", r, s, early)

EventsCommit ==
  /\ Busy("events")
  /\ task' = IF callback["events"].early THEN callback["events"].copy ELSE task
  /\ WriteBack("events", [callback["events"].stepRow EXCEPT !.live = TRUE],
               callback["events"].runRow)

(* The runner reports success, its own failure, or that it stopped because  *)
(* it polled a cancel request.                                              *)
Reported(status) ==
  \/ status = "SUCCESS"
  \/ status = "FAILED" /\ "runnerError" \in Env
  \/ status = "CANCELED" /\ task.cancel

(* A completion nothing interferes with. *)
CompleteAtOnce(r, s, status) ==
  /\ steps[r][s].session
  /\ steps[r][s].status = "RUNNING"
  /\ Reported(status)
  /\ steps' = [steps EXCEPT ![r][s].status = status, ![r][s].live = TRUE]
  /\ UNCHANGED <<task, runs, runCount, workspace, queue, consumer, worker, callback, users, money>>

CompleteRead(r, s) ==
  /\ "slowComplete" \in Env
  /\ steps[r][s].session
  /\ ReadStep("complete", r, s, FALSE)

CompleteCommit(status) ==
  /\ Busy("complete")
  /\ Reported(status)
  /\ task' = callback["complete"].copy
  /\ WriteBack("complete", [callback["complete"].stepRow EXCEPT !.status = status, !.live = TRUE],
               callback["complete"].runRow)

(* The watchdog takes any RUNNING step that ever appended an event, with or *)
(* without a live runner, once it was silent for a minute.                  *)
SweepRead(r, s) ==
  /\ "watchdog" \in Env
  /\ steps[r][s].live
  /\ ReadStep("sweep", r, s, FALSE)

(* Mutant: a status no other part of the code knows. *)
SweepCommitTimedOut ==
  /\ Busy("sweep")
  /\ task' = [callback["sweep"].copy EXCEPT !.status = "TIMED_OUT"]
  /\ WriteBack("sweep", [callback["sweep"].stepRow EXCEPT !.status = "TIMED_OUT"],
               [callback["sweep"].runRow EXCEPT !.status = "TIMED_OUT"])

SweepCommit ==
  /\ Busy("sweep")
  /\ task' = [callback["sweep"].copy EXCEPT !.status = "FAILED"]
  /\ WriteBack("sweep", [callback["sweep"].stepRow EXCEPT !.status = "FAILED"],
               [callback["sweep"].runRow EXCEPT !.status = "FAILED"])

-----------------------------------------------------------------------------
Consume(c) ==
  \/ \E a \in Attempts : \/ Reject(c, a) \/ Skip(c, a) \/ ClaimError(c, a)
                         \/ \E w \in Workers : Claim(c, w, a)
  \/ MarkTaskRetrying(c) \/ PublishRetry(c) \/ PublishDeadLetter(c) \/ MarkTaskQueueFailed(c)

Dispatch(w) ==
  \/ Start(w) \/ Insert(w) \/ Bind(w) \/ Boundary(w) \/ Announce(w) \/ RunAgent(w)
  \/ Submit(w) \/ Await(w) \/ Finish(w) \/ Tail(w) \/ QueueFailed(w)

User(q) == CancelRead(q) \/ CancelCommit(q) \/ RetryRead(q) \/ RetryCommit(q)

Complete ==
  \/ \E r \in Runs, s \in StepNos :
       CompleteRead(r, s) \/ \E status \in Terminal : CompleteAtOnce(r, s, status)
  \/ \E status \in Terminal : CompleteCommit(status)

Outside ==
  \/ Complete \/ EventsCommit \/ SweepCommit
  \/ \E r \in Runs, s \in StepNos :
       SweepRead(r, s) \/ \E early \in BOOLEAN : EventsRead(r, s, early)

Next ==
  \/ DispatchPendingTasks
  \/ \E c \in Consumers : Consume(c)
  \/ \E w \in Workers : Dispatch(w) \/ Crash(w)
  \/ \E q \in Requests : User(q)
  \/ Outside

(* The scan is scheduled, the broker delivers, threads that run go on and   *)
(* transactions that started commit.  Users, faults and the runner owe      *)
(* nothing.                                                                 *)
Fairness ==
  /\ WF_vars(DispatchPendingTasks)
  /\ \A c \in Consumers : WF_vars(Consume(c))
  /\ \A w \in Workers : WF_vars(Dispatch(w))
  /\ \A q \in Requests : WF_vars(CancelCommit(q) \/ RetryCommit(q))
  /\ WF_vars(EventsCommit) /\ WF_vars(SweepCommit)
  /\ WF_vars(\E status \in Terminal : CompleteCommit(status))

Spec == Init /\ [][Next]_vars

FairSpec == Spec /\ Fairness

-----------------------------------------------------------------------------
(* Safety.  Which faults each property withstands is chosen by Env.         *)

(* A thread between its claim and the commit of its outcome. *)
Dispatching(w) == worker[w].pc \notin {"idle", "tail", "queueFailed"}

HoldsRun(w) == worker[w].pc \in {"bind", "boundary", "announce", "run", "submit",
                                 "await", "finish"}

AllIdle == \A w \in Workers : worker[w].pc = "idle"

(* However often claims go wrong, two threads never work on the same run:   *)
(* the count-then-insert of createRun is caught by the unique run number.   *)
RunsNotShared ==
  /\ \A w \in Workers : HoldsRun(w) => worker[w].run \in 1..runCount
  /\ \A v, w \in Workers : HoldsRun(v) /\ HoldsRun(w) /\ worker[v].run = worker[w].run => v = w

(* The conditional update hands a task to one thread at a time, however     *)
(* often its signal is sent, lost or delivered.                             *)
OneDispatcher == \A v, w \in Workers : Dispatching(v) /\ Dispatching(w) => v = w

(* A task that was claimed is not replayed from the queue: it has at most   *)
(* one run per time somebody put it there.                                  *)
NoReplay == runCount <= submitted

(* When a task is over and no thread has work left on it, its charge is     *)
(* settled, whichever of the entry points ended it.  On an executor thread  *)
(* that takes a transaction the code does not open ("noTransaction").       *)
TerminalMeansSettled ==
  /\ task.status \in Terminal
  /\ AllIdle
  /\ \A c \in Consumers : consumer[c].pc = "idle"
  => credit.status # "CHARGED"

(* Whoever got a design draft pays for it, and nobody else does. *)
PaidForDelivered ==
  /\ credit.status = "RETAINED" => delivered
  /\ credit.status = "REFUNDED" => ~delivered

(* A workspace a runner opened is handed to the cleanup once no thread      *)
(* works on the task any more.                                              *)
NoWorkspaceLeak == AllIdle => \A r \in Runs : workspace[r] # "ACTIVE"

(* A run whose plan could not be restored: nobody ends it, its task failed. *)
NeverBegun(run) ==
  "planError" \in Env /\ task.status = "FAILED" /\ run = [status |-> "RUNNING", step |-> 0]

(* Several rows say how the task ended and they agree: while nobody works   *)
(* on it, a finished task shows the outcome of its current run, but for a   *)
(* run that failed before its first step, and no step is still open.        *)
OutcomeAgrees ==
  task.status \in Terminal /\ AllIdle /\ task.run # 0 =>
    /\ runs[task.run].status = task.status \/ NeverBegun(runs[task.run])
    /\ \A s \in StepNos : steps[task.run][s].status # "RUNNING"

-----------------------------------------------------------------------------
(* What steps may never do *)

(* A retry is refused while the task is being processed, for requests that  *)
(* do not overlap: two that do both read the old status (README, section 5).*)
RetryOnlyWhenIdle == [][submitted' # submitted => \A w \in Workers : ~Dispatching(w)]_vars

Waiting == {"PENDING", "RETRYING"}

Failing(c) == consumer[c].pc \in {"failed", "dead"}

(* What can still become a run: a task that waits, a thread that claimed it *)
(* and has not inserted its run, a consumer handling a failed claim.        *)
Claimed ==
  \/ task.status \in Waiting
  \/ \E w \in Workers : worker[w].pc \in {"queued", "insert"}
  \/ \E c \in Consumers : Failing(c)

(* The task seen as who works on it and what was submitted. *)
Lifecycle == INSTANCE TaskLifecycle WITH
  due       <- Claimed,
  working   <- {w \in Workers : Dispatching(w)},
  tailing   <- {w \in Workers : worker[w].pc \in {"tail", "queueFailed"}},
  runs      <- runCount,
  submitted <- submitted

(* Every step of the queue, the threads, the users, the runners and the     *)
(* watchdog is one that TaskLifecycle allows: a submission is claimed by    *)
(* one thread at a time, becomes one run at most, and a retry is committed  *)
(* when all of that is over and nobody works on the task.                   *)
LifecycleKept == Lifecycle!Spec

-----------------------------------------------------------------------------
(* Liveness *)

(* A task that was submitted ends and the threads are free again, although  *)
(* signals are lost or repeated, the pool is full, agents are gone or fail, *)
(* runners never answer and the settlement throws.  Whether its charge is   *)
(* settled by then is what TerminalMeansSettled says.                       *)
Terminates == <>[](task.status \in Terminal /\ AllIdle)

=============================================================================
