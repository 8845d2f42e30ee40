# TLA+ models of AI Club

AI Club is a platform around software projects: a Spring Boot back end with PostgreSQL and RabbitMQ, a Python
service that runs command line agents (`code-processing`), a Node runtime for agents (`pi-runtime`), a terminal and a
desktop client, and two web front ends. This directory holds TLA+ modules of the parts whose correctness depends on
the order of concurrent steps, the TLC configurations that check them on small instances, and proofs of the theorems
about them for any instance.

`B/` below stands for `backend/src/main/java/com/aiclub/platform/`, `C/` for `gitpilot-cli/src/core/`.

## 1. Inventory

### Components with a protocol of their own

| Component | State | Operations | What is hard | What makes it correct |
|---|---|---|---|---|
| Execution task queue (`B/service/ExecutionTaskQueue*`, `B/repository/ExecutionTaskRepository`) | `execution_task.status`, the broker's queues | publish after commit, 5 s scan, claim by conditional update, retry, dead letter | lost and doubled signals, several instances, a claim that commits before the work is accepted | one thread at a time per task; no replay; every task ends |
| Execution dispatch (`B/service/ExecutionDispatchService`) | runs, steps, the executor threads with detached copies of the rows | start, create run, step loop, finish, write-back, settlement | whole-row saves of stale copies, exceptions after the outcome was saved, a crash of the instance | steps follow the plan; rows agree on the outcome; one thread per run |
| Execution tasks API (`B/service/ExecutionTaskService`) | the same rows | create, cancel, retry, confirm a plan | check-then-act against the dispatch | a canceled task stops; a task in work is not retried |
| Live sessions and watchdog (`B/service/ExecutionAsyncSessionService`, `ExecutionSessionWatchdogService`) | session, deadline and heartbeat of a step | submit, events, complete, cancel, sweep | a timeout races a late answer | an outcome is not taken back |
| Execution events (`B/service/ExecutionEventService`) | event rows with a sequence number, an SSE stream per reader | append, stream | JVM monitor against row lock; tail of the stream | every event is delivered once and in order |
| Technical design and its settlement (`B/service/TechnicalDesign*Service`) | artifacts, settlement row | steps, draft, settle, revise | settlement is idempotent, retry is not paid again | who has a draft has paid, who has none is refunded |
| Credit ledger (`B/service/CreditService`, `CreditConsumptionService`, `AgentCreditService`) | account rows, transactions | grant, adjust, backfill, consume, refund, settle | overlapping transactions, missing rows cannot be locked, refund outside of the request's transaction | balance = sum of transactions >= 0; one grant; refunds bounded |
| LightRAG ingest (`B/service/LightRagIngestQueueService`, `code-processing/app/services/lightrag_queue_consumer.py`) | outbox rows, index state per page, the index | save, delete, poll, ack, nack, scan | lost answers, restarts, edits meanwhile | a saved page gets indexed, a deleted one leaves |
| Workspace cleanup (`B/service/ExecutionWorkspaceCleanup*`) | cleanup record per run | register, schedule, clean with retries | the tail that schedules may be skipped | no workspace leaks |
| Development execution (`B/service/DevelopmentExecutionService`) | plan, WAITING_CONFIRMATION | plan, confirm, implement, test | the task leaves and re-enters the dispatch | what was confirmed is executed, once |
| Wiki index queue (`B/service/WikiSyncQueueConsumer`, `WikiPageService`) | task rows, vector index | save, claim and index in one transaction, backoff | two tasks of a page overlap | the last text wins |
| Chat room agents (`B/service/ChatRoomAgent*`) | task rows, queue | mention, claim, reply, retry | retry state and retry message are two writes | every mention is answered or fails |
| GitLab auto-merge (`B/service/GitlabManagementService`, `GitlabAutoMerge*`) | configuration, log, GitLab | scheduler, webhook, review, merge | external effects inside a transaction | one merge per request |
| Pipelines (`B/service/AiClubPipelineAutomationService`, `...CallbackDeliveryScheduler`) | runs, callback deliveries | trigger, sync, deliver with retries | retries of what was done | a callback is delivered at least once |
| CLI model proxy (`B/service/GitPilotModelProxyService`) | - | check the balance, stream, charge | check-then-act, charge after service | what is served is charged |
| pi-runtime (`pi-runtime/src/runtime-manager.mjs`) | maps of sessions and runs | start, chat, resume, cancel | interleaving at every `await` | a session has one run at a time |
| CLI file mutation queue (`C/tools/file-mutation-queue.ts`, `write.ts`, `edit.ts`) | a chain of registrations, a chain of calls per file | write, edit | the tool calls of one message run in parallel; links; files that do not exist yet | calls on one file run one at a time, in their order; nothing is lost |
| CLI agent session (`C/agent-session.ts`, `agent-execution-state.ts`, `../modes/rpc/rpc-mode.ts`) | run snapshot and entries, messages in memory and on file, retry and recovery state, queued messages | prompt, steer, abort, abortRetry, compact, bash | every `await` lets another call in; retry, recovery, compaction, continuation and settling follow one another in any order | the session is busy while the agent works; one entry per run; a restart shows the same conversation; every call returns |
| CLI session tree (`C/session-manager.ts`, `agent-session-runtime.ts`, `compaction/`) | tree of entries, leaf, labels, the session file | append, flush, navigate, compact, fork, copy, reopen | writing is deferred, eager or whole; forks rewrite parents; compactions cut paths | the file holds every entry once; nothing is taken out; a fork shows what the original showed |
| CLI settings file (`C/settings-manager.ts`) | settings in memory, modified fields, a queue of writes, the file and its lock | set, flush, reload | several processes write one file | nobody's settings are overwritten by a stale copy |
| CLI session host (`C/agent-session-runtime.ts`) | the active session, suspended ones | switch, new, fork, import, dispose | switches that overlap prompts and one another | one live session per file; suspended ones come back |

### How they interact

The API writes a task row and, after the commit, sends a signal over RabbitMQ (`ExecutionTaskQueuePublisher`). A
listener thread claims the row and hands it to a pool of eight threads with a queue of 64. A pool thread talks to
runners over HTTP and sees their answers only through the step rows the callbacks write. Its `finish*` methods call
the cleanup, the settlement (which writes the ledger) and the notifications. Paid API entries go through the ledger
directly. Saving a Wiki page writes the outboxes of both indexes; `code-processing` polls one of them over HTTP.

Inside gitpilot-cli a host (the RPC mode, the desktop) sends commands to the agent session without waiting for the
answer to the one before. The session drives the external agent loop, whose `write` and `edit` calls go through the
mutation queue, and stores what it says in the session tree; compaction reads the tree's path and appends to it. All
processes of a user share the settings file. JavaScript interleaves only at an `await`, processes anywhere.

No entity has a `@Version` column and none uses dynamic updates: a `save` writes every column of the copy its
transaction, or its thread, has read. This is why the models keep copies of rows where the code keeps entities.

### Components without a model, for good

Memory and assistant (prompt assembly around a language model), API studio and the other management services (single
transactions without a protocol), notifications, operation log and usage records (best effort, nothing depends on
them), the model benchmark (a sequential loop), the `code-processing` wrappers of git and agents (external effects),
the front ends and the scripts. Of gitpilot-cli: the terminal's components, package manager, extension loader and
export are rendering and I/O without a protocol. `PROJECT.json` lists them with the planned ones.

## 2. Modules

| Module | Models | Extends |
|---|---|---|
| `TaskLifecycle` | what the execution centre promises about the work on a task: who works on it, what was submitted, what became a run | Naturals |
| `ExecutionCenter` | queue, dispatch, API, live sessions, watchdog, settlement and cleanup registration, for one task; implements `TaskLifecycle` | Naturals, FiniteSets, Functions |
| `ExecutionCenterProofs` | theorems about all its safety properties, the refinement among them | `ExecutionCenter`, TLAPS |
| `PrepaidAccounts` | what the credit system promises about money: accounts opened once, bills paid once and closed once | Integers |
| `CreditLedger` | accounts, transactions, consumptions, settlements; implements `PrepaidAccounts` | Integers |
| `CreditLedgerProofs` | theorems about the accounts | `CreditLedger`, TLAPS |
| `CreditBillProofs` | theorems about consumptions, refunds and settlements, and the refinement | `CreditLedgerProofs` |
| `LightRagIngest` | outbox, consumer, scan, index | Naturals, Sequences, FiniteSets |
| `LightRagIngestProofs` | theorems about deletions and about what INDEXED promises | `LightRagIngest`, FiniteSetTheorems, TLAPS |
| `AtomicFiles` | what the write and edit tools promise: each call changes its file at most once and in one step | |
| `FileMutationQueue` | the registration chain, the chains per file and the tools that run in them; implements `AtomicFiles` | Naturals |
| `FileMutationQueueProofs` | theorems about it, the refinement among them | `FileMutationQueue`, TLAPS |
| `AgentSession` | one conversation: prompts, retry, compaction, queued messages, bash results, abort, the snapshot | Sequences, SequencesExt |
| `AgentSessionProofs` | theorems about its runs, the bound on its retries, its memory and its file | `AgentSession`, FiniteSetTheorems, TLAPS |
| `SessionTree` | the tree of entries and the session files | Bags, FiniteSetsExt |
| `SessionTreeProofs` | theorems about the files, the trees and the forks | `SessionTree`, FiniteSetTheorems, TLAPS |
| `SettingsFile` | the settings managers of several processes and their file | Sequences, FiniteSets |
| `SettingsFileProofs` | theorems about its writes and about changes that are kept | `SettingsFile`, TLAPS |
| `MCExecutionCenter`, `MCCreditLedger`, `MCLightRagIngest`, `MCFileMutationQueue`, `MCAgentSession`, `MCSessionTree`, `MCSettingsFile` | symmetry sets and constant functions for TLC | |

Definitions marked *Mutant* stand beside the definition they distort. They belong to no behaviour; replacing the
original by the mutant makes the property named in `PROJECT.json` fail, which shows that the property depends on
that piece of code.

### ExecutionCenter and TaskLifecycle

One task with all its runs. The rows are `task`, `runs`, `steps`, `credit`, `delivered` (a valid draft among the
artifacts) and `workspace`; the threads and transactions are `worker` (`dispatchTaskInternal`, `pc` is the place in
it, `copy` the detached entity), `consumer` (the catch block of `ExecutionTaskQueueConsumer.consume`), `request`
(an HTTP cancel or retry between its read and its commit) and `callback` (a runner's events or completion and the
watchdog's sweep, likewise). `queue` counts the messages by the attempt they carry.

* `Claim`, `Reject`, `Skip`, `ClaimError` are the outcomes of `consumeQueuedTask`; `MarkTaskRetrying`, `PublishRetry`,
  `PublishDeadLetter`, `MarkTaskQueueFailed` the catch block, one step per commit or message.
* `Start`, `Insert`, `Bind` are the beginning of `dispatchTaskInternal` with `createRun`, which counts the runs and then
  inserts the next number; a plan that cannot be restored after that leaves the dispatch from `Bind`, past every `finish*` method
  ("planError"); `Boundary`, `Announce`, `RunAgent`, `Submit`, `Await` one round of the step loop (generic
  steps, runner steps and `executeTechnicalDesignTask`); `Finish` and `Tail` the `finish*` methods; `QueueFailed` the
  last resort.
* `CancelRead`/`CancelCommit`, `RetryRead`/`RetryCommit` are `cancelExecutionTask` and `retryExecutionTask`.
* `EventsRead`/`EventsCommit`, `CompleteAtOnce`, `CompleteRead`/`CompleteCommit`, `SweepRead`/`SweepCommit` write the
  step, the run and the task as they were read, with the new outcome.

`TaskLifecycle` is what of this a user of the task relies on. `Lifecycle` instantiates it: `due` is `Claimed`, `working` are the threads
between their claim and the commit of an outcome, `tailing` those that have committed one and still write back, clean up, settle and notify, `runs`
and `submitted` count. Its steps are the claim, the insertion of the run, the end of a dispatch, a submission given up before anyone works on it, a
retry, the thread that takes the task again because its tail failed, and the thread that leaves.

What the environment does is the constant `Env`, a set of faults. A property is checked under the faults it is
meant to survive; the faults that break it, where a document promises otherwise, have a run of their own, and the
rest are listed in section 5. Abstracted: texts, progress and summaries, agents and their answers (only success or
failure), the delay of the retry queue, several callbacks of one kind at the same time. `Attempts` are the values of
the message header.

### CreditLedger and PrepaidAccounts

`account` holds the `user_credit_account` rows, `journal` the sums of each user's transactions by type, `bill` what
exists under a business key: the CONSUME transaction, its refunds and surcharges, the settlement row of the task it
paid for and whether that delivered. `rowLock` and `settling` are the row locks of PostgreSQL. A transaction of the
code is a `thread` that goes through *lock* (`ensureAccountForUpdate`, which locks nothing when the row is missing)
and *post* (`applyDelta` and the commit; the unique indexes on the user and on the business key are guards there).
`Mode` distinguishes paid requests (`SYNC`), technical design tasks (`FIXED`) and agent tasks (`TOKEN`). A refusal, an
exception and the death of an instance are one action, `Abort`: the transaction is rolled back and its locks fall.

Under READ COMMITTED a `SELECT ... FOR UPDATE` that waited returns the newest row, and nothing read the account
earlier in the same persistence context (`open-in-view` is false, associations are lazy): this is why `Lock` copies
the current row. Business keys are not reused, except by a SYNC request that is sent again.

`PrepaidAccounts` is what of this a user of the credits relies on, without threads and locks. `Prepaid` instantiates it: `opened` are the
users with a row, `balance` is what the row says, `paid` the charge with surcharge and without refunds (`Paid`), and `stage` how far the bill
has got (`Stage`): a SYNC key is closed by its refund, the others when the settlement leaves CHARGED. Its steps are the commits: accounts
opened, one adjusted, a bill paid, a bill closed, the last two with one amount on the account and on the bill. Nothing else in the ledger relates
the two: `LedgerBalances` speaks of the accounts and their transactions, `SettlementAgrees` of the bills.

### LightRagIngest

`page`, `state` (`wiki_lightrag_index_state`) and `tasks` (`lightrag_ingest_queue`) are the tables; `editor` and
`scanner` are transactions between the read of a state row and its write; `consumer` is the loop of
`LightRagQueueConsumer`, which works on a polled batch one row after the other. Rows nothing selects any more are
dropped from `tasks`; if one was an undone deletion its page is recorded in `lost`. `index` is LightRAG, external:
`Insert` replaces the document of a page. `DeletePage` queues a DELETE; `DeleteSpace` takes a set of pages at once by the
database's cascade, which queues nothing (`dropped`). `Store` removes what is not kept by giving each row its place in
the new table (`Kept`, `Place`): a closed form, which the proofs can count in. `weather`, chosen at the start, says which faults a behaviour may contain.
Not modelled: a second consumer (one process with one consumer is deployed; the claim takes no lock, see section 5)
and an HTTP call that reaches the backend after the client has given it up.

### FileMutationQueue and AtomicFiles

A call of `withFileMutationQueue` goes through `Call` (it joins the promise chain `registrationQueue`), `FindKey` (the
registration before it has ended and `realpath` answers: the real path, or the written one if the file is missing) or
`RejectKey` (it fails otherwise), `Register` (it reads the last call of its key from the map `fileMutationQueues` and
puts itself there), `Start` (the chain before it has resolved), `Load` and `Store` (the `readFile` of an edit, the
`writeFile` of both tools), and `Finish` (it releases its place and takes the key out of the map if it is the last).
`Finish` is possible at every point: a missing file, no match, an abort, a failing write. A file's content is the set of calls whose text is in
it, which is all that losing an update can be seen by. `AtomicChanges` instantiates `AtomicFiles` with the calls that
have stored or are done as `applied`.

### AgentSession

A task is a call of the host; `pc` says at which `await` it is. A prompt is *checked*, prepared (a compaction before the
prompt, the tracker of changed files), runs the *agent* and, in the loop of `_runAgentPrompt`, whatever
`_handlePostAgentRun` asks for: retry after a sleep, recovery from an overflow, compaction at the threshold,
continuation for queued messages. Then it flushes and settles. The agent itself (pi-agent-core) is external: `Poll`, `Reply`
and `AgentEnd` deliver its events, a reply being one of the kinds the session tells apart. `context` and `log` are
sequences of messages, the agent's and those of the session's entries. The entries reach the file when the first answer is
appended (`_persist`), with the title of the session (`flushToDisk`), or with a prompt written ahead: `saved` says whether they have, `OnDisk` is what a restart rebuilds; `AskForTitle` and `Title` are
the request for a title at the first prompt and its answer. `Said` is a sequence without its errors, each
of the others at the place given by those before it (`Spots`, `Before`). Continuations that run within one turn of the event loop
(`Busy({"continue", "settling"})`) are not interleaved. `Env` says what the host does: "overlap" (a prompt while another one is being prepared), "late" (a prompt while `agent_settled` hooks
run); the prompts in `Eager` ask to be written before their run. Left out: texts, tools, images, models, extensions' messages, the order within the steering queue.

### SessionTree

`mem`, `leaf`, `labels`, `flushed` and `cur` are the fields of a `SessionManager`, `disk` the files as bags of lines, so
that a line written twice is seen. `Persisted` is `_persist`, with its deferred, whole and appended writing; `AppendAtOnce` is the
message written ahead of its run. `Navigate`, `StartCompaction`/`EndCompaction` and the forks call it as the code does.
`Branched` is the branch a fork takes over: labels go, what follows them is chained anew, the labels of what is left are
appended. `Open` reads any file back, after a death of the process too. Entries are numbered in order of creation; the
code's identifiers are random, and a timestamp orders lines.

### SettingsFile

Every manager belongs to another process, as managers of one process cannot interleave inside `withLock`. A setter marks
its field and queues a write with a copy of what is marked and of all values; `Look`, `Acquire` or `AcquireToCreate`
and `Store` are one `withLock` of a write, whose steps other processes see. A nested setting is a field of its own. A load is
one step: it changes nothing. `weather` says which faults a behaviour may contain.

## 3. Runs

Every configuration has deadlock checking off: a finished task, an idle ledger, an index without edits and a session
nobody talks to may stop. That nobody waits for ever is the subject of `Terminates`, `EveryCallEnds` and `EveryCallReturns`.

| Run | Checks | Shows |
|---|---|---|
| `MCDispatch` | `OneDispatcher`, `NoReplay`, `LifecycleKept` | with lost and doubled signals, crashes, failing agents, cancellations of a running task and two retries, a task is worked on by one thread, is not replayed and is not retried while in work, and every step is one of `TaskLifecycle`; requests do not overlap |
| `MCStorm` | `TypeOK`, `RunsNotShared` | with a failing database, late events, the watchdog and failing tails two threads may get the same task, but never the same run row |
| `MCSettle` | `TerminalMeansSettled`, `PaidForDelivered`, `NoWorkspaceLeak`, `OutcomeAgrees` | if the settlement lookup has a transaction (on executor threads it has none: `MCUnsettled`), a paid design ends with its charge settled, its workspace handed over and its rows in agreement, but for the run whose plan could not be restored |
| `MCTerminates` | `Terminates` (FairSpec) | a submitted task ends and its threads are free again whatever signals are lost, rejected or doubled, agents are gone or fail, runners say nothing, the user cancels it in the queue, and the settlement throws for want of a transaction; that it is settled then is not claimed |
| `MCLedger` | `TypeOK`, `LedgerBalances`, `GrantedOnce`, `SettlementAgrees`, `PaidIsDelivered`, `MoneyKept` | the ledger under two overlapping threads and every kind of operation, and that it implements `PrepaidAccounts` |
| `MCIngest` | `TypeOK`, `IndexedMeansThere`, `DeletionIsPending`, `PagesAreIndexed`, `DeletedPagesForgotten` (FairSpec) | a page saved, edited and deleted, by itself or with its space, under each kind of fault by itself; what a deleted space leaves in the index is excepted |
| `MCMutation` | `TypeOK`, `OneMutator`, `InCallOrder`, `QueuesForgotten`, `AtomicChanges`, `EveryCallEnds` (FairSpec) | two writes and two edits, one through a link and two on a missing file: exclusion, order, no leak in the map, the refinement of `AtomicFiles`, and every call ends whatever fails; the link leads to a file that exists (`LinksLeadToFiles`) |
| `MCAgent` | `TypeOK`, `BusyMeansRunning`, `OneEntryPerRun`, `SameAfterRestart` | two prompts and any two of steering, bash result, abort, abortRetry, compact, at every `await`, one of the prompts written ahead; a restart rebuilds the conversation, or loses bash results of a session nothing has saved yet |
| `MCAgentRetries` | `RecoveryBounded`, `EveryCallReturns` (FairSpec) | a provider that fails until everything has been tried, with one other call meanwhile |
| `MCTree` | `TypeOK`, `FilesAreCopies`, `TreeIsSound`, `HistoryKept`, `ForkKeepsBranch` | two files and every sequence of up to five entries, with forks, copies, compactions and reopening |
| `MCSettings` | `ChangesAreKept`, `WritesMerge` | two processes and two settings, with several queued writes, or with writes and loads that fail |
| `MCUnsettled` | `TerminalMeansSettled`, violated | the finding of section 5 |

### Bounds

* Two executor threads and two listeners: a conflict over a task is one between two; the proofs in section 4 lift
  the bound where it matters most. `MCStorm` has one listener: its faults concern the threads behind it.
* `NumSteps` 2 has a boundary before, between and after steps; 3 for the technical design workflow, with the draft in
  the middle, so that it can end before, at and after the draft. `AsyncSteps` mixes runner steps and own steps.
* `MaxAttempts` 2: a first, and a last attempt. `MaxRuns`, `MaxSubmissions` 2: one retry, enough for two threads on
  different runs, and 3 in `MCDispatch`; `MaxRuns` is a guard of `Start`, so a further run is not explored (liveness
  needs one run only).
  `MaxMsgs` 2 or 3 is room for a signal, its double and the scan's.
* The ledger has one key of each mode and two threads. One user owns the three keys, so any two of them meet on an account;
  the other is registered, created without an account or found by the backfill, which opens several accounts at once or none.
  `Cost` 2, `Cap` 1 and `Usage` {1, 2, 3, 5} put the real cost below, at, above and beyond the cap; a register grant of 0 or 4
  and `Entered` {2, -2} with `MaxAdjusted` 2 for the owner of the keys let the balance be short of, equal to and above the price,
  and too low for the surcharge.
* One page, two versions, batch 2 and two tries: an edit meets the ingestion of the previous version, and a task is
  given up. Pages interact only through their place in the batch.
* `MCMutation`: a conflict over a file is one between two calls; two files show that chains do not meet, the link that
  the key is the real path, the missing file that its key is the same before and after it is created, as it is below no link.
* `MCAgent`: two prompts let the second meet what the first has left behind; `MaxTurns` 2 and `MaxRetries` 1 let a retry, a
  recovery or a tool call precede the answer. `MCAgentRetries` has 6 turns, more than the 2 * `MaxRetries` + 2 that
  `RecoveryBounded` allows, so that the bound is the code's and not the model's.
* `MCTree`: five entries are a question, an answer, a compaction, a bookmark and one more, in every order and shape of
  tree; with two files a fork meets the file it comes from. `MaxMarks` 1 keeps entries without meaning few.
* `MCSettings`: two processes and two fields are the smallest lost update; `MaxSets` 4 gives each of them two writes.

### Fairness

`ExecutionCenter`: weak fairness of the 5 second scan (`@Scheduled`), of each listener and each thread (a running
thread goes on; an agent call returns, because the HTTP clients have timeouts), and of transactions that have begun.
Users, faults and the runner owe nothing: `MCTerminates` includes runners that never answer, which the `timeout`
handles. `LightRagIngest`: weak fairness of the consumer's loop and of open transactions; strong fairness of the
scan, the poll, the fetch, the insertion and the ack, each of which is tried again and again and is assumed not to
fail every time. Edits are not fair. `FileMutationQueue`: weak fairness of each step after the call: promises are run and
file system calls answer. `AgentSession`: weak fairness of each prompt's and compaction's next step, whatever it is: the
event loop runs it, and providers, tools and hooks end (the code sets no limit to a hook). Calls of the host are not
fair; nor is the end of a wait chosen for it, which may be cut short or run out.

## 4. Proofs

All theorems are checked by TLAPS to the leaves and hold for every value of the constants that satisfies the named
assumptions (`ConstantsAssumption`, `LedgerAssumption`, `IngestAssumption`, `CallsAssumption`, `CanonAssumption`,
`AgentAssumption`, `MessageAssumption`, `TreeAssumption`, `SettingsAssumption`), which TLC evaluates in
the runs of their modules. `MessageAssumption` says that what a host sends is no reply of a model: in the code a message has
a role. Every safety invariant and every action property that a run checks is stated by a theorem. `LinksLeadToFiles` is a hypothesis of three theorems, and evaluated in `MCFileMutationQueue`. A hypothesis on `Env` or
`Weathers` leaves out faults the property does not survive (section 5) or, where the text below says so, some the proof does
not reach; every run lies within the hypotheses of its theorems.

| Theorem | States | Argument |
|---|---|---|
| `ExecutionCenterProofs!Typed` | `Spec => []TypeOK` | `TypeOK` is inductive; one lemma per group of actions |
| `ExecutionCenterProofs!RunsAreNotShared` | `Spec => []RunsNotShared`, for every `Env` | below |
| `ExecutionCenterProofs!OneDispatcherAtATime` | `ClaimsRespected` or `RetriesRespected` implies `Spec => []OneDispatcher` | below |
| `ExecutionCenterProofs!RunsAreSubmitted` | `ClaimsRespected` or `RetriesRespected` implies `Spec => []NoReplay` | below |
| `ExecutionCenterProofs!ImplementsTaskLifecycle` | `ClaimsRespected` or `RetriesRespected` implies `Spec => LifecycleKept`: the refinement | below |
| `ExecutionCenterProofs!LifecycleMeansOrder` | `LifecycleKept => [](OneDispatcher /\ NoReplay) /\ RetryOnlyWhenIdle` | the invariant `Counted` of the lifecycle |
| `ExecutionCenterProofs!RetriesFindNobody` | `RetriesRespected` implies `Spec => RetryOnlyWhenIdle` | the two above |
| `ExecutionCenterProofs!WorkspacesAreCleaned` | `CleanupsRespected` implies `Spec => []NoWorkspaceLeak` | below |
| `ExecutionCenterProofs!SettledGivenTransactions` | `SettlementsRespected`, a settlement that has a transaction among it, implies `Spec => []TerminalMeansSettled` | below |
| `ExecutionCenterProofs!UnstartedTasksAreSettled` | `"cancelRunning" \notin Env` implies `Spec => []UnstartedSettled`: a task over before its first run is settled, with the settlement as the code has it | below |
| `ExecutionCenterProofs!ChargesFollowDelivery` | `ChargesRespected` implies `Spec => []PaidForDelivered` | below |
| `ExecutionCenterProofs!FinishedRowsAgree` | `OutcomesRespected` implies `Spec => []OutcomeAgrees` | below |
| `CreditLedgerProofs!Typed` | `Spec => []TypeOK` | with `JobsFit`: what a thread's place says about its operation, user and amount |
| `CreditLedgerProofs!Balances` | `Spec => []LedgerBalances` | below |
| `CreditLedgerProofs!GrantsOnce` | `Spec => []GrantedOnce` | below |
| `CreditBillProofs!RefundsBounded` | `Spec => []RefundBounded`: nobody is given back more than was charged | below |
| `CreditBillProofs!SettlementsAgree` | `Spec => []SettlementAgrees` | below |
| `CreditBillProofs!PaymentsDeliver` | `Spec => []PaidIsDelivered` | below |
| `CreditBillProofs!ImplementsPrepaidAccounts` | `Spec => MoneyKept`: the refinement | below |
| `CreditBillProofs!MoneyMeansOneBill` | `MoneyKept` implies `[]PaidFits` and that a closed bill stands | from the steps of `PrepaidAccounts` |
| `LightRagIngestProofs!Typed`, `DeletionsArePending` | `Spec => []` of `TypeOK`, `DeletionIsPending` (pages deleted by themselves), all faults together | below |
| `LightRagIngestProofs!IndexedIsThere` | `Spec => []IndexedMeansThere` | below |
| `FileMutationQueueProofs!TypeCorrect`, `NoQueueLeaks`, `QueueExclusion` | `Spec => []` of `TypeOK`, `QueuesForgotten`, `OneMutatorPerKey`, for all links | below |
| `FileMutationQueueProofs!MutualExclusion`, `CallOrder` | `LinksLeadToFiles` implies `Spec => []` of `OneMutator`, `InCallOrder` | below |
| `FileMutationQueueProofs!ImplementsAtomicFiles` | `LinksLeadToFiles` implies `Spec => AtomicChanges`: the refinement | below |
| `AgentSessionProofs!AgentIsShown`, `OneRunAtATime`, `RunsLeaveOneEntry` | `"overlap" \notin Env` implies `Spec => []` of `BusyMeansRunning`, `OnePrompt`, `OneEntryPerRun` | below |
| `AgentSessionProofs!Typed` | `Spec => []TypeOK`, for every `Env` | `TypedInv`: messages of context and log, entries, attempts |
| `AgentSessionProofs!FailingProviderIsLeft` | `"overlap" \notin Env` implies `Spec => []RecoveryBounded` | below |
| `AgentSessionProofs!FileSaysTheSame` | `{"overlap", "late"} \intersect Env = {}` implies `Spec => []SameAfterRestart` | below |
| `SessionTreeProofs!Typed`, `FilesAreExact`, `HistoryIsKept` | `Spec => []TypeOK`, `Spec => []FilesAreCopies`, `Spec => HistoryKept`, for every `Env` | below |
| `SessionTreeProofs!TreesAreSound` | `OrderRespected` implies `Spec => []TreeIsSound` | below |
| `SessionTreeProofs!ForksKeepTheirBranch` | `"forkKept" \notin Env` implies `Spec => ForkKeepsBranch` | below |
| `SettingsFileProofs!MergeInvariance`, `OthersSurvive` | `CreatedByOne` implies `Spec => []MergeInv` (with `TypeOK`), `Spec => WritesMerge` | below |
| `SettingsFileProofs!Typed` | `Spec => []TypeOK`, for all `Weathers` | with `WorkInv`: who writes has a write queued |
| `SettingsFileProofs!NoChangeIsForgotten` | `ChangesRespected` implies `Spec => []ChangesAreKept` | below |

**RunsNotShared** is not inductive: a thread whose tail fails goes back to *finish* and writes its run again. The
invariant `RunsOwned` therefore speaks of every thread that holds a run or may come back to one. A run changes hands
only in `Insert`, where the number inserted is `runCount + 1` and thus above every run owned: this is the unique index on
task and run number.

**OneDispatcher** needs the invariant `OneToken`: threads that have the task in their hands and listeners that handle its
failure are at most one, and while there is one, the task's status, and every copy a thread may write back, is neither
PENDING nor RETRYING, so that the conditional update of a claim finds nothing. Once a run exists the task does
not wait again, and the copies that callbacks write back were read after that. It is broken by whoever writes a
waiting status without the token: a consumer whose *claiming update* failed (`markTaskRetrying` of a task that another
thread runs), and a retry. `ClaimsRespected` excludes these two faults, and only these: signals lost and doubled, failing
retry messages, rejections, crashes, errors, plans that cannot be restored, timeouts, the watchdog, late callbacks, all cancellations, failing tails and the
missing transaction of section 5 are covered. With retries the token is not enough, as a retry makes a task wait without
holding it. `OneRun` is the second invariant, under `RetriesRespected`: while a thread dispatches the task it is RUNNING,
in the row and in the thread's copy, and nothing else in flight can change that.

**LifecycleKept** is the refinement of `TaskLifecycle`. A submission is *due* while something could still become a run of it: a waiting
status, a claim that has not inserted its run, a failed claim in the hands of the catch block (`Claimed`). The proof does not ask which of the two
invariants holds: both imply `Orderly`, which says that whoever works is alone with nothing left to claim, and that the two steps that
hand work out again, the commit of a retry and the second chance of a thread whose tail failed, find nobody at work and nothing claimed.
`CountsOn` adds that only a retry makes a task wait that nothing claims. Then each
action of the executor, the consumers and the users is a step of the lifecycle or a stutter: `Claim`; `Insert` is `Begin`; `Finish`, a dropped, canceled
or crashed dispatch is `End`; the failure handling at the last attempt and a cancellation in the queue are `GiveUp`; and callbacks and the watchdog
do not move it, or take a waiting status away. From the lifecycle alone follow **OneDispatcher**, **NoReplay** (runs never exceed submissions,
and are fewer while one is due: `Counted`) and **RetryOnlyWhenIdle** (`LifecycleMeansOrder`). TLC checks the refinement with the faults of `MCDispatch`, which
lie under `RetriesRespected`; the theorem has it for those of `ClaimsRespected` too, where failing tails take the task again.

`RetriesRespected` leaves out the faults that end a task in the database while its thread goes on, those
that leave it RETRYING or its thread out of the run (rejections, errors, failing tails), overlapping requests, and cancellations of
running tasks with runner steps. The exclusions are nearly tight: with any one of them added to `MCDispatch` (late events and
cancellations of running tasks with `AsyncSteps = {2}` and the runner's faults, a second request) TLC finds a step that `LifecycleKept` does not allow. The
exception is `slowComplete`, for which it finds none with `AsyncSteps = {2}` and two runs, and which the theorems do not cover.

**NoWorkspaceLeak.** A workspace that is ACTIVE belongs to a thread between its first step and the end of its tail
(`OpenAttended`); only a crash or an exception before the cleanup takes the thread away.

**TerminalMeansSettled.** While the charge is open a thread is on its way to a tail, or no run was ever inserted and the task is not over
(`SettlementDue`); nobody outside can end a task that was never run but the cancellation, which settles. `RunsOwned` gives that
a thread in its steps has a run. Retries, overlapping requests, failing claims and plans that cannot be restored are covered. All this supposes that the
lookup has a transaction, as the code means it to; `MCUnsettled` shows that on executor threads it has none. What holds of the code as it is is
**UnstartedSettled**: a task that is over before its first run is settled, as the consumer at its last attempt and the user who cancels a waiting
task have transactions of their own. Its invariant `Unstarted` says that before the first run nobody but these two can end the task.

**PaidForDelivered** needs the token: who settles holds it, and afterwards no step of the task is run again, so no draft appears behind
a refund (`ChargeClosed`). A retry runs steps again, and the cancellation of a waiting task refunds without the token, although a
thread that has claimed it meanwhile goes on to deliver: `ChargesRespected` leaves both out.

**OutcomeAgrees** follows from `Outcome`: a step is RUNNING only at the thread that works on it or is about to close it as FAILED
(`StepsAttended`), whoever writes the task back holds a copy that is RUNNING or never had a run (`CopiesOpen`, `BoundLate`), and then the rows of a
finished task agree when nobody holds its run (`RowsAgree`). The property excepts the run of a plan that could not be restored (`NeverBegun`: the task FAILED, the run
RUNNING before its first step), which nobody closes. `OutcomesRespected` allows every fault of `MCSettle`, duplicates
and cancellations of waiting tasks; late events and the watchdog write rows of runs that are over, and a crash, a failing tail
or a retry leave a step or a run behind.

**LedgerBalances** and **GrantedOnce** are conjuncts of `LedgerInv`. The strengthening is `Locked` (a row lock has one holder,
and a thread about to commit either holds the lock of its account and its copy *is* the row, or has seen no account)
and `Unopened` (an account that is not open has no transactions that grant it, and one that does not exist as a user has
none). `Post` then adds the same amount to the row and to the journal.

**RefundBounded**, **SettlementAgrees** and **PaidIsDelivered** follow from `BillInv`. A bill is charged once, so at most one
request at a time has paid under a key and still answers for it (`OnePayer`); the settlement lock leaves at most one
thread between its decision and its commit (`OneSettler`). What such a thread read of its bill therefore still holds
when it commits (`Relies`), and what it posts agrees with the verdict it writes (`Agreed`). `BillFits` says what each status means
for the figures, and `Accounted` that a request which paid is delivered, refunded, abandoned, or in the hands of a
thread. The row lock of the account is not needed here. `BillInv` has no run of its own: its conjuncts are proved, not checked.

**MoneyKept** needs both invariants: from `Locked` that a commit adds its amount to the row as it is, from `Relies` and `Agreed` that
the bill it changes is still at the stage the thread saw and that the amount is between a full refund and the cap, and `Billed`, that who
was charged has an account. `Billed` follows from the steps of `PrepaidAccounts` themselves. Every other step leaves rows and figures alone.

**LightRagIngest.** `DeletionIsPending` follows from `Deletion`: every row of the table is one somebody selects (`AllKept`), a text on its way
into the index belongs to a page that exists or whose removal is queued or lost (`TextIsOwed`, which is where an insertion
crosses a deletion) or that went with its space (`dropped`), a DELETE that gets acknowledged has left nothing in the index (`AckedIsRemoved`), and so has one that is DONE but whose
acknowledgement failed (`DoneIsCurrent`). No fault is excluded, but a removal is given up only if calls fail or the consumer restarts (`RemovalsMayFail`). `IndexedMeansThere` adds, under the fault the property names itself, that
the versions of rows, scans and states do not run ahead of their pages (`RowsOfPages`, `ScanOfPage`, `StatesOfPages`), that the text
fetched is as new as the row and the state say (`TextIsNew`), and that the index is behind only between the removal of the
old text and the report of a failed insertion (`FreshOrReplaced`).

**The file mutation queue.** `QueueInv` holds for all links. It says that registrations keep the order of the calls (`OrderInv`, from the tickets), that a call in a chain waits for a call of its
own key at least as young as every other before it (`ChainInv`), that the map holds the youngest (`TailInv`, `LastInv`), that a
call at work has nothing left to wait for (`ActiveInv`), and that who started under a key found every earlier call of it ended (`KeyOrder`).
Two calls at work under one key would be ordered by their tickets, and the
later one waits for somebody who is still alive: `QueueExclusion`. What is said of files needs that one file has one key, `FileInv`: the key is the real path.
That is where `LinksLeadToFiles` comes in, and without it the code breaks it (section 5). The refinement adds `BaseInv`: what an edit has read is still what the
file holds, because nobody else is at work on it; then its write is `Edit` of `AtomicFiles`, and every other step a stutter.

**The agent session.** `RunInv` says that at most one prompt is between its preparation and the release of the session (`OnePrompt`),
that this prompt is the one shown (`ShownRun`) and the one the agent works for (`WorkerRuns`). Only a prompt that passes the check while another
one is being prepared breaks it: "overlap". `EntryInv` then gives the entries: those that exist belong to prompts that have
settled, one each, and the last one is the snapshot.

`RecoveryBounded` counts the errors of one message. `BoundInv` says that at every `await` on the way back into the loop each error so far is one of
the attempts counted, or was made before the recovery from an overflow, which is worth one round of attempts and itself (`Covered`); that a loop
which broke has one error more than that (`OneTooMany`); and that what goes on without being covered goes on from an answer, after which only
another user message begins anew (`CompactCovered`, `ContinueCovered`). A session that `compact()` has disconnected sees no error and
does not retry (`Unseen`); `compact()` waits for the run, and prompts for `compact()` (`CompactsWait`).

`SameAfterRestart` needs `SameInv`: at every moment the entries say what the memory says, errors left out, and the prompt written ahead of its run
(`LogInStep`); the error a retry takes out of memory is its last message (`ErrorIsLast`); and nobody prepares a prompt while the one before settles
(`SettledAlone`), which "late" would. From the entries to the file it is `saved`: who is saved stays so (`SavedForGood`), and until then, by `UnsavedInv`, the
agent is asking for a first answer or memory holds bash results alone; no prompt has got beyond its first answer (`Unanswered`). This is what
the property grants a restart to lose.

**The session tree.** `FileInv` says that the file in use is the image of the tree in memory, or missing and not flushed, and every other
file the image of some tree below `next` or missing. Bag lemmas (`LoadedWhole` and others) show that reading back what was written whole
gives the tree, and that appending the line of a new entry gives the image of the larger tree. No assumption about users is needed.

`SoundInv`, whatever users do: in memory and in every file parents come before their children, and the map of bookmarks is what
replaying the labels gives. The difficult step is the fork, which drops the labels of a path, chains what is left and appends labels anew: the
new numbers are shown to be those the code hands out by counting (`BelowOrders`, `BelowIsDense`). Paths are a recursive function; that it exists, and that a
path is its entry and the path of its parent, is shown by a least counterexample among the numbers of the tree (`UpIsDefined`),
as the induction theorems of the library are out of reach. `KeepInv`, under `OrderRespected`: the entry a compaction keeps from lies on its path; between the request for the
summary and its arrival that entry lies on the path to the leaf. `ForkKeepsBranch` then follows from the chain a branch is: the fork's path is
the image of the original's without labels, in the same order, so it shows the same messages from the same compaction.

**The settings file.** `MergeInv` says that who has read the file holds its lock and an up-to-date copy (`ReadInv`), that a missing file is
created by one manager at a time (`CreateInv`, from `CreatedByOne`), and that the fields marked and queued by a manager are its own.

For `ChangesAreKept` the file holds only what was written (`DataInv`), a reload waits for exactly the writes before it
(`ReloadInv`), a manager that could not load has nothing queued (`UnreadInv`), the last queued write takes all that is marked
(`LastInv`), a write that may fail takes only what is still marked (`FailInv`), and the last write of a field has the value shown
(`LatestInv`). `ChangesRespected` excludes the two combinations of section 5 that lose a change.

**Checked by TLC only:** liveness, `Terminates`, `PagesAreIndexed`, `DeletedPagesForgotten`, `EveryCallEnds`,
`EveryCallReturns`, since fairness and ENABLED are beyond the prover. There is no induction over data in the proofs: sequences are given by closed forms
(position and count), and recursion by least counterexamples.

## 5. What the code does otherwise

One run ends in a counterexample against a document:

* **Settlement without a transaction** (`MCUnsettled`). `settleCreditIfNeeded` runs a PESSIMISTIC_WRITE query on the executor thread,
  which has no transaction: `finish*` are called on `this`, their `@Transactional` does not apply. The query throws, the outcome becomes
  FAILED, and a charge stays CHARGED; docs/architecture.md:633 promises a refund. `MCTerminates` includes it, and so do the failing tails of
  `MCStorm`; the other runs of `ExecutionCenter` model the finish as it is written to be, with the transaction. Of the theorems, `SettledGivenTransactions`
  and those on retries and outcomes suppose it, the others hold either way.

### Back end

Behaviours met while modelling; the passing runs leave out the fault named in brackets:

* A plan whose agents have been disabled or deleted since (`ExecutionDispatchService`, lines 278-282) is found out after the run was inserted and
  bound, but before the `try`: the catch of the submitted thread (178-181) marks the task FAILED, and the run stays RUNNING for ever ("planError", in
  `MCDispatch`, `MCStorm`, `MCSettle` and `MCTerminates`; `OutcomeAgrees` excepts this run).
* A cancellation is overwritten by the executor's save of the copy it read before the step, and the next step begins, though
  `ExecutionTaskService` says that a running task stops at the step boundary. No property of a passing run speaks of it.
* A technical design that was refunded is delivered after a retry, for no charge ("retry", not in `MCSettle`).
* Late events of a runner revert an outcome: the managed entity hides the database's row ("lateEvents", in `MCStorm` only).
* A canceled live step allows a retry while the old thread still polls it (`MCDispatch` has no runner steps), and so do two retries that overlap:
  both have read the old status, and the second puts a task in work back to PENDING (`MCDispatch` has one request at a time).
* A restarted LightRAG consumer leaves a DELETE row PROCESSING for ever: no query takes it up, although the comment on `lockedUntil`
  (`LightRagIngestQueueEntity`, line 58) says that another consumer may.
* A crash after the claim leaves the task RUNNING for good ("crash", out of `MCTerminates`; `NoReplay` says why nothing
  takes it up).
* A completion that overlaps the executor's timeout writes the task back to RUNNING ("slowComplete", out of
  `MCTerminates`). Since `OutcomeAgrees` speaks of tasks that are over, `MCSettle` tolerates it.
* The watchdog fails steps without a live runner that are silent for a minute ("watchdog", in `MCStorm` only).
* A cancellation of a running task that commits after the finish writes RUNNING back ("cancelRunning", out of
  `MCTerminates`), and one of a waiting task that overlaps the claim is overwritten by `Bind`: the user was told
  "canceled" and the task runs ("cancelPending"; it still ends).
* A retry message that is lost strands the task RETRYING ("retryLoss", out of `MCTerminates`).
* A database error in a claiming update of a doubled signal puts a running task to RETRYING and lets it be dispatched
  again ("dbError", in `MCStorm` only).
* An exception in the tail turns a SUCCESS into FAILED, and the loser of the count-then-insert marks the task FAILED
  while the winner still works ("tailError", in `MCStorm`).
* The charge of a request that dies is not refunded (`abandoned` in `CreditLedger`). A surcharge the balance does not cover
  throws, and the settlement stays CHARGED.
* The first look of a user without an account at the credits tries to insert it inside a read-only transaction and
  fails; an adjustment or the backfill opens the account.
* Deleting a space (`WikiSpaceService.deleteSpace`, lines 399-408) removes its pages by the database's cascade (`V30__wiki_spaces.sql`, line 67) and queues no
  removal: their documents stay in the index, and nothing knows of them any more. `DeletionIsPending` excepts these pages (`dropped`).
* LightRAG: `IndexedMeansThere` and `PagesAreIndexed` assume `OnlyCallsFail`. An error answer to the fetch of a text looks like an
  empty text and is acknowledged ("content"); a page saved without text keeps its old text in the index ("blank"); a
  restart between removal and insertion ("restart"), with a second task of the same version in the hands of the consumer, can
  leave an INDEXED page out of the index. So can failing calls of the backend together with failing calls
  of LightRAG in one behaviour; either alone cannot. The claim query takes no lock although its comment says so, which matters
  only with a second consumer.

### gitpilot-cli

* Mutation queue: a *missing* file below a linked directory has the key of its path as written, and once it is created that of its real path. So two
  paths of it have two queues, and so has one and the same path over time: a call that looks the path up after the file appeared does not wait for
  those before it. `LinksLeadToFiles` excludes both; `QueueExclusion` holds regardless. A `writeFile` that fails half way and leaves a truncated file is not modelled.
* Agent session, with a host that does not wait: two prompts that both pass the check before either has begun its run get two runs, and the
  failed start of the second settles the first ("overlap": `BusyMeansRunning` fails). A prompt sent while the `agent_settled` hooks of the run
  before it are under way is stored twice, because the end of that run clears what was written ahead ("late": `SameAfterRestart`
  fails). `compact()` disconnects from the agent first: what a dying run still says reaches memory but not the file
  (`SameAfterRestart` is stated for sessions nobody has compacted by hand).
* Entries are in memory only until the first answer is appended (`session-manager.ts`, lines 1054-1066), unless a title comes first or a prompt is written ahead. A bash result recorded
  in a new, idle session (`agent-session.ts`, lines 3171-3195) is lost by a restart; `SameAfterRestart` grants that, and nothing more.
* A failed recovery from an overflow, or `abortRetry`, leaves the run without its error message, and it is recorded *completed*. An abort
  that falls into the preparation of the run, or into an automatic compaction, is recorded as *stopped* although the run goes on.
* A retry followed by a recovery from an overflow leaves the older error in the rebuilt context; if that is the last message, `continue()` throws.
* A steering message accepted while the session is idle or settling waits for the next prompt; a bash result recorded while the run settles likewise.
* Session tree: a fork of a path whose latest compaction keeps from a label entry loses the kept entries ("forkKept"); navigating while a compaction's summary
  is being made puts the compaction on another path than what it keeps ("moveWhileCompacting"). Not modelled: an append that fails
  or is torn, the death of the process inside a rewrite of the whole file (the file is truncated first), sessions without a file; and that
  a navigation which appends nothing is forgotten by a restart.
* Settings: the file is looked for before it is locked, so two processes that create it together lose what the first one wrote
  ("createTogether"); a write that succeeds forgets every modification, also that of a queued write which then fails ("burst" with "writeFails"); a setter called
  while a reload waits for earlier writes is undone in memory by the reload, though written ("setWhileReloading"). Not modelled: the
  death of the process inside `writeFileSync`, the ten attempts at the lock one by one (their failure is `Fail`), locks that have gone stale.
* Session host (not modelled yet): `fork` and the import tear a running session down, although the class comment says that active sessions are suspended;
  a failure to create the next runtime leaves the session before it in the map of suspended ones; a prompt that is still being prepared counts as idle and is disposed of.

## 6. Plan

Done: `ExecutionCenter` with `TaskLifecycle`, `CreditLedger` with `PrepaidAccounts`, `LightRagIngest`, `FileMutationQueue` with `AtomicFiles`, `AgentSession`, `SessionTree`, `SettingsFile`. Next:

1. `SessionHost`: active and suspended sessions of gitpilot-cli and the desktop under switches, forks, imports and failures; and
   `PiRuntime`: sessions and runs of `pi-runtime` at every `await` (a resumed run's events under the run that created the session, a resume that aborts
   the run before it, a cancellation before the prompt, a dispose that removes another session's entry).
2. `ExecutionEvents`: sequence numbers under the JVM monitor and the row lock, the reader that stops when the run is over and one read was empty.
3. `WorkspaceCleanup`: schedule, lease, retries and give-up; `NoWorkspaceLeak` continued to the end.
4. `DevelopmentExecution`: WAITING_CONFIRMATION, confirmation against cancel and retry.
5. The other queues: Wiki index queue (order of two tasks of a page) and chat room agents. Pipelines' callback delivery.
6. The CLI proxy in the ledger; auto-merge, which consumes inside its outer transaction.
7. Small ones: data change, server terminals, login sessions, self-upgrade, credentials of the CLI (`auth-storage.ts`), the desktop's side process.

Theorem next: a weaker `RetriesRespected`.
