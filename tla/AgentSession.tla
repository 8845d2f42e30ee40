---------------------------- MODULE AgentSession ----------------------------
(***************************************************************************)
(* One conversation of gitpilot-cli (core/agent-session.ts): prompts, the  *)
(* messages queued behind them, automatic retry, compaction, abort, bash   *)
(* results and the execution snapshot (core/agent-execution-state.ts).     *)
(*                                                                         *)
(* JavaScript runs one task at a time, so a step is what happens between   *)
(* two awaits that really wait; the RPC host (modes/rpc/rpc-mode.ts)       *)
(* starts a task for every line it reads, without waiting for the task of  *)
(* the line before. The Agent of pi-agent-core, which calls the model and  *)
(* the tools, is external: it is modelled by what agent-session.ts relies  *)
(* on.                                                                     *)
(***************************************************************************)
EXTENDS Naturals, Sequences, FiniteSets, SequencesExt

CONSTANTS
  Prompts,      \* calls of prompt(); each carries one user message, itself
  Steers,       \* messages given to steer() or followUp()
  Shells,       \* bash results given to recordBashResult()
  Aborts,       \* calls of abort()
  Cancels,      \* calls of abortRetry()
  Compacts,     \* calls of compact()
  MaxRetries,   \* settings.retry.maxRetries
  MaxTurns,     \* bound: replies that are errors or tool calls
  MaxCalls,     \* bound: calls of the host besides the prompts
  Eager,        \* prompts that ask for persistUserMessageBeforeRun, as the design sessions do
  Env,          \* what the host does, see below
  Nobody

\* "overlap"  a prompt is sent before the response to the prompt or compact call before it
\* "late"     a prompt is sent after a run has settled, before its agent_settled event
ASSUME AgentAssumption ==
  /\ MaxRetries \in Nat /\ MaxTurns \in Nat /\ MaxCalls \in Nat
  /\ Eager \subseteq Prompts
  /\ Env \subseteq {"overlap", "late"}
  /\ Nobody \notin Prompts
  /\ Prompts \intersect (Steers \union Shells \union Aborts \union Cancels \union Compacts) = {}
  /\ Aborts \intersect Compacts = {}

UserMessages == Prompts \union Steers
Tasks == UserMessages \union Shells \union Aborts \union Cancels \union Compacts

\* What the model answers: an answer, one that fills the context window up to the
\* compaction threshold, tool calls (and their results), an error worth a retry, another
\* error, the overflow of the context window, or the message of a call that was aborted.
Answers == {"stop", "large"}
Errors == {"error", "fatal", "overflow"}
Replies == Answers \union Errors \union {"tool", "aborted"}

\* What a host sends is not what a model answers.
ASSUME MessageAssumption == (UserMessages \union Shells) \intersect Replies = {}

VARIABLES
  pc,           \* where each task is
  active,       \* _isAgentRunActive
  snap,         \* the execution snapshot: the run (the prompt that began it) and its status
  entries,      \* the gitpilot.execution-run.v1 entries of the session
  runAborted,   \* _runAborted
  forced,       \* _runForcedFailure is set
  worker,       \* the prompt the agent works for, or Nobody
  stage,        \* where the agent is in its loop
  signal,       \* the agent's abort signal
  queue,        \* what the agent's steering and follow-up queues hold, their order left out
  context,      \* agent.state.messages
  log,          \* the messages buildSessionContext finds in the session's entries
  saved,        \* whether the entries are in the session file ("no" and "soon": only in memory)
  connected,    \* _unsubscribeAgent is set
  last,         \* _lastAssistantMessage, or "none"
  attempt,      \* _retryAttempt
  sleeping,     \* _retryAbortController is set and not aborted
  overflowed,   \* _overflowRecoveryAttempted
  pendingBash,  \* _pendingBashMessages
  prePersisted, \* _prePersistedUserMessages
  turns,        \* replies with errors or tool calls so far
  fails         \* errors since the last user message, other reply or cancelled wait

agentVars == <<worker, stage, signal>>
textVars == <<context, log, saved, prePersisted>>
runVars == <<active, snap, entries, runAborted, forced>>
retryVars == <<last, attempt, sleeping, overflowed, fails>>
vars == <<pc, agentVars, queue, textVars, runVars, retryVars, connected, pendingBash, turns>>

Messages == UserMessages \union Shells \union Replies \union {"summary"}
Steps == {"new", "preflight", "precompact", "prerecover", "hooks", "tracking", "agent", "post",
          "sleep", "recover", "compact", "continue", "settling", "finalizing", "settled",
          "waiting", "compacting", "done"}
Outcomes == {"completed", "failed", "stopped"}

TypeOK ==
  /\ pc \in [Tasks -> Steps]
  /\ active \in BOOLEAN /\ runAborted \in BOOLEAN /\ forced \in BOOLEAN
  /\ snap \in [run : Prompts \union {Nobody}, status : {"idle", "running"} \union Outcomes]
  /\ entries \in Seq([run : Prompts, status : Outcomes])
  /\ worker \in Prompts \union {Nobody}
  /\ stage \in {"idle", "asking", "polling", "answered", "broken"}
  /\ signal \in BOOLEAN
  /\ queue \subseteq UserMessages
  /\ context \in Seq(Messages) /\ log \in Seq(Messages)
  /\ saved \in {"no", "soon", "yes"}
  /\ prePersisted \subseteq Prompts
  /\ connected \in BOOLEAN
  /\ last \in Replies \union {"none"}
  /\ attempt \in 0..MaxRetries
  /\ sleeping \in BOOLEAN /\ overflowed \in BOOLEAN
  /\ pendingBash \in Seq(Shells)
  /\ turns \in 0..MaxTurns
  /\ fails \in Nat

Init ==
  /\ pc = [t \in Tasks |-> "new"]
  /\ active = FALSE
  /\ snap = [run |-> Nobody, status |-> "idle"]
  /\ entries = <<>>
  /\ runAborted = FALSE /\ forced = FALSE
  /\ worker = Nobody /\ stage = "idle" /\ signal = FALSE
  /\ queue = {}
  /\ context = <<>> /\ log = <<>> /\ prePersisted = {}
  /\ saved \in {"no", "yes"}      \* "yes": created with persistImmediately
  /\ connected = TRUE
  /\ last = "none" /\ attempt = 0 /\ sleeping = FALSE /\ overflowed = FALSE
  /\ pendingBash = <<>>
  /\ turns = 0 /\ fails = 0

At(t, step) == pc[t] = step
Goto(t, step) == pc' = [pc EXCEPT ![t] = step]
Busy(steps) == \E t \in Tasks : pc[t] \in steps

-----------------------------------------------------------------------------
(* Messages. *)

\* The last message is the assistant's (after tool calls it is a tool's).
EndsInReply(msgs) == msgs # <<>> /\ msgs[Len(msgs)] \in Replies \ {"tool"}

\* The last of these messages, or "none".
LastOf(msgs, kinds) ==
  LET found == {i \in DOMAIN msgs : msgs[i] \in kinds}
  IN IF found = {} THEN "none" ELSE msgs[Max(found)]

\* Retry and overflow recovery take the last message out if it is the assistant's.
Strip(msgs) == IF EndsInReply(msgs) THEN Front(msgs) ELSE msgs

\* A reply that a compaction has left behind no longer asks for one (lines 2318-2326).
Aged(m) == CASE m = "large" -> "stop" [] m = "overflow" -> "error" [] OTHER -> m

\* appendCompaction and buildSessionContext: a summary and what is kept from cut on.
Compacted(msgs, cut) ==
  <<"summary">> \o [i \in 1..(Len(msgs) - cut + 1) |-> Aged(msgs[cut + i - 1])]

\* Where prepareCompaction may cut: bash results that came in during the summary stay.
Cuts(msgs) == {c \in 2..Len(msgs) : \E i \in c..Len(msgs) : msgs[i] \notin Shells}

\* Mutant of Deliver: a message written ahead is written again.
DeliverTwice(m) ==
  /\ context' = Append(context, m)
  /\ log' = IF connected THEN Append(log, m) ELSE log
  /\ prePersisted' = IF connected THEN prePersisted \ {m} ELSE prePersisted
  /\ overflowed' = (overflowed /\ ~connected)
  /\ fails' = 0
  /\ UNCHANGED saved

\* A user message reaches the agent's state and, by its message_end event, the log, unless
\* it was written ahead or the session is not connected to the agent. It is no reason to save.
Deliver(m) ==
  /\ context' = Append(context, m)
  /\ log' = IF connected /\ m \notin prePersisted THEN Append(log, m) ELSE log
  /\ prePersisted' = IF connected THEN prePersisted \ {m} ELSE prePersisted
  /\ overflowed' = (overflowed /\ ~connected)
  /\ fails' = 0
  /\ UNCHANGED saved

FlushBash ==
  /\ context' = context \o pendingBash
  /\ log' = log \o pendingBash
  /\ pendingBash' = <<>>

-----------------------------------------------------------------------------
(* prompt(), up to the run. *)

Preparing == {"preflight", "precompact", "prerecover", "hooks"}

\* The responses and events a host waits for before it sends a prompt.
Sends(p) ==
  /\ At(p, "new")
  /\ "overlap" \notin Env =>
       ~ Busy(Preparing) /\ \A c \in Compacts : pc[c] \in {"new", "done"}
  /\ "late" \notin Env => ~ Busy({"settled"})

\* The host asks for a title when a prompt finds no message: it will save the session.
AskForTitle == saved' = IF saved = "no" /\ context = <<>> THEN "soon" ELSE saved

\* isStreaming: the message is refused, or queued if the caller said how.
PromptWhileActive(p) ==
  /\ Sends(p) /\ active
  /\ Goto(p, "done")
  /\ queue' \in {queue, queue \union {p}}
  /\ AskForTitle
  /\ UNCHANGED <<agentVars, context, log, prePersisted, runVars, retryVars, connected, pendingBash,
                 turns>>

\* Mutant of PromptWhileIdle: nobody looks whether a run is on.
PromptAtAnyTime(p) ==
  /\ Sends(p)
  /\ Goto(p, "preflight")
  /\ FlushBash
  /\ AskForTitle
  /\ UNCHANGED <<agentVars, queue, prePersisted, runVars, retryVars, connected, turns>>

PromptWhileIdle(p) ==
  /\ Sends(p) /\ ~active
  /\ Goto(p, "preflight")
  /\ FlushBash
  /\ AskForTitle
  /\ UNCHANGED <<agentVars, queue, prePersisted, runVars, retryVars, connected, turns>>

\* generateAndApplySessionTitle: the title is there, or a cut of the message stands for it.
Title ==
  /\ saved = "soon"
  /\ saved' = "yes"
  /\ UNCHANGED <<pc, agentVars, queue, context, log, prePersisted, runVars, retryVars, connected,
                 pendingBash, turns>>

\* preflightResult(false): no model, no credentials, or a hook throws.
RefusePrompt(p) ==
  /\ pc[p] \in {"preflight", "hooks"}
  /\ Goto(p, "done")
  /\ UNCHANGED <<agentVars, queue, textVars, runVars, retryVars, connected, pendingBash, turns>>

\* _checkCompaction, case 2: the context is over the threshold; an error or an aborted call
\* is judged by the last valid response.
OverThreshold(reply) ==
  "large" = IF reply \in Errors \union {"aborted"}
              THEN LastOf(context, Answers \union {"tool"}) ELSE reply

\* Mutant of CheckCompaction: the recovery is not remembered.
RecoverAgain(t, reply, msgs, overflow, threshold, otherwise) ==
  /\ UNCHANGED <<forced, overflowed>>
  /\ context' = IF reply = "overflow" THEN Strip(msgs) ELSE msgs
  /\ Goto(t, CASE reply = "overflow" -> overflow
               [] reply # "overflow" /\ OverThreshold(reply) -> threshold
               [] OTHER -> otherwise)

\* _checkCompaction for a reply: what it leaves in forced, overflowed and the context, and
\* the step it leads to.
CheckCompaction(t, reply, msgs, overflow, threshold, otherwise) ==
  /\ forced' = (forced \/ (reply = "overflow" /\ overflowed))
  /\ overflowed' = (overflowed \/ reply = "overflow")
  /\ context' = IF reply = "overflow" /\ ~overflowed THEN Strip(msgs) ELSE msgs
  /\ Goto(t, CASE reply = "overflow" -> IF overflowed THEN otherwise ELSE overflow
               [] reply # "overflow" /\ OverThreshold(reply) -> threshold
               [] OTHER -> otherwise)

\* The check before the prompt; its result is not used.
PreCheck(p) ==
  /\ At(p, "preflight")
  /\ CheckCompaction(p, LastOf(context, Replies), context, "prerecover", "precompact", "hooks")
  /\ UNCHANGED <<agentVars, queue, log, saved, prePersisted, active, snap, entries, runAborted,
                 last, attempt, sleeping, fails, connected, pendingBash, turns>>

\* The hooks are through: the message is saved ahead if the caller asked for it, and
\* _runAgentPrompt begins the run before it waits for the workspace tracker.
BeginRun(p) ==
  /\ At(p, "hooks")
  /\ Goto(p, "tracking")
  /\ IF p \in Eager
       THEN log' = Append(log, p) /\ prePersisted' = prePersisted \union {p} /\ saved' = "yes"
       ELSE UNCHANGED <<log, prePersisted, saved>>
  /\ runAborted' = FALSE /\ forced' = FALSE
  /\ snap' = [run |-> p, status |-> "running"]
  /\ active' = TRUE
  /\ UNCHANGED <<agentVars, queue, context, entries, retryVars, connected, pendingBash, turns>>

-----------------------------------------------------------------------------
(* The agent's loop (external). *)

\* agent.prompt(): refused while the agent works.
StartAgent(p) ==
  /\ At(p, "tracking")
  /\ IF worker # Nobody
       THEN /\ Goto(p, "settling")
            /\ UNCHANGED <<agentVars, textVars, overflowed, fails>>
       ELSE /\ Goto(p, "agent")
            /\ worker' = p /\ stage' = "asking" /\ signal' = FALSE
            /\ Deliver(p)
  /\ UNCHANGED <<queue, runVars, last, attempt, sleeping, connected, pendingBash, turns>>

\* The model's message ends, with its tools' results; _handleAgentEvent keeps it. The first
\* one takes all entries to the file (_persist).
Reply(p, kind) ==
  /\ worker = p /\ stage = "asking"
  /\ kind = "aborted" => signal
  /\ kind \in Errors \union {"tool"} => turns < MaxTurns
  /\ turns' = IF kind \in Errors \union {"tool"} THEN turns + 1 ELSE turns
  /\ stage' = CASE kind = "tool" -> "polling" [] kind \in Answers -> "answered" [] OTHER -> "broken"
  /\ context' = Append(context, IF kind = "fatal" THEN "error" ELSE kind)
  /\ fails' = IF kind \in Errors THEN fails + 1 ELSE 0
  /\ IF connected
       THEN /\ log' = Append(log, IF kind \in Errors THEN "error" ELSE kind)
            /\ saved' = "yes"
            /\ last' = kind
            /\ IF kind \in Errors THEN UNCHANGED <<attempt, overflowed>>
                                  ELSE attempt' = 0 /\ overflowed' = FALSE
       ELSE UNCHANGED <<log, saved, last, attempt, overflowed>>
  /\ UNCHANGED <<pc, worker, signal, queue, prePersisted, runVars, sleeping, connected,
                 pendingBash>>

\* A queued message goes in after the tools, or after what would have been the last answer.
Poll(p) ==
  /\ worker = p /\ stage \in {"polling", "answered"}
  /\ stage' = "asking"
  /\ \/ \E m \in queue : queue' = queue \ {m} /\ Deliver(m)
     \/ stage = "polling" /\ UNCHANGED <<queue, textVars, overflowed, fails>>
  /\ UNCHANGED <<pc, worker, signal, runVars, last, attempt, sleeping, connected, pendingBash,
                 turns>>

\* agent_end; what an error or an abort leaves in the queues stays there.
AgentEnd(p) ==
  /\ worker = p
  /\ stage = "broken" \/ (stage = "answered" /\ queue = {})
  /\ worker' = Nobody /\ stage' = "idle" /\ signal' = FALSE
  /\ Goto(p, "post")
  /\ UNCHANGED <<queue, textVars, runVars, retryVars, connected, pendingBash, turns>>

-----------------------------------------------------------------------------
(* After the agent's loop: _handlePostAgentRun. *)

\* hasQueuedMessages decides.
IfQueued == IF queue # {} THEN "continue" ELSE "settling"

\* Mutant of PostRetry: one attempt too many.
RetryOnceMore(p) ==
  /\ At(p, "post")
  /\ last = "error" /\ attempt <= MaxRetries
  /\ attempt' = attempt + 1
  /\ context' = Strip(context)
  /\ sleeping' = TRUE
  /\ last' = "none"
  /\ Goto(p, "sleep")
  /\ UNCHANGED <<agentVars, queue, log, saved, prePersisted, runVars, overflowed, fails, connected,
                 pendingBash, turns>>

PostRetry(p) ==
  /\ At(p, "post")
  /\ last = "error" /\ attempt < MaxRetries
  /\ attempt' = attempt + 1
  /\ context' = Strip(context)
  /\ sleeping' = TRUE
  /\ last' = "none"
  /\ Goto(p, "sleep")
  /\ UNCHANGED <<agentVars, queue, log, saved, prePersisted, runVars, overflowed, fails, connected,
                 pendingBash, turns>>

PostOther(p) ==
  /\ At(p, "post")
  /\ last = "error" => attempt = MaxRetries
  /\ last' = "none"
  /\ attempt' = IF last \in Errors THEN 0 ELSE attempt
  /\ IF last \in {"none", "aborted"}
       THEN /\ Goto(p, IF last = "none" THEN "settling" ELSE IfQueued)
            /\ UNCHANGED <<context, forced, overflowed>>
       ELSE CheckCompaction(p, last, context, "recover", "compact", IfQueued)
  /\ UNCHANGED <<agentVars, queue, log, saved, prePersisted, active, snap, entries, runAborted,
                 sleeping, fails, connected, pendingBash, turns>>

SleepEnds(p) ==
  /\ At(p, "sleep") /\ sleeping
  /\ sleeping' = FALSE
  /\ Goto(p, "continue")
  /\ UNCHANGED <<agentVars, queue, textVars, runVars, last, attempt, overflowed, fails, connected,
                 pendingBash, turns>>

\* The sleep was aborted: no retry, but still the compaction check.
SleepCut(p) ==
  /\ At(p, "sleep") /\ ~ sleeping
  /\ attempt' = 0 /\ fails' = 0
  /\ CheckCompaction(p, "error", context, "recover", "compact", IfQueued)
  /\ UNCHANGED <<agentVars, queue, log, saved, prePersisted, active, snap, entries, runAborted,
                 last, sleeping, connected, pendingBash, turns>>

\* _runAutoCompaction: the summary is there. The recovery of an overflow takes one more error
\* out of the rebuilt context.
CompactionEnds(p) ==
  /\ pc[p] \in {"precompact", "prerecover", "recover", "compact"}
  /\ \E cut \in Cuts(log) :
       /\ log' = Compacted(log, cut)
       /\ context' = IF pc[p] \in {"prerecover", "recover"} /\ LastOf(log', Messages) \in Errors
                       THEN Front(log') ELSE log'
  /\ Goto(p, CASE pc[p] = "recover" -> "continue" [] pc[p] = "compact" -> IfQueued [] OTHER -> "hooks")
  /\ UNCHANGED <<agentVars, queue, saved, prePersisted, runVars, retryVars, connected,
                 pendingBash, turns>>

\* No credentials, nothing to summarise, the summary failed, or a hook cancelled it.
CompactionFails(p) ==
  /\ pc[p] \in {"precompact", "prerecover", "recover", "compact"}
  /\ Goto(p, IF pc[p] \in {"recover", "compact"} THEN IfQueued ELSE "hooks")
  /\ UNCHANGED <<agentVars, queue, textVars, runVars, retryVars, connected, pendingBash, turns>>

\* agent.continue(): refused while the agent works; after an assistant message it needs a
\* queued one.
Refuses == worker # Nobody \/ context = <<>> \/ (EndsInReply(context) /\ queue = {})

Continue(p) ==
  /\ At(p, "continue")
  /\ IF Refuses
       THEN /\ Goto(p, "settling")
            /\ UNCHANGED <<agentVars, queue, textVars, overflowed, fails>>
       ELSE /\ Goto(p, "agent")
            /\ worker' = p /\ signal' = FALSE
            /\ IF EndsInReply(context)
                 THEN stage' = "asking" /\ \E m \in queue : queue' = queue \ {m} /\ Deliver(m)
                 ELSE stage' = "polling" /\ UNCHANGED <<queue, textVars, overflowed, fails>>
  /\ UNCHANGED <<runVars, last, attempt, sleeping, connected, pendingBash, turns>>

-----------------------------------------------------------------------------
(* The end of the run: the finally block of _runAgentPrompt and _emitAgentSettled. *)

Flush(p) ==
  /\ At(p, "settling")
  /\ Goto(p, "finalizing")
  /\ FlushBash
  /\ UNCHANGED <<agentVars, queue, saved, prePersisted, runVars, retryVars, connected, turns>>

\* _resolveRunOutcome
Outcome ==
  CASE forced -> "failed"
    [] ~forced /\ runAborted -> "stopped"
    [] ~forced /\ ~runAborted /\ LastOf(context, Replies) \in Errors -> "failed"
    [] OTHER -> "completed"

\* The workspace tracker is through.
Settle(p) ==
  /\ At(p, "finalizing")
  /\ Goto(p, "settled")
  /\ active' = FALSE
  /\ IF snap.status = "running"
       THEN /\ snap' = [snap EXCEPT !.status = Outcome]
            /\ entries' = Append(entries, snap')
       ELSE UNCHANGED <<snap, entries>>
  /\ runAborted' = FALSE /\ forced' = FALSE
  /\ UNCHANGED <<agentVars, queue, textVars, retryVars, connected, pendingBash, turns>>

\* Where abort() and compact() go on when the session is idle.
AfterWait(t) == IF t \in Compacts THEN "compacting" ELSE "done"

\* Mutant of EndRun: the waiters are not told.
EndRunAlone(p) ==
  /\ At(p, "settled")
  /\ Goto(p, "done")
  /\ prePersisted' = {}
  /\ UNCHANGED <<agentVars, queue, context, log, saved, runVars, retryVars, connected,
                 pendingBash, turns>>

\* The agent_settled hooks and listeners are through.
EndRun(p) ==
  /\ At(p, "settled")
  /\ pc' = [t \in Tasks |-> CASE t = p -> "done"
                              [] t # p /\ At(t, "waiting") /\ ~active -> AfterWait(t)
                              [] OTHER -> pc[t]]
  /\ prePersisted' = {}
  /\ UNCHANGED <<agentVars, queue, context, log, saved, runVars, retryVars, connected,
                 pendingBash, turns>>

-----------------------------------------------------------------------------
(* The other calls. *)

Steer(m) ==
  /\ At(m, "new")
  /\ Goto(m, "done")
  /\ queue' = queue \union {m}
  /\ UNCHANGED <<agentVars, textVars, runVars, retryVars, connected, pendingBash, turns>>

\* A bash result is no reason to save the session.
RecordBash(b) ==
  /\ At(b, "new")
  /\ Goto(b, "done")
  /\ IF active
       THEN pendingBash' = Append(pendingBash, b) /\ UNCHANGED <<context, log>>
       ELSE context' = Append(context, b) /\ log' = Append(log, b) /\ UNCHANGED pendingBash
  /\ UNCHANGED <<agentVars, queue, saved, prePersisted, runVars, retryVars, connected, turns>>

\* Mutant of AbortRun: the run is shown as stopped before it has settled.
AbortShown(t) ==
  /\ runAborted' = (runAborted \/ active)
  /\ snap' = IF active THEN [snap EXCEPT !.status = "stopped"] ELSE snap
  /\ sleeping' = FALSE
  /\ signal' = (worker # Nobody)
  /\ Goto(t, IF active THEN "waiting" ELSE AfterWait(t))
  /\ UNCHANGED <<worker, stage, textVars, active, entries, forced, last, attempt, overflowed,
                 fails, pendingBash, turns>>

\* abort(), up to waitForIdle.
AbortRun(t) ==
  /\ runAborted' = (runAborted \/ active)
  /\ sleeping' = FALSE
  /\ signal' = (worker # Nobody)
  /\ Goto(t, IF active THEN "waiting" ELSE AfterWait(t))
  /\ UNCHANGED <<worker, stage, textVars, active, snap, entries, forced, last, attempt, overflowed,
                 fails, pendingBash, turns>>

\* The host may ask for the queues to be cleared first.
Abort(a) ==
  /\ At(a, "new")
  /\ AbortRun(a)
  /\ queue' \in {queue, {}}
  /\ UNCHANGED connected

AbortRetry(k) ==
  /\ At(k, "new")
  /\ Goto(k, "done")
  /\ sleeping' = FALSE
  /\ UNCHANGED <<agentVars, queue, textVars, runVars, last, attempt, overflowed, fails, connected,
                 pendingBash, turns>>

\* compact() disconnects from the agent and aborts.
Compact(c) ==
  /\ At(c, "new")
  /\ "overlap" \notin Env => ~ Busy(Preparing)
  /\ connected' = FALSE
  /\ AbortRun(c)
  /\ UNCHANGED queue

\* The summary is there, or compact() throws; in the end the session is connected again.
EndCompact(c) ==
  /\ At(c, "compacting")
  /\ \/ \E cut \in Cuts(log) : log' = Compacted(log, cut) /\ context' = log'
     \/ UNCHANGED <<context, log>>
  /\ connected' = TRUE
  /\ Goto(c, "done")
  /\ UNCHANGED <<agentVars, queue, saved, prePersisted, runVars, retryVars, pendingBash, turns>>

-----------------------------------------------------------------------------
\* agent.continue() and the finally block follow in the same turn of the event loop.
Urgent(p) == Continue(p) \/ Flush(p)

Prepare(p) == PreCheck(p) \/ RefusePrompt(p) \/ BeginRun(p) \/ StartAgent(p)
Work(p) == (\E kind \in Replies : Reply(p, kind)) \/ Poll(p) \/ AgentEnd(p)
Post(p) == PostRetry(p) \/ PostOther(p) \/ SleepEnds(p) \/ SleepCut(p)
             \/ CompactionEnds(p) \/ CompactionFails(p) \/ Settle(p) \/ EndRun(p)

Calls ==
  \/ \E p \in Prompts : PromptWhileActive(p) \/ PromptWhileIdle(p)
  \/ /\ Cardinality({t \in Tasks \ Prompts : pc[t] # "new"}) < MaxCalls
     /\ \/ \E m \in Steers : Steer(m)
        \/ \E b \in Shells : RecordBash(b)
        \/ \E a \in Aborts : Abort(a)
        \/ \E c \in Compacts : Compact(c)
        \/ \E k \in Cancels : AbortRetry(k)

Next ==
  \/ \E p \in Prompts : Urgent(p)
  \/ /\ ~ Busy({"continue", "settling"})
     /\ \/ Calls \/ Title
        \/ \E p \in Prompts : Prepare(p) \/ Work(p) \/ Post(p)
        \/ \E c \in Compacts : EndCompact(c)

Spec == Init /\ [][Next]_vars

Runs(p) == Urgent(p) \/ (~ Busy({"continue", "settling"}) /\ (Prepare(p) \/ Work(p) \/ Post(p)))
Compacting(c) == ~ Busy({"continue", "settling"}) /\ EndCompact(c)

\* The event loop takes every task on, and providers, tools and hooks end.
Fairness ==
  /\ \A p \in Prompts : WF_vars(Runs(p))
  /\ \A c \in Compacts : WF_vars(Compacting(c))

FairSpec == Spec /\ Fairness

-----------------------------------------------------------------------------
(* Properties. *)

\* While the agent works, the session is streaming and its snapshot shows this very run as
\* running: an idle session (line 1154, "no active agent run, retry, auto-compaction, or queued
\* continuation") never has an agent at work behind it.
BusyMeansRunning ==
  worker # Nobody => active /\ snap = [run |-> worker, status |-> "running"]

\* Every run that has settled has one entry in the session, and the snapshot agrees with
\* the last one, through retries, compactions, continuations, aborts and failed starts.
OneEntryPerRun ==
  /\ \A i, j \in DOMAIN entries : entries[i].run = entries[j].run => i = j
  /\ snap.status \in Outcomes => entries # <<>> /\ entries[Len(entries)] = snap
  /\ \A p \in Prompts : At(p, "settled") => \E i \in DOMAIN entries : entries[i].run = p

\* What a restart would rebuild from the file is what the idle session has in memory, but for
\* the errors that retry and recovery take out of memory only: no message is missing, doubled
\* or out of order. The bash results that come in before the session has been saved are in
\* memory only, and a restart loses them; no user message and no reply ever waits with them.
\* (Until compact() is called: see README, section 5.)
OnDisk == IF saved = "yes" THEN log ELSE <<>>
OnlyShells(msgs) == \A i \in DOMAIN msgs : msgs[i] \in Shells
Spots(msgs) == {i \in DOMAIN msgs : msgs[i] \notin Errors}
Before(msgs, i) == Cardinality({j \in Spots(msgs) : j <= i})
Said(msgs) ==
  [k \in 1..Cardinality(Spots(msgs)) |-> msgs[CHOOSE i \in Spots(msgs) : Before(msgs, i) = k]]
SameAfterRestart ==
  ~ active /\ (\A c \in Compacts : At(c, "new")) =>
    Said(context) = Said(OnDisk) \/ (saved # "yes" /\ OnlyShells(context))

\* Retry and overflow recovery reset one another's counters, and still a provider that only
\* fails is asked at most 2 * MaxRetries + 2 times for one message.
RecoveryBounded == fails <= 2 * MaxRetries + 2

\* Every call comes to its end, abort() and compact() too, which wait for the run to settle.
EveryCallReturns ==
  \A t \in Prompts \union Aborts \union Compacts : pc[t] # "new" ~> pc[t] = "done"
=============================================================================
