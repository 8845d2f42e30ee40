------------------------- MODULE AgentSessionProofs -------------------------
(***************************************************************************)
(* For any number of prompts, queued messages, aborts and compactions: one *)
(* run at a time, and while the agent works the session shows that run as  *)
(* running, if the host waits for the response to a prompt before it sends *)
(* the next one.                                                           *)
(***************************************************************************)
EXTENDS AgentSession, FiniteSetTheorems, TLAPS

GoingSteps == {"tracking", "agent", "post", "sleep", "recover", "compact", "continue", "settling",
               "finalizing"}
Going(p) == pc[p] \in GoingSteps
Readying(p) == pc[p] \in Preparing

\* At most one prompt is being prepared or run,
OnePrompt == \A p, q \in Prompts :
  (Readying(p) \/ Going(p)) /\ (Readying(q) \/ Going(q)) => p = q

\* its run is the one the snapshot shows,
ShownRun == \A p \in Prompts :
  Going(p) => active /\ snap = [run |-> p, status |-> "running"]

\* and the agent works for nobody else.
WorkerRuns == worker # Nobody => worker \in Prompts /\ pc[worker] = "agent"

RunInv ==
  /\ pc \in [Tasks -> Steps]
  /\ OnePrompt
  /\ ShownRun
  /\ WorkerRuns

-----------------------------------------------------------------------------
LEMMA WorkerIsTheOne ==
  ASSUME RunInv, NEW p \in Prompts, Readying(p) \/ Going(p), pc[p] # "agent"
  PROVE  worker = Nobody
<1> SUFFICES ASSUME worker # Nobody PROVE FALSE
  OBVIOUS
<1>1. worker \in Prompts /\ pc[worker] = "agent"
  BY DEF RunInv, WorkerRuns
<1>2. Going(worker)
  BY <1>1 DEF Going, GoingSteps
<1>3. worker = p
  BY <1>1, <1>2 DEF RunInv, OnePrompt
<1> QED
  BY <1>1, <1>3

\* A step of a call that is not a prompt.
LEMMA OtherTask ==
  ASSUME RunInv, NEW t \in Tasks \ Prompts, NEW s \in Steps, Goto(t, s),
         UNCHANGED <<active, snap, worker>>
  PROVE  RunInv'
<1>1. pc' \in [Tasks -> Steps]
  BY DEF RunInv, Goto
<1>2. \A p \in Prompts : pc'[p] = pc[p]
  BY DEF RunInv, Goto, Tasks, UserMessages
<1>3. OnePrompt'
  BY <1>2 DEF RunInv, OnePrompt, Readying, Going
<1>4. ShownRun'
  BY <1>2 DEF RunInv, ShownRun, Going
<1>5. WorkerRuns'
  BY <1>2 DEF RunInv, WorkerRuns
<1> QED
  BY <1>1, <1>3, <1>4, <1>5 DEF RunInv

\* A step of the run, which goes on.
LEMMA RunGoesOn ==
  ASSUME RunInv, NEW t \in Prompts, NEW s \in GoingSteps, Going(t), Goto(t, s),
         UNCHANGED <<active, snap>>,
         worker' # Nobody => worker' = t /\ s = "agent"
  PROVE  RunInv'
<1> t \in Tasks /\ s \in Steps
  BY DEF Tasks, UserMessages, GoingSteps, Steps
<1>1. pc' \in [Tasks -> Steps]
  BY DEF RunInv, Goto
<1>2. \A p \in Prompts : p # t => pc'[p] = pc[p]
  BY DEF RunInv, Goto, Tasks, UserMessages
<1>3. pc'[t] = s
  BY DEF RunInv, Goto
<1>4. OnePrompt'
  BY <1>2, <1>3 DEF RunInv, OnePrompt, Readying, Going
<1>5. ShownRun'
  BY <1>2, <1>3 DEF RunInv, ShownRun, Going
<1>6. WorkerRuns'
  BY <1>3 DEF WorkerRuns
<1> QED
  BY <1>1, <1>4, <1>5, <1>6 DEF RunInv

\* A step of the preparation, or its end.
LEMMA PreparationGoesOn ==
  ASSUME RunInv, NEW t \in Prompts, NEW s \in Preparing \union {"done"}, Readying(t), Goto(t, s),
         UNCHANGED <<active, snap, worker>>
  PROVE  RunInv'
<1> t \in Tasks /\ s \in Steps
  BY DEF Tasks, UserMessages, Preparing, Steps
<1>1. pc' \in [Tasks -> Steps]
  BY DEF RunInv, Goto
<1>2. \A p \in Prompts : p # t => pc'[p] = pc[p]
  BY DEF RunInv, Goto, Tasks, UserMessages
<1>3. pc'[t] = s
  BY DEF RunInv, Goto
<1>4. ~ Going(t)'
  BY <1>3 DEF Going, GoingSteps, Preparing
<1>5. OnePrompt'
  BY <1>2, <1>4 DEF RunInv, OnePrompt, Readying, Going
<1>6. ShownRun'
  BY <1>2, <1>4 DEF RunInv, ShownRun, Going
<1>7. worker = Nobody
  BY WorkerIsTheOne DEF Readying, Preparing
<1>8. WorkerRuns'
  BY <1>7 DEF WorkerRuns
<1> QED
  BY <1>1, <1>5, <1>6, <1>8 DEF RunInv

-----------------------------------------------------------------------------
\* Prompts are tasks, and no other call is one.
LEMMA CallsAreTasks ==
  /\ Prompts \subseteq Tasks
  /\ Steers \union Shells \union Aborts \union Cancels \union Compacts \subseteq Tasks \ Prompts
  BY AgentAssumption DEF Tasks, UserMessages

LEMMA PrepareKeeps ==
  ASSUME RunInv, NEW p \in Prompts, Prepare(p)
  PROVE  RunInv'
<1>1. CASE PreCheck(p)
  <2>1. PICK s \in Preparing : Goto(p, s)
    BY <1>1 DEF PreCheck, CheckCompaction, Preparing
  <2> QED
    BY <1>1, <2>1, PreparationGoesOn DEF PreCheck, At, Readying, Preparing, agentVars
<1>2. CASE RefusePrompt(p)
  BY <1>2, PreparationGoesOn DEF RefusePrompt, Readying, Preparing, agentVars, runVars
<1>3. CASE BeginRun(p)
  <2>1. Readying(p)
    BY <1>3 DEF BeginRun, At, Readying, Preparing
  <2>2. worker = Nobody /\ worker' = Nobody
    BY <1>3, <2>1, WorkerIsTheOne DEF BeginRun, At, agentVars
  <2>3. pc' \in [Tasks -> Steps]
    BY <1>3, CallsAreTasks DEF RunInv, BeginRun, Goto, Steps
  <2>4. \A q \in Prompts : q # p => pc'[q] = pc[q]
    BY <1>3, CallsAreTasks DEF RunInv, BeginRun, Goto
  <2>5. OnePrompt'
    BY <2>1, <2>4 DEF RunInv, OnePrompt, Readying, Going
  <2>6. \A q \in Prompts : q # p => ~ Going(q)'
    BY <2>1, <2>4 DEF RunInv, OnePrompt, Going
  <2>7. ShownRun'
    BY <1>3, <2>6 DEF ShownRun, BeginRun
  <2>8. WorkerRuns'
    BY <2>2 DEF WorkerRuns
  <2> QED
    BY <2>3, <2>5, <2>7, <2>8 DEF RunInv
<1>4. CASE StartAgent(p)
  <2>1. Going(p) /\ UNCHANGED <<active, snap>>
    BY <1>4 DEF StartAgent, At, Going, GoingSteps, runVars
  <2>2. CASE worker # Nobody
    BY <1>4, <2>1, <2>2, WorkerIsTheOne DEF StartAgent, At
  <2>3. CASE worker = Nobody
    BY <1>4, <2>1, <2>3, RunGoesOn DEF StartAgent, GoingSteps
  <2> QED
    BY <2>2, <2>3
<1> QED
  BY <1>1, <1>2, <1>3, <1>4 DEF Prepare

\* The agent's own steps, of the run it works for.
LEMMA WorkKeeps ==
  ASSUME RunInv, NEW p \in Prompts, Work(p)
  PROVE  RunInv'
<1>1. CASE \E kind \in Replies : Reply(p, kind)
  <2>1. UNCHANGED <<pc, worker, active, snap>>
    BY <1>1 DEF Reply, runVars
  <2> QED
    BY <2>1 DEF RunInv, OnePrompt, ShownRun, WorkerRuns, Readying, Going
<1>2. CASE Poll(p)
  <2>1. UNCHANGED <<pc, worker, active, snap>>
    BY <1>2 DEF Poll, runVars
  <2> QED
    BY <2>1 DEF RunInv, OnePrompt, ShownRun, WorkerRuns, Readying, Going
<1>3. CASE AgentEnd(p)
  <2>1. Going(p)
    BY <1>3, AgentAssumption DEF AgentEnd, RunInv, WorkerRuns, Going, GoingSteps
  <2> QED
    BY <1>3, <2>1, RunGoesOn DEF AgentEnd, GoingSteps, runVars
<1> QED
  BY <1>1, <1>2, <1>3 DEF Work

\* A step of the run after the agent's loop that leaves the agent alone.
LEMMA AfterLoop ==
  ASSUME RunInv, NEW t \in Prompts, NEW s \in GoingSteps, Going(t), pc[t] # "agent", Goto(t, s),
         UNCHANGED <<active, snap, worker>>
  PROVE  RunInv'
BY WorkerIsTheOne, RunGoesOn

LEMMA PostKeeps ==
  ASSUME RunInv, NEW p \in Prompts, Post(p)
  PROVE  RunInv'
<1>1. CASE PostRetry(p)
  BY <1>1, AfterLoop DEF PostRetry, At, Going, GoingSteps, agentVars, runVars
<1>2. CASE PostOther(p)
  <2>1. PICK s \in GoingSteps : Goto(p, s)
    BY <1>2 DEF PostOther, CheckCompaction, IfQueued, GoingSteps
  <2> QED
    BY <1>2, <2>1, AfterLoop DEF PostOther, At, Going, GoingSteps, agentVars
<1>3. CASE SleepEnds(p)
  BY <1>3, AfterLoop DEF SleepEnds, At, Going, GoingSteps, agentVars, runVars
<1>4. CASE SleepCut(p)
  <2>1. PICK s \in GoingSteps : Goto(p, s)
    BY <1>4 DEF SleepCut, CheckCompaction, IfQueued, GoingSteps
  <2> QED
    BY <1>4, <2>1, AfterLoop DEF SleepCut, At, Going, GoingSteps, agentVars
<1>5. CASE CompactionEnds(p) \/ CompactionFails(p)
  <2>1. UNCHANGED <<active, snap, worker>>
    BY <1>5 DEF CompactionEnds, CompactionFails, agentVars, runVars
  <2>2. CASE pc[p] \in {"recover", "compact"}
    <3>1. PICK s \in GoingSteps : Goto(p, s)
      BY <1>5, <2>2 DEF CompactionEnds, CompactionFails, IfQueued, GoingSteps
    <3> QED
      BY <2>1, <2>2, <3>1, AfterLoop DEF Going, GoingSteps
  <2>3. CASE pc[p] \in {"precompact", "prerecover"}
    <3>1. Goto(p, "hooks")
      BY <1>5, <2>3 DEF CompactionEnds, CompactionFails
    <3> QED
      BY <2>1, <2>3, <3>1, PreparationGoesOn DEF Readying, Preparing
  <2> QED
    BY <1>5, <2>2, <2>3 DEF CompactionEnds, CompactionFails
<1>6. CASE Settle(p)
  <2>1. Going(p) /\ pc[p] # "agent"
    BY <1>6 DEF Settle, At, Going, GoingSteps
  <2>2. worker = Nobody /\ worker' = Nobody
    BY <1>6, <2>1, WorkerIsTheOne DEF Settle, agentVars
  <2>3. pc' \in [Tasks -> Steps]
    BY <1>6, CallsAreTasks DEF RunInv, Settle, Goto, Steps
  <2>4. /\ \A q \in Prompts : q # p => pc'[q] = pc[q]
        /\ pc'[p] = "settled"
    BY <1>6, CallsAreTasks DEF RunInv, Settle, Goto
  <2>5. \A q \in Prompts : ~ Going(q)' /\ ~ Readying(q)'
    BY <2>1, <2>4 DEF RunInv, OnePrompt, Readying, Going, GoingSteps, Preparing
  <2> QED
    BY <2>2, <2>3, <2>5 DEF RunInv, OnePrompt, ShownRun, WorkerRuns
<1>7. CASE EndRun(p)
  <2>1. pc' \in [Tasks -> Steps]
    BY <1>7 DEF RunInv, EndRun, AfterWait, Steps
  <2>2. \A q \in Prompts : \/ pc'[q] = pc[q]
                            \/ /\ pc[q] \notin GoingSteps \union Preparing
                               /\ pc'[q] \notin GoingSteps \union Preparing
    BY <1>7, CallsAreTasks DEF RunInv, EndRun, At, AfterWait, GoingSteps, Preparing
  <2>3. UNCHANGED <<active, snap, worker>>
    BY <1>7 DEF EndRun, agentVars, runVars
  <2>4. OnePrompt'
    BY <2>2 DEF RunInv, OnePrompt, Readying, Going
  <2>5. ShownRun'
    BY <2>2, <2>3 DEF RunInv, ShownRun, Going
  <2>6. WorkerRuns'
    BY <2>2, <2>3 DEF RunInv, WorkerRuns, GoingSteps
  <2> QED
    BY <2>1, <2>4, <2>5, <2>6 DEF RunInv
<1> QED
  BY <1>1, <1>2, <1>3, <1>4, <1>5, <1>6, <1>7 DEF Post

LEMMA UrgentKeeps ==
  ASSUME RunInv, NEW p \in Prompts, Urgent(p)
  PROVE  RunInv'
<1>1. CASE Continue(p)
  <2>1. Going(p) /\ pc[p] # "agent" /\ UNCHANGED <<active, snap>>
    BY <1>1 DEF Continue, At, Going, GoingSteps, runVars
  <2>2. CASE Refuses
    BY <1>1, <2>1, <2>2, AfterLoop DEF Continue, agentVars, GoingSteps
  <2>3. CASE ~ Refuses
    BY <1>1, <2>1, <2>3, RunGoesOn DEF Continue, GoingSteps
  <2> QED
    BY <2>2, <2>3
<1>2. CASE Flush(p)
  BY <1>2, AfterLoop DEF Flush, At, Going, GoingSteps, agentVars, runVars
<1> QED
  BY <1>1, <1>2 DEF Urgent

\* A prompt that is sent while nothing runs finds no other one prepared.
LEMMA CallsKeep ==
  ASSUME RunInv, "overlap" \notin Env, Calls
  PROVE  RunInv'
<1>1. CASE \E p \in Prompts : PromptWhileActive(p)
  <2>1. PICK p \in Prompts : PromptWhileActive(p)
    BY <1>1
  <2>2. pc[p] = "new" /\ Goto(p, "done") /\ UNCHANGED <<active, snap, worker>>
    BY <2>1 DEF PromptWhileActive, Sends, At, agentVars, runVars
  <2>3. pc' \in [Tasks -> Steps]
    BY <2>2, CallsAreTasks DEF RunInv, Goto, Steps
  <2>4. \A q \in Prompts : \/ pc'[q] = pc[q]
                            \/ /\ pc[q] \notin GoingSteps \union Preparing
                               /\ pc'[q] \notin GoingSteps \union Preparing
    BY <2>2, CallsAreTasks DEF RunInv, Goto, GoingSteps, Preparing
  <2>5. OnePrompt'
    BY <2>4 DEF RunInv, OnePrompt, Readying, Going
  <2>6. ShownRun'
    BY <2>2, <2>4 DEF RunInv, ShownRun, Going
  <2>7. WorkerRuns'
    BY <2>2, <2>4 DEF RunInv, WorkerRuns, GoingSteps
  <2> QED
    BY <2>3, <2>5, <2>6, <2>7 DEF RunInv
<1>2. CASE \E p \in Prompts : PromptWhileIdle(p)
  <2>1. PICK p \in Prompts : PromptWhileIdle(p)
    BY <1>2
  <2>2. Goto(p, "preflight") /\ UNCHANGED <<active, snap, worker>> /\ ~ active /\ pc[p] = "new"
    BY <2>1 DEF PromptWhileIdle, Sends, At, agentVars, runVars
  <2>3. ~ Busy(Preparing)
    BY <2>1 DEF PromptWhileIdle, Sends
  <2>4. \A q \in Prompts : ~ Going(q) /\ ~ Readying(q)
    BY <2>2, <2>3, CallsAreTasks DEF RunInv, ShownRun, Busy, Readying
  <2>5. pc' \in [Tasks -> Steps]
    BY <2>2, CallsAreTasks DEF RunInv, Goto, Steps
  <2>6. /\ \A q \in Prompts : q # p => pc'[q] = pc[q]
        /\ pc'[p] = "preflight"
    BY <2>2, CallsAreTasks DEF RunInv, Goto
  <2>7. /\ \A q \in Prompts : pc'[q] \notin GoingSteps
        /\ \A q \in Prompts : pc'[q] \in Preparing => q = p
    BY <2>4, <2>6 DEF Going, Readying, GoingSteps
  <2>8. WorkerRuns'
    <3>1. worker = Nobody
      BY <2>4 DEF RunInv, WorkerRuns, Going, GoingSteps
    <3> QED
      BY <2>2, <3>1 DEF WorkerRuns
  <2>9. OnePrompt'
    BY <2>7 DEF OnePrompt, Readying, Going
  <2>10. ShownRun'
    BY <2>7 DEF ShownRun, Readying, Going
  <2> QED
    BY <2>5, <2>8, <2>9, <2>10 DEF RunInv
<1>3. CASE \E m \in Steers : Steer(m)
  BY <1>3, CallsAreTasks, OtherTask DEF Steer, Steps, agentVars, runVars
<1>4. CASE \E b \in Shells : RecordBash(b)
  BY <1>4, CallsAreTasks, OtherTask DEF RecordBash, Steps, agentVars, runVars
<1>5. CASE \E a \in Aborts : Abort(a)
  BY <1>5, CallsAreTasks, OtherTask DEF Abort, AbortRun, AfterWait, Steps
<1>6. CASE \E c \in Compacts : Compact(c)
  BY <1>6, CallsAreTasks, OtherTask DEF Compact, AbortRun, AfterWait, Steps
<1>7. CASE \E k \in Cancels : AbortRetry(k)
  BY <1>7, CallsAreTasks, OtherTask DEF AbortRetry, Steps, agentVars, runVars
<1> QED
  BY <1>1, <1>2, <1>3, <1>4, <1>5, <1>6, <1>7 DEF Calls

LEMMA RunInvInductive ==
  ASSUME "overlap" \notin Env
  PROVE  RunInv /\ [Next]_vars => RunInv'
<1> SUFFICES ASSUME RunInv, [Next]_vars PROVE RunInv'
  OBVIOUS
<1>1. CASE \E p \in Prompts : Urgent(p)
  BY <1>1, UrgentKeeps
<1>2. CASE Calls
  BY <1>2, CallsKeep
<1>3. CASE \E p \in Prompts : Prepare(p) \/ Work(p) \/ Post(p)
  BY <1>3, PrepareKeeps, WorkKeeps, PostKeeps
<1>4. CASE \E c \in Compacts : EndCompact(c)
  BY <1>4, CallsAreTasks, OtherTask DEF EndCompact, Steps, agentVars, runVars
<1>5. CASE Title \/ UNCHANGED vars
  BY <1>5 DEF Title, vars, agentVars, runVars, RunInv, OnePrompt, ShownRun, WorkerRuns, Readying, Going
<1> QED
  BY <1>1, <1>2, <1>3, <1>4, <1>5 DEF Next

LEMMA RunInvInit == Init => RunInv
<1> SUFFICES ASSUME Init PROVE RunInv
  OBVIOUS
<1>1. pc \in [Tasks -> Steps]
  BY DEF Init, Steps
<1>2. \A p \in Prompts : ~ Going(p) /\ ~ Readying(p)
  BY CallsAreTasks DEF Init, Going, Readying, GoingSteps, Preparing
<1> QED
  BY <1>1, <1>2 DEF Init, RunInv, OnePrompt, ShownRun, WorkerRuns

\* A host that waits for the response to a prompt before it sends the next one never finds
\* the session idle, or another run in its snapshot, while the agent works (BusyMeansRunning).
THEOREM AgentIsShown ==
  ASSUME "overlap" \notin Env
  PROVE  Spec => []BusyMeansRunning
<1>1. RunInv => BusyMeansRunning
  BY DEF RunInv, WorkerRuns, ShownRun, BusyMeansRunning, Going, GoingSteps
<1> QED
  BY <1>1, RunInvInit, RunInvInductive, PTL DEF Spec

\* Under the same assumption no two prompts are ever prepared or run at the same time.
THEOREM OneRunAtATime ==
  ASSUME "overlap" \notin Env
  PROVE  Spec => []OnePrompt
<1>1. RunInv => OnePrompt
  BY DEF RunInv
<1> QED
  BY <1>1, RunInvInit, RunInvInductive, PTL DEF Spec

-----------------------------------------------------------------------------
(* The entries of the session. *)

Ended == {"settled", "done"}

\* An entry belongs to a run that has settled, and no run settles twice.
EntryInv ==
  /\ entries \in Seq([run : Prompts, status : Outcomes])
  /\ \A i \in 1..Len(entries) : pc[entries[i].run] \in Ended
  /\ \A i, j \in 1..Len(entries) : entries[i].run = entries[j].run => i = j
  /\ snap.status \in Outcomes => entries # <<>> /\ entries[Len(entries)] = snap
  /\ \A p \in Prompts : pc[p] = "settled" => \E i \in 1..Len(entries) : entries[i].run = p

LEMMA EntryRuns ==
  ASSUME EntryInv PROVE \A i \in 1..Len(entries) : entries[i].run \in Prompts
<1> DEFINE R == [run : Prompts, status : Outcomes]
<1>1. \A e \in R : e.run \in Prompts
  OBVIOUS
<1>2. entries \in Seq(R)
  BY DEF EntryInv
<1> HIDE DEF R
<1>3. \A i \in 1..Len(entries) : entries[i] \in R
  BY <1>2
<1> QED
  BY <1>1, <1>3

\* A step that settles no run and takes back none that has settled.
LEMMA EntriesStay ==
  ASSUME EntryInv, UNCHANGED <<entries, snap>>,
         \A p \in Prompts : /\ pc[p] \in Ended => pc'[p] \in Ended
                            /\ pc'[p] = "settled" => pc[p] = "settled"
  PROVE  EntryInv'
<1>1. \A i \in 1..Len(entries) : entries[i].run \in Prompts
  BY EntryRuns
<1>2. \A i \in 1..Len(entries) : pc'[entries[i].run] \in Ended
  BY <1>1 DEF EntryInv
<1>3. \A p \in Prompts : pc'[p] = "settled" => \E i \in 1..Len(entries) : entries[i].run = p
  BY DEF EntryInv
<1> QED
  BY <1>2, <1>3 DEF EntryInv

LEMMA StepKeepsEntries ==
  ASSUME RunInv, EntryInv, NEW t \in Tasks, NEW s, s # "settled", Goto(t, s),
         t \in Prompts => pc[t] \notin Ended,
         UNCHANGED <<entries, snap>>
  PROVE  EntryInv'
<1>1. \A p \in Prompts : /\ pc[p] \in Ended => pc'[p] \in Ended
                         /\ pc'[p] = "settled" => pc[p] = "settled"
  BY CallsAreTasks DEF RunInv, Goto
<1> QED
  BY <1>1, EntriesStay

LEMMA BeginRunKeepsEntries ==
  ASSUME RunInv, EntryInv, NEW p \in Prompts, BeginRun(p)
  PROVE  EntryInv'
<1>1. \A q \in Prompts : /\ pc[q] \in Ended => pc'[q] \in Ended
                         /\ pc'[q] = "settled" => pc[q] = "settled"
  BY CallsAreTasks DEF RunInv, BeginRun, At, Goto, Ended
<1>2. UNCHANGED entries /\ snap'.status \notin Outcomes
  BY DEF BeginRun, Outcomes
<1>3. \A i \in 1..Len(entries) : entries[i].run \in Prompts
  BY EntryRuns
<1>4. \A i \in 1..Len(entries) : pc'[entries[i].run] \in Ended
  BY <1>1, <1>3 DEF EntryInv
<1>5. \A q \in Prompts : pc'[q] = "settled" => \E i \in 1..Len(entries) : entries[i].run = q
  BY <1>1 DEF EntryInv
<1> QED
  BY <1>2, <1>4, <1>5 DEF EntryInv

LEMMA SettleKeepsEntries ==
  ASSUME RunInv, EntryInv, NEW p \in Prompts, Settle(p)
  PROVE  EntryInv'
<1>1. snap = [run |-> p, status |-> "running"]
  BY DEF Settle, At, RunInv, ShownRun, Going, GoingSteps
<1> DEFINE entry == [run |-> p, status |-> Outcome]
<1>2. Outcome \in Outcomes
  BY DEF Outcome, Outcomes
<1>3. snap' = entry /\ entries' = Append(entries, entry)
  BY <1>1 DEF Settle
<1>4. entry \in [run : Prompts, status : Outcomes] /\ entry.run = p
  BY <1>2
<1> HIDE DEF entry
<1>5. /\ entries \in Seq([run : Prompts, status : Outcomes])
      /\ entries' \in Seq([run : Prompts, status : Outcomes])
      /\ Len(entries') = Len(entries) + 1
      /\ \A i \in 1..Len(entries) : entries'[i] = entries[i]
      /\ entries'[Len(entries) + 1] = entry
      /\ Len(entries) \in Nat
  BY <1>3, <1>4 DEF EntryInv
<1>6. /\ \A q \in Prompts : pc[q] \in Ended => pc'[q] \in Ended
      /\ \A q \in Prompts : q # p /\ pc'[q] = "settled" => pc[q] = "settled"
      /\ pc[p] \notin Ended /\ pc'[p] \in Ended
  BY CallsAreTasks DEF RunInv, Settle, At, Goto, Ended
<1>7. \A i \in 1..Len(entries) : entries[i].run \in Prompts /\ entries[i].run # p
  BY <1>6, EntryRuns DEF EntryInv
<1>8. \A i \in 1..Len(entries') : pc'[entries'[i].run] \in Ended
  <2> SUFFICES ASSUME NEW i \in 1..Len(entries') PROVE pc'[entries'[i].run] \in Ended
    OBVIOUS
  <2>1. CASE i \in 1..Len(entries)
    BY <1>5, <1>6, <1>7, <2>1 DEF EntryInv
  <2>2. CASE i = Len(entries) + 1
    BY <1>4, <1>5, <1>6, <2>2
  <2> QED
    BY <1>5, <2>1, <2>2
<1>9. \A i, j \in 1..Len(entries') : entries'[i].run = entries'[j].run => i = j
  <2> SUFFICES ASSUME NEW i \in 1..Len(entries'), NEW j \in 1..Len(entries'),
                      entries'[i].run = entries'[j].run
               PROVE  i = j
    OBVIOUS
  <2>1. CASE i \in 1..Len(entries) /\ j \in 1..Len(entries)
    BY <1>5, <2>1 DEF EntryInv
  <2>2. CASE i = Len(entries) + 1
    BY <1>4, <1>5, <1>7, <2>2
  <2>3. CASE j = Len(entries) + 1
    BY <1>4, <1>5, <1>7, <2>3
  <2> QED
    BY <1>5, <2>1, <2>2, <2>3
<1>10. \A q \in Prompts : pc'[q] = "settled" => \E i \in 1..Len(entries') : entries'[i].run = q
  <2> SUFFICES ASSUME NEW q \in Prompts, pc'[q] = "settled"
               PROVE  \E i \in 1..Len(entries') : entries'[i].run = q
    OBVIOUS
  <2>1. CASE q = p
    BY <1>4, <1>5, <2>1
  <2>2. CASE q # p
    <3>1. PICK i \in 1..Len(entries) : entries[i].run = q
      BY <1>6, <2>2 DEF EntryInv
    <3> QED
      BY <1>5, <3>1
  <2> QED
    BY <2>1, <2>2
<1>11. entries' # <<>> /\ entries'[Len(entries')] = snap'
  BY <1>3, <1>5
<1> QED
  BY <1>5, <1>8, <1>9, <1>10, <1>11 DEF EntryInv

LEMMA EndRunKeepsEntries ==
  ASSUME RunInv, EntryInv, NEW p \in Prompts, EndRun(p)
  PROVE  EntryInv'
<1>1. \A q \in Prompts : /\ pc[q] \in Ended => pc'[q] \in Ended
                         /\ pc'[q] = "settled" => pc[q] = "settled"
  BY CallsAreTasks DEF RunInv, EndRun, At, AfterWait, Ended
<1> QED
  BY <1>1, EntriesStay DEF EndRun, runVars

LEMMA RunKeepsEntries ==
  ASSUME RunInv, EntryInv, NEW p \in Prompts, Urgent(p) \/ Prepare(p) \/ Work(p) \/ Post(p)
  PROVE  EntryInv'
<1> USE CallsAreTasks, StepKeepsEntries
<1> p \in Tasks
  OBVIOUS
<1>1. CASE PreCheck(p)
  BY <1>1 DEF PreCheck, CheckCompaction, At, Ended
<1>2. CASE RefusePrompt(p)
  BY <1>2 DEF RefusePrompt, Ended, runVars
<1>3. CASE BeginRun(p)
  BY <1>3, BeginRunKeepsEntries
<1>4. CASE StartAgent(p)
  BY <1>4 DEF StartAgent, At, Ended, runVars
<1>5. CASE (\E kind \in Replies : Reply(p, kind)) \/ Poll(p)
  BY <1>5, EntriesStay DEF Reply, Poll, runVars
<1>6. CASE AgentEnd(p)
  <2>1. pc[p] = "agent"
    BY <1>6, AgentAssumption DEF AgentEnd, RunInv, WorkerRuns
  <2> QED
    BY <1>6, <2>1 DEF AgentEnd, Ended, runVars
<1>7. CASE PostRetry(p) \/ SleepEnds(p) \/ Flush(p)
  BY <1>7 DEF PostRetry, SleepEnds, Flush, At, Ended, runVars
<1>8. CASE PostOther(p) \/ SleepCut(p)
  <2>1. PICK s \in GoingSteps : Goto(p, s)
    BY <1>8 DEF PostOther, SleepCut, CheckCompaction, IfQueued, GoingSteps
  <2> QED
    BY <1>8, <2>1 DEF PostOther, SleepCut, At, Ended, GoingSteps
<1>9. CASE CompactionEnds(p) \/ CompactionFails(p)
  <2>1. PICK s \in GoingSteps \union Preparing : Goto(p, s)
    BY <1>9 DEF CompactionEnds, CompactionFails, IfQueued, GoingSteps, Preparing
  <2> QED
    BY <1>9, <2>1 DEF CompactionEnds, CompactionFails, Ended, GoingSteps, Preparing, runVars
<1>10. CASE Continue(p)
  BY <1>10 DEF Continue, At, Ended, runVars
<1>11. CASE Settle(p)
  BY <1>11, SettleKeepsEntries
<1>12. CASE EndRun(p)
  BY <1>12, EndRunKeepsEntries
<1> QED
  BY <1>1, <1>2, <1>3, <1>4, <1>5, <1>6, <1>7, <1>8, <1>9, <1>10, <1>11, <1>12
  DEF Urgent, Prepare, Work, Post

LEMMA CallsKeepEntries ==
  ASSUME RunInv, EntryInv, Calls \/ \E c \in Compacts : EndCompact(c)
  PROVE  EntryInv'
<1> USE CallsAreTasks, StepKeepsEntries
<1>1. CASE \E p \in Prompts : PromptWhileActive(p)
  BY <1>1 DEF PromptWhileActive, Sends, At, Ended, runVars
<1>2. CASE \E p \in Prompts : PromptWhileIdle(p)
  BY <1>2 DEF PromptWhileIdle, Sends, At, Ended, runVars
<1>3. CASE \E m \in Steers : Steer(m)
  BY <1>3 DEF Steer, runVars
<1>4. CASE \E b \in Shells : RecordBash(b)
  BY <1>4 DEF RecordBash, runVars
<1>5. CASE \E a \in Aborts : Abort(a)
  BY <1>5 DEF Abort, AbortRun, AfterWait
<1>6. CASE \E c \in Compacts : Compact(c)
  BY <1>6 DEF Compact, AbortRun, AfterWait
<1>7. CASE \E k \in Cancels : AbortRetry(k)
  BY <1>7 DEF AbortRetry, runVars
<1>8. CASE \E c \in Compacts : EndCompact(c)
  BY <1>8 DEF EndCompact, runVars
<1> QED
  BY <1>1, <1>2, <1>3, <1>4, <1>5, <1>6, <1>7, <1>8 DEF Calls

LEMMA EntryInvInit == Init => EntryInv
BY CallsAreTasks DEF Init, EntryInv, Outcomes

LEMMA EntryInvInductive == RunInv /\ EntryInv /\ [Next]_vars => EntryInv'
<1> SUFFICES ASSUME RunInv, EntryInv, [Next]_vars PROVE EntryInv'
  OBVIOUS
<1>1. CASE Title
  BY <1>1, EntriesStay DEF Title, runVars
<1>2. CASE Next
  BY <1>1, <1>2, RunKeepsEntries, CallsKeepEntries DEF Next
<1>3. CASE UNCHANGED vars
  BY <1>3, EntriesStay DEF vars, runVars
<1> QED
  BY <1>2, <1>3

\* Whatever retries, compactions, continuations, aborts and failed starts a run goes through,
\* it leaves exactly one entry in the session, and the snapshot of a settled session
\* agrees with the last entry (OneEntryPerRun); for a host that waits for its responses.
THEOREM RunsLeaveOneEntry ==
  ASSUME "overlap" \notin Env
  PROVE  Spec => []OneEntryPerRun
<1>1. EntryInv => OneEntryPerRun
  BY DEF EntryInv, OneEntryPerRun, At
<1>2. RunInv /\ EntryInv /\ [Next]_vars => (RunInv /\ EntryInv)'
  BY RunInvInductive, EntryInvInductive
<1> QED
  BY <1>1, <1>2, RunInvInit, EntryInvInit, PTL DEF Spec

-----------------------------------------------------------------------------
(* The types. *)

LEMMA KindsOfMessages ==
  /\ UserMessages \subseteq Messages /\ Shells \subseteq Messages /\ Replies \subseteq Messages
  /\ Prompts \subseteq UserMessages /\ "summary" \in Messages
  /\ {"error", "stop", "tool"} \subseteq Replies
  BY DEF Messages, UserMessages, Replies, Errors, Answers

LEMMA FrontTyped ==
  ASSUME NEW msgs \in Seq(Messages), msgs # <<>>
  PROVE  Front(msgs) \in Seq(Messages)
<1>1. Len(msgs) - 1 \in Nat /\ Len(msgs) - 1 <= Len(msgs)
  OBVIOUS
<1> QED
  BY <1>1 DEF Front

LEMMA StripTyped ==
  ASSUME NEW msgs \in Seq(Messages)
  PROVE  Strip(msgs) \in Seq(Messages)
BY FrontTyped DEF Strip, EndsInReply

LEMMA AppendTyped ==
  ASSUME NEW msgs \in Seq(Messages), NEW m \in Messages
  PROVE  Append(msgs, m) \in Seq(Messages)
OBVIOUS

\* A compaction leaves a summary and what it keeps.
LEMMA CompactedTyped ==
  ASSUME NEW msgs \in Seq(Messages), NEW cut \in Cuts(msgs)
  PROVE  Compacted(msgs, cut) \in Seq(Messages) /\ Compacted(msgs, cut) # <<>>
<1> DEFINE kept == [i \in 1..(Len(msgs) - cut + 1) |-> Aged(msgs[cut + i - 1])]
<1>1. Len(msgs) \in Nat /\ cut \in 2..Len(msgs)
  BY DEF Cuts
<1>2. Len(msgs) - cut + 1 \in Nat
  BY <1>1
<1>3. \A m \in Messages : Aged(m) \in Messages
  BY KindsOfMessages DEF Aged
<1>4. \A i \in 1..(Len(msgs) - cut + 1) : msgs[cut + i - 1] \in Messages
  BY <1>1
<1>5. \A i \in 1..(Len(msgs) - cut + 1) : Aged(msgs[cut + i - 1]) \in Messages
  BY <1>3, <1>4
<1>6. kept \in Seq(Messages)
  BY <1>2, <1>5
<1> HIDE DEF kept
<1>7. <<"summary">> \in Seq(Messages) /\ <<"summary">> # <<>>
  BY KindsOfMessages
<1>8. <<"summary">> \o kept \in Seq(Messages) /\ <<"summary">> \o kept # <<>>
  BY <1>6, <1>7
<1> QED
  BY <1>8 DEF Compacted, kept

\* TypeOK, and a snapshot that shows a run names its prompt.
TypedInv ==
  /\ TypeOK
  /\ snap.status = "running" => snap.run \in Prompts

\* The types of what the session's messages are kept in,
TextOK ==
  /\ context \in Seq(Messages) /\ log \in Seq(Messages)
  /\ saved \in {"no", "soon", "yes"}
  /\ pendingBash \in Seq(Shells)
  /\ prePersisted \subseteq Prompts
  /\ queue \subseteq UserMessages

\* of the run and its place in the agent's loop,
RunOK ==
  /\ pc \in [Tasks -> Steps]
  /\ active \in BOOLEAN /\ runAborted \in BOOLEAN /\ forced \in BOOLEAN
  /\ snap \in [run : Prompts \union {Nobody}, status : {"idle", "running"} \union Outcomes]
  /\ snap.status = "running" => snap.run \in Prompts
  /\ entries \in Seq([run : Prompts, status : Outcomes])
  /\ worker \in Prompts \union {Nobody}
  /\ stage \in {"idle", "asking", "polling", "answered", "broken"}
  /\ signal \in BOOLEAN
  /\ connected \in BOOLEAN

\* and of the retries.
RetryOK ==
  /\ last \in Replies \union {"none"}
  /\ attempt \in 0..MaxRetries
  /\ sleeping \in BOOLEAN /\ overflowed \in BOOLEAN
  /\ turns \in 0..MaxTurns
  /\ fails \in Nat

LEMMA TypedParts == TypedInv <=> TextOK /\ RunOK /\ RetryOK
BY DEF TypedInv, TypeOK, TextOK, RunOK, RetryOK

\* What the actions' parts leave in the messages.
LEMMA FlushTyped ==
  ASSUME TextOK, FlushBash, UNCHANGED <<queue, prePersisted>>, saved' \in {saved, "soon"}
  PROVE  TextOK'
<1>1. pendingBash \in Seq(Messages)
  BY KindsOfMessages DEF TextOK
<1>2. context \o pendingBash \in Seq(Messages) /\ log \o pendingBash \in Seq(Messages)
  BY <1>1 DEF TextOK
<1> QED
  BY <1>2 DEF TextOK, FlushBash

LEMMA DeliverTyped ==
  ASSUME TextOK, NEW m \in UserMessages, Deliver(m), queue' \subseteq queue, UNCHANGED pendingBash
  PROVE  TextOK'
<1>1. Append(context, m) \in Seq(Messages) /\ Append(log, m) \in Seq(Messages)
  BY KindsOfMessages, AppendTyped DEF TextOK
<1> QED
  BY <1>1 DEF TextOK, Deliver

LEMMA ShortenedTyped ==
  ASSUME TextOK, context' \in {context, Strip(context)},
         UNCHANGED <<log, saved, pendingBash, prePersisted, queue>>
  PROVE  TextOK'
<1>1. Strip(context) \in Seq(Messages)
  BY StripTyped DEF TextOK
<1> QED
  BY <1>1 DEF TextOK

LEMMA RunKeepsText ==
  ASSUME TextOK, NEW p \in Prompts, Urgent(p) \/ Prepare(p) \/ Work(p) \/ Post(p)
  PROVE  TextOK'
<1>1. CASE PreCheck(p) \/ PostOther(p) \/ SleepCut(p)
  <2>1. context' \in {context, Strip(context)}
    BY <1>1 DEF PreCheck, PostOther, SleepCut, CheckCompaction
  <2> QED
    BY <1>1, <2>1, ShortenedTyped DEF PreCheck, PostOther, SleepCut
<1>2. CASE PostRetry(p)
  BY <1>2, ShortenedTyped DEF PostRetry
<1>3. CASE RefusePrompt(p) \/ AgentEnd(p) \/ SleepEnds(p) \/ CompactionFails(p) \/ Settle(p)
  BY <1>3 DEF RefusePrompt, AgentEnd, SleepEnds, CompactionFails, Settle, textVars, TextOK
<1>4. CASE BeginRun(p)
  <2>1. p \in Messages
    BY KindsOfMessages
  <2>2. Append(log, p) \in Seq(Messages)
    BY <2>1, AppendTyped DEF TextOK
  <2> QED
    BY <1>4, <2>2 DEF BeginRun, TextOK
<1>5. CASE StartAgent(p)
  <2>1. CASE worker # Nobody
    BY <1>5, <2>1 DEF StartAgent, textVars, TextOK
  <2>2. CASE worker = Nobody
    BY <1>5, <2>2, KindsOfMessages, DeliverTyped DEF StartAgent
  <2> QED
    BY <2>1, <2>2
<1>6. CASE \E kind \in Replies : Reply(p, kind)
  <2>1. PICK kind \in Replies : Reply(p, kind)
    BY <1>6
  <2>2. \A m \in Replies : Append(context, m) \in Seq(Messages) /\ Append(log, m) \in Seq(Messages)
    BY KindsOfMessages, AppendTyped DEF TextOK
  <2>3. context' \in Seq(Messages)
    BY <2>1, <2>2, KindsOfMessages DEF Reply
  <2>4. log' \in Seq(Messages)
    BY <2>1, <2>2, KindsOfMessages DEF Reply, TextOK
  <2> QED
    BY <2>1, <2>3, <2>4 DEF Reply, TextOK
<1>7. CASE Poll(p)
  <2>1. CASE \E m \in queue : queue' = queue \ {m} /\ Deliver(m)
    <3>1. PICK m \in queue : queue' = queue \ {m} /\ Deliver(m)
      BY <2>1
    <3>2. m \in UserMessages /\ queue' \subseteq queue
      BY <3>1 DEF TextOK
    <3> QED
      BY <1>7, <3>1, <3>2, DeliverTyped DEF Poll
  <2>2. CASE UNCHANGED <<queue, textVars, overflowed, fails>>
    BY <1>7, <2>2 DEF Poll, textVars, TextOK
  <2> QED
    BY <1>7, <2>1, <2>2 DEF Poll
<1>8. CASE CompactionEnds(p)
  <2>1. PICK cut \in Cuts(log) :
          /\ log' = Compacted(log, cut)
          /\ context' \in {log', Front(log')}
    BY <1>8 DEF CompactionEnds
  <2>2. log' \in Seq(Messages) /\ log' # <<>>
    BY <2>1, CompactedTyped DEF TextOK
  <2>3. context' \in Seq(Messages)
    BY <2>1, <2>2, FrontTyped
  <2> QED
    BY <1>8, <2>2, <2>3 DEF CompactionEnds, TextOK
<1>9. CASE Continue(p)
  <2>1. CASE \E m \in queue : queue' = queue \ {m} /\ Deliver(m)
    <3>1. PICK m \in queue : queue' = queue \ {m} /\ Deliver(m)
      BY <2>1
    <3>2. m \in UserMessages /\ queue' \subseteq queue
      BY <3>1 DEF TextOK
    <3> QED
      BY <1>9, <3>1, <3>2, DeliverTyped DEF Continue
  <2>2. CASE UNCHANGED <<queue, textVars, overflowed, fails>>
    BY <1>9, <2>2 DEF Continue, textVars, TextOK
  <2> QED
    BY <1>9, <2>1, <2>2 DEF Continue
<1>10. CASE Flush(p)
  BY <1>10, FlushTyped DEF Flush
<1>11. CASE EndRun(p)
  BY <1>11 DEF EndRun, TextOK
<1> QED
  BY <1>1, <1>2, <1>3, <1>4, <1>5, <1>6, <1>7, <1>8, <1>9, <1>10, <1>11
  DEF Urgent, Prepare, Work, Post

LEMMA CallsKeepText ==
  ASSUME TextOK, Calls \/ Title \/ \E c \in Compacts : EndCompact(c)
  PROVE  TextOK'
<1>1. CASE \E p \in Prompts : PromptWhileActive(p)
  BY <1>1, KindsOfMessages DEF PromptWhileActive, AskForTitle, TextOK
<1>2. CASE \E p \in Prompts : PromptWhileIdle(p)
  BY <1>2, FlushTyped DEF PromptWhileIdle, AskForTitle
<1>3. CASE \E m \in Steers : Steer(m)
  BY <1>3 DEF Steer, textVars, TextOK, UserMessages
<1>4. CASE \E b \in Shells : RecordBash(b)
  <2>1. PICK b \in Shells : RecordBash(b)
    BY <1>4
  <2>2. Append(context, b) \in Seq(Messages) /\ Append(log, b) \in Seq(Messages)
    BY KindsOfMessages, AppendTyped DEF TextOK
  <2>3. Append(pendingBash, b) \in Seq(Shells)
    BY DEF TextOK
  <2> QED
    BY <2>1, <2>2, <2>3 DEF RecordBash, TextOK
<1>5. CASE \E a \in Aborts : Abort(a)
  BY <1>5 DEF Abort, AbortRun, textVars, TextOK
<1>6. CASE \E c \in Compacts : Compact(c)
  BY <1>6 DEF Compact, AbortRun, textVars, TextOK
<1>7. CASE \E k \in Cancels : AbortRetry(k)
  BY <1>7 DEF AbortRetry, textVars, TextOK
<1>8. CASE \E c \in Compacts : EndCompact(c)
  <2>1. PICK c \in Compacts : EndCompact(c)
    BY <1>8
  <2>2. CASE UNCHANGED <<context, log>>
    BY <2>1, <2>2 DEF EndCompact, TextOK
  <2>3. CASE \E cut \in Cuts(log) : log' = Compacted(log, cut) /\ context' = log'
    <3>1. log' \in Seq(Messages) /\ context' \in Seq(Messages)
      BY <2>3, CompactedTyped DEF TextOK
    <3> QED
      BY <2>1, <3>1 DEF EndCompact, TextOK
  <2> QED
    BY <2>1, <2>2, <2>3 DEF EndCompact
<1>9. CASE Title
  BY <1>9 DEF Title, TextOK
<1> QED
  BY <1>1, <1>2, <1>3, <1>4, <1>5, <1>6, <1>7, <1>8, <1>9 DEF Calls

\* A task goes on, and the run and its snapshot stay as they are.
LEMMA GotoTyped ==
  ASSUME RunOK, NEW t \in Tasks, NEW s \in Steps, Goto(t, s)
  PROVE  pc' \in [Tasks -> Steps]
BY DEF RunOK, Goto

LEMMA RunKeepsRun ==
  ASSUME RunOK, NEW p \in Prompts, Urgent(p) \/ Prepare(p) \/ Work(p) \/ Post(p)
  PROVE  RunOK'
<1> p \in Tasks
  BY CallsAreTasks
<1>1. CASE PreCheck(p) \/ PostOther(p) \/ SleepCut(p)
  <2>1. PICK s \in Steps : Goto(p, s)
    BY <1>1 DEF PreCheck, PostOther, SleepCut, CheckCompaction, IfQueued, Steps
  <2>2. forced' \in BOOLEAN
    BY <1>1 DEF PreCheck, PostOther, SleepCut, CheckCompaction, RunOK
  <2>3. pc' \in [Tasks -> Steps]
    BY <2>1, GotoTyped
  <2> QED
    BY <1>1, <2>2, <2>3 DEF PreCheck, PostOther, SleepCut, agentVars, RunOK
<1>2. CASE PostRetry(p) \/ SleepEnds(p) \/ RefusePrompt(p) \/ Flush(p)
  <2>1. PICK s \in Steps : Goto(p, s)
    BY <1>2 DEF PostRetry, SleepEnds, RefusePrompt, Flush, Steps
  <2>2. pc' \in [Tasks -> Steps]
    BY <2>1, GotoTyped
  <2> QED
    BY <1>2, <2>2 DEF PostRetry, SleepEnds, RefusePrompt, Flush, agentVars, runVars, RunOK
<1>3. CASE CompactionEnds(p) \/ CompactionFails(p)
  <2>1. PICK s \in Steps : Goto(p, s)
    BY <1>3 DEF CompactionEnds, CompactionFails, IfQueued, Steps
  <2>2. pc' \in [Tasks -> Steps]
    BY <2>1, GotoTyped
  <2> QED
    BY <1>3, <2>2 DEF CompactionEnds, CompactionFails, agentVars, runVars, RunOK
<1>4. CASE BeginRun(p)
  <2>1. pc' \in [Tasks -> Steps]
    BY <1>4, GotoTyped DEF BeginRun, Steps
  <2> QED
    BY <1>4, <2>1 DEF BeginRun, agentVars, RunOK
<1>5. CASE StartAgent(p)
  <2>1. pc' \in [Tasks -> Steps]
    BY <1>5, GotoTyped DEF StartAgent, Steps
  <2> QED
    BY <1>5, <2>1 DEF StartAgent, agentVars, runVars, RunOK
<1>6. CASE \E kind \in Replies : Reply(p, kind)
  <2>1. /\ stage' \in {"idle", "asking", "polling", "answered", "broken"}
        /\ UNCHANGED <<pc, worker, signal, runVars, connected>>
    BY <1>6 DEF Reply
  <2> QED
    BY <2>1 DEF runVars, RunOK
<1>7. CASE Poll(p)
  <2>1. stage' = "asking" /\ UNCHANGED <<pc, worker, signal, runVars, connected>>
    BY <1>7 DEF Poll
  <2> QED
    BY <2>1 DEF runVars, RunOK
<1>8. CASE AgentEnd(p)
  <2>1. pc' \in [Tasks -> Steps]
    BY <1>8, GotoTyped DEF AgentEnd, Steps
  <2> QED
    BY <1>8, <2>1 DEF AgentEnd, runVars, RunOK
<1>9. CASE Continue(p)
  <2>1. pc' \in [Tasks -> Steps]
    BY <1>9, GotoTyped DEF Continue, Steps
  <2> QED
    BY <1>9, <2>1 DEF Continue, agentVars, runVars, RunOK
<1>10. CASE Settle(p)
  <2>1. pc' \in [Tasks -> Steps]
    BY <1>10, GotoTyped DEF Settle, Steps
  <2>2. snap.status = "running" =>
          [snap EXCEPT !.status = Outcome] \in [run : Prompts, status : Outcomes]
    BY DEF RunOK, Outcome, Outcomes
  <2>3. CASE snap.status = "running"
    <3>1. snap' \in [run : Prompts, status : Outcomes]
      BY <1>10, <2>2, <2>3 DEF Settle
    <3>2. entries \in Seq([run : Prompts, status : Outcomes]) /\ entries' = Append(entries, snap')
      BY <1>10, <2>3 DEF Settle, RunOK
    <3> DEFINE Entries == [run : Prompts, status : Outcomes]
    <3> HIDE DEF Entries
    <3>4. entries' \in Seq(Entries)
      <4>1. entries \in Seq(Entries) /\ snap' \in Entries
        BY <3>1, <3>2 DEF Entries
      <4> QED
        BY <3>2, <4>1
    <3>3. /\ snap' \in [run : Prompts \union {Nobody}, status : {"idle", "running"} \union Outcomes]
          /\ snap'.status = "running" => snap'.run \in Prompts
      BY <3>1
    <3> QED
      BY <1>10, <2>1, <3>3, <3>4 DEF Settle, agentVars, RunOK, Entries
  <2>4. CASE snap.status # "running"
    BY <1>10, <2>1, <2>4 DEF Settle, agentVars, RunOK
  <2> QED
    BY <2>3, <2>4
<1>11. CASE EndRun(p)
  <2>1. pc' \in [Tasks -> Steps]
    BY <1>11 DEF EndRun, RunOK, AfterWait, Steps
  <2> QED
    BY <1>11, <2>1 DEF EndRun, agentVars, runVars, RunOK
<1> QED
  BY <1>1, <1>2, <1>3, <1>4, <1>5, <1>6, <1>7, <1>8, <1>9, <1>10, <1>11
  DEF Urgent, Prepare, Work, Post

LEMMA CallsKeepRun ==
  ASSUME RunOK, Calls \/ Title \/ \E c \in Compacts : EndCompact(c)
  PROVE  RunOK'
<1> USE CallsAreTasks
<1>1. CASE \E p \in Prompts : PromptWhileActive(p) \/ PromptWhileIdle(p)
  <2>1. PICK p \in Prompts, s \in Steps : Goto(p, s)
    BY <1>1 DEF PromptWhileActive, PromptWhileIdle, Steps
  <2>2. pc' \in [Tasks -> Steps]
    BY <2>1, GotoTyped
  <2> QED
    BY <1>1, <2>2 DEF PromptWhileActive, PromptWhileIdle, agentVars, runVars, RunOK
<1>2. CASE \/ \E m \in Steers : Steer(m)
           \/ \E b \in Shells : RecordBash(b)
           \/ \E k \in Cancels : AbortRetry(k)
  <2>1. PICK t \in Tasks : Goto(t, "done")
    BY <1>2 DEF Steer, RecordBash, AbortRetry
  <2>2. pc' \in [Tasks -> Steps]
    BY <2>1, GotoTyped DEF Steps
  <2> QED
    BY <1>2, <2>2 DEF Steer, RecordBash, AbortRetry, agentVars, runVars, RunOK
<1>3. CASE (\E a \in Aborts : Abort(a)) \/ (\E c \in Compacts : Compact(c))
  <2>1. PICK t \in Tasks, s \in Steps : Goto(t, s)
    BY <1>3 DEF Abort, Compact, AbortRun, AfterWait, Steps
  <2>2. pc' \in [Tasks -> Steps]
    BY <2>1, GotoTyped
  <2> QED
    BY <1>3, <2>2 DEF Abort, Compact, AbortRun, RunOK
<1>4. CASE \E c \in Compacts : EndCompact(c)
  <2>1. PICK t \in Tasks : Goto(t, "done")
    BY <1>4 DEF EndCompact
  <2>2. pc' \in [Tasks -> Steps]
    BY <2>1, GotoTyped DEF Steps
  <2> QED
    BY <1>4, <2>2 DEF EndCompact, agentVars, runVars, RunOK
<1>5. CASE Title
  BY <1>5 DEF Title, agentVars, runVars, RunOK
<1> QED
  BY <1>1, <1>2, <1>3, <1>4, <1>5 DEF Calls

LEMMA NextKeepsRetries ==
  ASSUME RetryOK, Next
  PROVE  RetryOK'
<1> MaxRetries \in Nat /\ MaxTurns \in Nat
  BY AgentAssumption
<1>1. CASE \E p \in Prompts : PreCheck(p) \/ PostRetry(p) \/ PostOther(p) \/ SleepEnds(p) \/ SleepCut(p)
  <2>1. attempt' \in 0..MaxRetries /\ fails' \in Nat /\ UNCHANGED turns
    BY <1>1 DEF PreCheck, PostRetry, PostOther, SleepEnds, SleepCut, RetryOK
  <2>2. sleeping' \in BOOLEAN
    BY <1>1 DEF PreCheck, PostRetry, PostOther, SleepEnds, SleepCut, RetryOK
  <2>3. overflowed' \in BOOLEAN
    BY <1>1 DEF PreCheck, PostRetry, PostOther, SleepEnds, SleepCut, CheckCompaction, RetryOK
  <2>4. last' \in {last, "none"}
    BY <1>1 DEF PreCheck, PostRetry, PostOther, SleepEnds, SleepCut
  <2> QED
    BY <2>1, <2>2, <2>3, <2>4 DEF RetryOK
<1>2. CASE \E p \in Prompts : StartAgent(p) \/ Poll(p) \/ Continue(p)
  <2>1. /\ UNCHANGED <<attempt, sleeping, last, turns>>
        /\ \/ UNCHANGED <<overflowed, fails>>
           \/ \E m \in UserMessages : Deliver(m)
           \/ \E m \in queue : Deliver(m)
    BY <1>2 DEF StartAgent, Poll, Continue, UserMessages
  <2>2. overflowed' \in BOOLEAN
    BY <2>1 DEF Deliver, RetryOK
  <2>3. fails' \in Nat
    BY <2>1 DEF Deliver, RetryOK
  <2> QED
    BY <2>1, <2>2, <2>3 DEF RetryOK
<1>3. CASE \E p \in Prompts, kind \in Replies : Reply(p, kind)
  <2>1. PICK p \in Prompts, kind \in Replies : Reply(p, kind)
    BY <1>3
  <2>2. turns' \in 0..MaxTurns /\ fails' \in Nat
    BY <2>1 DEF Reply, RetryOK
  <2>3. last' \in Replies \union {"none"} /\ attempt' \in 0..MaxRetries
    BY <2>1 DEF Reply, RetryOK
  <2>4. (UNCHANGED overflowed \/ overflowed' = FALSE) /\ UNCHANGED sleeping
    <3>1. CASE connected /\ kind \notin Errors
      BY <2>1, <3>1 DEF Reply
    <3>2. CASE ~ (connected /\ kind \notin Errors)
      BY <2>1, <3>2 DEF Reply
    <3> QED
      BY <3>1, <3>2
  <2>5. overflowed' \in BOOLEAN
    BY <2>4 DEF RetryOK
  <2> QED
    BY <2>2, <2>3, <2>4, <2>5 DEF RetryOK
<1>4. CASE (\E a \in Aborts : Abort(a)) \/ (\E c \in Compacts : Compact(c))
  BY <1>4 DEF Abort, Compact, AbortRun, RetryOK
<1>5. CASE \E k \in Cancels : AbortRetry(k)
  BY <1>5 DEF AbortRetry, RetryOK
<1>6. CASE \E p \in Prompts : \/ RefusePrompt(p) \/ BeginRun(p) \/ AgentEnd(p) \/ CompactionEnds(p)
                               \/ CompactionFails(p) \/ Settle(p) \/ EndRun(p) \/ Flush(p)
  BY <1>6 DEF RefusePrompt, BeginRun, AgentEnd, CompactionEnds, CompactionFails, Settle, EndRun, Flush,
              retryVars, RetryOK
<1>7. CASE \/ \E p \in Prompts : PromptWhileActive(p) \/ PromptWhileIdle(p)
           \/ \E m \in Steers : Steer(m)
           \/ \E b \in Shells : RecordBash(b)
           \/ \E c \in Compacts : EndCompact(c)
           \/ Title
  BY <1>7 DEF PromptWhileActive, PromptWhileIdle, Steer, RecordBash, EndCompact, Title, retryVars,
              RetryOK
<1> QED
  BY <1>1, <1>2, <1>3, <1>4, <1>5, <1>6, <1>7 DEF Next, Calls, Urgent, Prepare, Work, Post

LEMMA TypedInit == Init => TypedInv
<1> SUFFICES ASSUME Init PROVE TypedInv
  OBVIOUS
<1>1. TextOK
  BY DEF Init, TextOK
<1>2. RunOK
  <2>1. pc \in [Tasks -> Steps]
    BY DEF Init, Steps
  <2>2. /\ snap \in [run : Prompts \union {Nobody}, status : {"idle", "running"} \union Outcomes]
        /\ snap.status = "running" => snap.run \in Prompts
    BY DEF Init
  <2>3. entries \in Seq([run : Prompts, status : Outcomes])
    BY DEF Init
  <2>4. /\ active \in BOOLEAN /\ runAborted \in BOOLEAN /\ forced \in BOOLEAN
        /\ signal \in BOOLEAN /\ connected \in BOOLEAN
    BY DEF Init
  <2>5. worker = Nobody /\ stage = "idle"
    BY DEF Init
  <2> QED
    BY <2>1, <2>2, <2>3, <2>4, <2>5 DEF RunOK
<1>3. RetryOK
  <2>1. attempt \in 0..MaxRetries /\ turns \in 0..MaxTurns /\ fails \in Nat
    BY AgentAssumption DEF Init
  <2>2. sleeping \in BOOLEAN /\ overflowed \in BOOLEAN
    BY DEF Init
  <2>3. last = "none"
    BY DEF Init
  <2> QED
    BY <2>1, <2>2, <2>3 DEF RetryOK
<1> QED
  BY <1>1, <1>2, <1>3, TypedParts

LEMMA TypedNext == TypedInv /\ [Next]_vars => TypedInv'
<1> SUFFICES ASSUME TypedInv, [Next]_vars PROVE TextOK' /\ RunOK' /\ RetryOK'
  BY DEF TypedInv, TypeOK, TextOK, RunOK, RetryOK
<1> TextOK /\ RunOK /\ RetryOK
  BY TypedParts
<1>1. CASE Next
  BY <1>1, RunKeepsText, CallsKeepText, RunKeepsRun, CallsKeepRun, NextKeepsRetries DEF Next
<1>2. CASE UNCHANGED vars
  BY <1>2 DEF vars, agentVars, textVars, runVars, retryVars, TextOK, RunOK, RetryOK
<1> QED
  BY <1>1, <1>2

\* Whatever the host does, and whatever the model answers, every variable of the session keeps
\* its type (TypeOK): the attempts stay within the limit of the settings, an entry is written for
\* a run that a prompt began, and context and log hold messages only, through every compaction.
THEOREM Typed == Spec => []TypeOK
<1>1. TypedInv => TypeOK
  BY DEF TypedInv
<1> QED
  BY <1>1, TypedInit, TypedNext, PTL DEF Spec

-----------------------------------------------------------------------------
(* The retries and the recovery of an overflow. *)

\* What the recovery of an overflow has added to the errors a message may have cost.
Slack == IF overflowed THEN MaxRetries + 1 ELSE 0

\* Every error so far is one of the attempts counted, or one of before the recovery.
Covered == fails <= attempt + Slack

\* compact() has disconnected the session: its errors are no longer seen, nor retried.
Unseen == ~ connected /\ last = "none" /\ fails <= 1

\* compact() waits for the run, and a prompt for compact(): no run finds the session
\* connected again on its way.
CompactsWait == \A p \in Prompts, c \in Compacts :
  /\ Readying(p) => pc[c] \in {"new", "done"}
  /\ Going(p) => pc[c] # "compacting"

\* A reply is forgotten before the next loop.
LastIsFresh == last # "none" => worker # Nobody \/ \E p \in Prompts : At(p, "post")

\* In the loop the errors are covered, and an answer clears them,
LoopCovered ==
  /\ worker # Nobody <=> stage # "idle"
  /\ stage \in {"asking", "polling"} => Covered \/ Unseen
  /\ stage = "answered" => fails = 0
  /\ stage \in {"asking", "polling", "answered"} /\ last # "none" =>
       fails = 0 /\ last \notin Errors \union {"aborted"}

\* at its end the one error that broke it is not,
OneTooMany ==
  /\ last \in Errors =>
       fails <= 1 + attempt + Slack /\ EndsInReply(context) /\ EndsInReply(log)
  /\ last \notin Errors \union {"none"} =>
       fails = 0 \/ (EndsInReply(context) /\ ~ connected /\ fails <= 1)
EndCovered == stage = "broken" \/ (\E p \in Prompts : At(p, "post")) => OneTooMany

\* and what goes back into the loop covers it, or has an answer behind it, after which only
\* another user message begins anew.
CompactCovered == Covered \/ Unseen \/ (EndsInReply(context) /\ EndsInReply(log))
ContinueCovered == Covered \/ Unseen \/ EndsInReply(context)
WayBackCovered == \A p \in Prompts :
  /\ pc[p] \in {"sleep", "recover"} => Covered
  /\ At(p, "compact") => CompactCovered
  /\ At(p, "continue") => ContinueCovered

BoundInv ==
  RecoveryBounded /\ CompactsWait /\ LastIsFresh /\ LoopCovered /\ EndCovered /\ WayBackCovered

-----------------------------------------------------------------------------
LEMMA EndsAfterReply ==
  ASSUME NEW msgs \in Seq(Messages), NEW kind \in Replies \ {"tool"}
  PROVE  EndsInReply(Append(msgs, kind))
<1> kind \in Messages
  BY KindsOfMessages
<1> DEFINE longer == Append(msgs, kind)
<1>1. longer \in Seq(Messages) /\ Len(longer) = Len(msgs) + 1 /\ longer[Len(msgs) + 1] = kind
  OBVIOUS
<1>2. Len(msgs) \in Nat
  OBVIOUS
<1> HIDE DEF longer
<1>3. longer # <<>>
  BY <1>1, <1>2
<1>4. EndsInReply(longer)
  BY <1>1, <1>3 DEF EndsInReply
<1> QED
  BY <1>4 DEF longer

\* A compaction keeps the last message.
LEMMA CompactedEnds ==
  ASSUME NEW msgs \in Seq(Messages), NEW cut \in Cuts(msgs), EndsInReply(msgs)
  PROVE  EndsInReply(Compacted(msgs, cut))
<1> DEFINE n == Len(msgs) - cut + 1
           kept == [i \in 1..n |-> Aged(msgs[cut + i - 1])]
<1>1. Len(msgs) \in Nat /\ cut \in 2..Len(msgs)
  BY DEF Cuts
<1>2. n \in Nat /\ n >= 1 /\ cut + n - 1 = Len(msgs)
  BY <1>1
<1>3. \A m \in Messages : Aged(m) \in Messages
  BY KindsOfMessages DEF Aged
<1>4. \A i \in 1..n : msgs[cut + i - 1] \in Messages
  BY <1>1
<1>5. kept \in Seq(Messages) /\ Len(kept) = n /\ kept[n] = Aged(msgs[cut + n - 1])
  <2>1. \A i \in 1..n : Aged(msgs[cut + i - 1]) \in Messages
    BY <1>3, <1>4
  <2> QED
    BY <1>2, <2>1
<1>6. \A m \in Replies \ {"tool"} : Aged(m) \in Replies \ {"tool"}
  BY DEF Aged, Replies, Errors, Answers
<1>7. kept[n] \in Replies \ {"tool"}
  BY <1>2, <1>5, <1>6 DEF EndsInReply
<1> HIDE DEF n, kept
<1>8. /\ <<"summary">> \o kept # <<>>
      /\ Len(<<"summary">> \o kept) = n + 1
      /\ (<<"summary">> \o kept)[n + 1] = kept[n]
  <2>1. <<"summary">> \in Seq(Messages) /\ Len(<<"summary">>) = 1
    BY KindsOfMessages
  <2> QED
    BY <1>2, <1>5, <2>1
<1>9. EndsInReply(<<"summary">> \o kept)
  BY <1>7, <1>8 DEF EndsInReply
<1> QED
  BY <1>9 DEF Compacted, kept, n

LEMMA SlackBounded ==
  ASSUME RetryOK PROVE Slack \in Nat /\ Slack <= MaxRetries + 1 /\ attempt \in Nat /\ attempt <= MaxRetries
BY AgentAssumption DEF RetryOK, Slack

\* A prompt that is prepared or run is the only one, and the agent is idle until it works
\* for it.
LEMMA Alone ==
  ASSUME RunInv, LoopCovered, NEW p \in Prompts, Readying(p) \/ Going(p)
  PROVE  /\ \A q \in Prompts : q # p => ~ Readying(q) /\ ~ Going(q)
         /\ pc[p] # "agent" => worker = Nobody /\ stage = "idle"
<1>1. \A q \in Prompts : q # p => ~ Readying(q) /\ ~ Going(q)
  BY DEF RunInv, OnePrompt
<1>2. pc[p] # "agent" => worker = Nobody
  BY WorkerIsTheOne
<1> QED
  BY <1>1, <1>2 DEF LoopCovered

\* A step of a prompt outside the loop.
LEMMA StepOutside ==
  ASSUME RunInv, BoundInv, NEW p \in Prompts, NEW s \in Steps \ {"agent", "post"},
         Readying(p) \/ Going(p), pc[p] # "agent", Goto(p, s),
         s \in Preparing => Readying(p),
         UNCHANGED <<worker, stage>>, last' = "none", fails' <= 2 * MaxRetries + 2,
         s \in {"sleep", "recover"} => Covered',
         s = "compact" => CompactCovered',
         s = "continue" => ContinueCovered'
  PROVE  BoundInv'
<1> USE CallsAreTasks
<1>1. /\ \A q \in Prompts : q # p => ~ Readying(q) /\ ~ Going(q)
      /\ worker' = Nobody /\ stage' = "idle"
  BY Alone DEF BoundInv
<1>2. /\ pc'[p] = s
      /\ \A t \in Tasks : t # p => pc'[t] = pc[t]
  BY DEF RunInv, Goto
<1>3. \A q \in Prompts : q # p => pc'[q] \notin Preparing \union GoingSteps
  BY <1>1, <1>2 DEF Readying, Going
<1>4. RecoveryBounded'
  BY DEF RecoveryBounded
<1>5. CompactsWait'
  <2> SUFFICES ASSUME NEW q \in Prompts, NEW c \in Compacts
               PROVE  /\ Readying(q)' => pc'[c] \in {"new", "done"}
                      /\ Going(q)' => pc'[c] # "compacting"
    BY DEF CompactsWait
  <2>1. pc'[c] = pc[c]
    BY <1>2
  <2>2. CASE q # p
    BY <1>3, <2>2 DEF Readying, Going
  <2>3. CASE q = p
    <3>1. pc[c] # "compacting" /\ (Readying(p) => pc[c] \in {"new", "done"})
      BY DEF BoundInv, CompactsWait
    <3> QED
      BY <1>2, <2>1, <2>3, <3>1 DEF Readying
  <2> QED
    BY <2>2, <2>3
<1>6. LastIsFresh'
  BY DEF LastIsFresh
<1>7. LoopCovered'
  BY <1>1 DEF LoopCovered
<1>8. \A q \in Prompts : pc'[q] # "post"
  BY <1>2, <1>3 DEF GoingSteps
<1>9. EndCovered'
  BY <1>1, <1>8 DEF EndCovered, At
<1>10. WayBackCovered'
  <2> SUFFICES ASSUME NEW q \in Prompts
               PROVE  /\ pc'[q] \in {"sleep", "recover"} => Covered'
                      /\ pc'[q] = "compact" => CompactCovered'
                      /\ pc'[q] = "continue" => ContinueCovered'
    BY DEF WayBackCovered, At
  <2>1. CASE q # p
    BY <1>3, <2>1 DEF GoingSteps
  <2>2. CASE q = p
    BY <1>2, <2>2
  <2> QED
    BY <2>1, <2>2
<1> QED
  BY <1>4, <1>5, <1>6, <1>7, <1>9, <1>10 DEF BoundInv

\* A step into the agent's loop.
LEMMA StepInside ==
  ASSUME RunInv, BoundInv, NEW p \in Prompts, Going(p), pc[p] # "agent", Goto(p, "agent"),
         worker' = p, stage' \in {"asking", "polling"}, last' = "none",
         fails' <= 2 * MaxRetries + 2, Covered' \/ Unseen'
  PROVE  BoundInv'
<1> USE CallsAreTasks
<1>1. \A q \in Prompts : q # p => ~ Readying(q) /\ ~ Going(q)
  BY Alone DEF BoundInv
<1>2. /\ pc'[p] = "agent"
      /\ \A t \in Tasks : t # p => pc'[t] = pc[t]
  BY DEF RunInv, Goto
<1>3. \A q \in Prompts : pc'[q] \in Preparing \union GoingSteps => q = p
  BY <1>1, <1>2 DEF Readying, Going
<1>4. RecoveryBounded'
  BY DEF RecoveryBounded
<1>5. CompactsWait'
  <2> SUFFICES ASSUME NEW q \in Prompts, NEW c \in Compacts
               PROVE  /\ Readying(q)' => pc'[c] \in {"new", "done"}
                      /\ Going(q)' => pc'[c] # "compacting"
    BY DEF CompactsWait
  <2>1. pc'[c] = pc[c] /\ pc[c] # "compacting"
    BY <1>2 DEF BoundInv, CompactsWait
  <2>2. ~ Readying(q)'
    BY <1>2, <1>3 DEF Readying, Preparing
  <2> QED
    BY <2>1, <2>2
<1>6. LastIsFresh'
  BY DEF LastIsFresh
<1>7. LoopCovered'
  BY AgentAssumption DEF LoopCovered
<1>8. \A q \in Prompts : pc'[q] \notin {"post", "sleep", "recover", "compact", "continue"}
  BY <1>2, <1>3 DEF GoingSteps
<1>9. EndCovered'
  BY <1>8 DEF EndCovered, At
<1>10. WayBackCovered'
  BY <1>8 DEF WayBackCovered, At
<1> QED
  BY <1>4, <1>5, <1>6, <1>7, <1>9, <1>10 DEF BoundInv

\* Nothing is left of the reply when a prompt is neither in the loop nor right behind it.
LEMMA NothingLast ==
  ASSUME RunInv, BoundInv, NEW p \in Prompts, Readying(p) \/ Going(p), pc[p] \notin {"agent", "post"}
  PROVE  last = "none"
<1>1. worker = Nobody /\ \A q \in Prompts : q # p => ~ Going(q)
  BY Alone DEF BoundInv
<1>2. \A q \in Prompts : ~ At(q, "post")
  BY <1>1 DEF At, Going, GoingSteps
<1> QED
  BY <1>1, <1>2 DEF BoundInv, LastIsFresh

\* A user message begins anew.
LEMMA DeliverCovers ==
  ASSUME TypedInv, NEW m, Deliver(m), UNCHANGED attempt
  PROVE  Covered' /\ fails' = 0 /\ fails' <= 2 * MaxRetries + 2
<1>1. fails' = 0
  BY DEF Deliver
<1>2. RetryOK
  BY TypedParts
<1>3. MaxRetries \in Nat
  BY AgentAssumption
<1>4. attempt' \in Nat /\ Slack' \in Nat
  BY <1>2, <1>3 DEF RetryOK, Slack
<1>5. \A a, b \in Nat : 0 <= a + b
  OBVIOUS
<1>6. Covered'
  BY <1>1, <1>4, <1>5 DEF Covered
<1> QED
  BY <1>1, <1>3, <1>6

LEMMA PrepareKeepsBound ==
  ASSUME TypedInv, RunInv, BoundInv, NEW p \in Prompts, Prepare(p)
  PROVE  BoundInv'
<1> fails <= 2 * MaxRetries + 2
  BY DEF BoundInv, RecoveryBounded
<1>1. CASE PreCheck(p)
  <2>1. PICK s \in {"prerecover", "precompact", "hooks"} : Goto(p, s)
    BY <1>1 DEF PreCheck, CheckCompaction
  <2>2. Readying(p) /\ pc[p] \notin {"agent", "post"}
    BY <1>1 DEF PreCheck, At, Readying, Preparing
  <2>3. last' = "none" /\ fails' = fails /\ UNCHANGED <<worker, stage>>
    BY <1>1, <2>2, NothingLast DEF PreCheck, agentVars
  <2>4. s \in Steps \ {"agent", "post", "sleep", "recover", "compact", "continue"}
    BY DEF Steps
  <2> QED
    BY <2>1, <2>2, <2>3, <2>4, StepOutside
<1>2. CASE RefusePrompt(p)
  <2>1. Readying(p) /\ pc[p] \notin {"agent", "post"}
    BY <1>2 DEF RefusePrompt, Readying, Preparing
  <2>2. last' = "none" /\ fails' = fails /\ UNCHANGED <<worker, stage>>
    BY <1>2, <2>1, NothingLast DEF RefusePrompt, agentVars, retryVars
  <2>3. Goto(p, "done")
    BY <1>2 DEF RefusePrompt
  <2> QED
    BY <2>1, <2>2, <2>3, StepOutside DEF Steps, Preparing
<1>3. CASE BeginRun(p)
  <2>1. Readying(p) /\ pc[p] \notin {"agent", "post"}
    BY <1>3 DEF BeginRun, At, Readying, Preparing
  <2>2. last' = "none" /\ fails' = fails /\ UNCHANGED <<worker, stage>>
    BY <1>3, <2>1, NothingLast DEF BeginRun, agentVars, retryVars
  <2>3. Goto(p, "tracking")
    BY <1>3 DEF BeginRun
  <2> QED
    BY <2>1, <2>2, <2>3, StepOutside DEF Steps, Preparing
<1>4. CASE StartAgent(p)
  <2>1. Going(p) /\ pc[p] \notin {"agent", "post"}
    BY <1>4 DEF StartAgent, At, Going, GoingSteps
  <2>2. worker = Nobody
    BY <2>1, Alone DEF BoundInv
  <2>3. last' = "none" /\ UNCHANGED attempt
    BY <1>4, <2>1, NothingLast DEF StartAgent
  <2>4. Goto(p, "agent") /\ worker' = p /\ stage' = "asking" /\ Deliver(p)
    BY <1>4, <2>2 DEF StartAgent
  <2> QED
    BY <2>1, <2>3, <2>4, DeliverCovers, StepInside
<1> QED
  BY <1>1, <1>2, <1>3, <1>4 DEF Prepare

\* In the loop.
LEMMA LoopGoesOn ==
  ASSUME RunInv, BoundInv, NEW p \in Prompts, worker = p, UNCHANGED <<pc, worker>>,
         fails' <= 2 * MaxRetries + 2, LoopCovered', stage' = "broken" => OneTooMany'
  PROVE  BoundInv'
<1>1. worker # Nobody /\ pc[p] = "agent" /\ Going(p)
  BY AgentAssumption DEF RunInv, WorkerRuns, Going, GoingSteps
<1>2. \A q \in Prompts : q # p => ~ Going(q)
  BY <1>1, Alone DEF BoundInv
<1>3. \A q \in Prompts : pc'[q] \notin {"post", "sleep", "recover", "compact", "continue"}
  BY <1>1, <1>2 DEF Going, GoingSteps
<1>4. RecoveryBounded'
  BY DEF RecoveryBounded
<1>5. CompactsWait'
  BY DEF BoundInv, CompactsWait, Readying, Going
<1>6. LastIsFresh'
  BY <1>1 DEF LastIsFresh
<1>7. EndCovered'
  BY <1>3 DEF EndCovered, At
<1>8. WayBackCovered'
  BY <1>3 DEF WayBackCovered, At
<1> QED
  BY <1>4, <1>5, <1>6, <1>7, <1>8 DEF BoundInv

\* An error is one too many; a tool call or an answer clears them, and so does an abort.
LEMMA ReplyKeepsBound ==
  ASSUME TypedInv, RunInv, BoundInv, NEW p \in Prompts, NEW kind \in Replies, Reply(p, kind)
  PROVE  BoundInv'
<1>1. RetryOK /\ context \in Seq(Messages) /\ log \in Seq(Messages)
  BY TypedParts DEF TextOK
<1>2. MaxRetries \in Nat /\ fails \in Nat /\ attempt \in Nat /\ attempt <= MaxRetries
  BY <1>1, AgentAssumption DEF RetryOK
<1>3. Slack \in Nat /\ Slack <= MaxRetries + 1
  BY <1>2 DEF Slack
<1>4. worker = p /\ UNCHANGED <<pc, worker, connected>> /\ worker # Nobody
  BY AgentAssumption DEF Reply
<1>5. Covered \/ Unseen
  BY DEF Reply, BoundInv, LoopCovered
<1>6. last # "none" => fails = 0 /\ last \notin Errors \union {"aborted"}
  BY DEF Reply, BoundInv, LoopCovered
<1>7. CASE kind \in Errors
  <2>1. fails' = fails + 1 /\ UNCHANGED <<attempt, overflowed>>
    BY <1>7 DEF Reply
  <2>2. stage' = "broken"
    BY <1>7 DEF Reply, Errors, Answers
  <2>3. fails' <= 2 * MaxRetries + 2
    <3>1. CASE Covered
      BY <1>2, <1>3, <2>1, <3>1 DEF Covered
    <3>2. CASE Unseen
      BY <1>2, <2>1, <3>2 DEF Unseen
    <3> QED
      BY <1>5, <3>1, <3>2
  <2>4. LoopCovered'
    BY <1>4, <2>2 DEF LoopCovered
  <2>5. EndsInReply(context')
    <3>1. PICK m \in Replies \ {"tool"} : context' = Append(context, m)
      BY <1>7 DEF Reply, Errors, Replies
    <3> QED
      BY <1>1, <3>1, EndsAfterReply
  <2>6. CASE connected
    <3>1. last' = kind /\ log' = Append(log, "error")
      BY <1>7, <2>6 DEF Reply
    <3>2. EndsInReply(log')
      BY <1>1, <3>1, KindsOfMessages, EndsAfterReply
    <3>3. Covered
      BY <1>5, <2>6 DEF Unseen
    <3>4. fails + 1 <= 1 + attempt + Slack
      BY <1>2, <1>3, <3>3 DEF Covered
    <3>5. Slack' = Slack
      BY <2>1 DEF Slack
    <3>6. OneTooMany'
      BY <1>7, <2>1, <2>5, <3>1, <3>2, <3>4, <3>5 DEF OneTooMany, EndsInReply
    <3> QED
      BY <1>4, <2>3, <2>4, <3>6, LoopGoesOn
  <2>7. CASE ~ connected
    <3>1. UNCHANGED last
      BY <2>7 DEF Reply
    <3>2. last # "none" => fails' <= 1 /\ last \notin Errors
      BY <1>2, <1>6, <2>1
    <3>3. OneTooMany'
      BY <1>4, <2>5, <2>7, <3>1, <3>2 DEF OneTooMany, EndsInReply, Errors
    <3> QED
      BY <1>4, <2>3, <2>4, <3>3, LoopGoesOn
  <2> QED
    BY <2>6, <2>7
<1>8. CASE kind \notin Errors
  <2>1. fails' = 0
    BY <1>8 DEF Reply
  <2>2. last' = kind \/ (UNCHANGED last)
    BY DEF Reply
  <2>3. attempt' \in Nat /\ Slack' \in Nat
    <3>1. CASE connected
      BY <1>2, <1>8, <3>1 DEF Reply, Slack
    <3>2. CASE ~ connected
      BY <1>2, <3>2 DEF Reply, Slack
    <3> QED
      BY <3>1, <3>2
  <2>4. \A a, b \in Nat : 0 <= a + b
    OBVIOUS
  <2>5. Covered'
    BY <2>1, <2>3, <2>4 DEF Covered
  <2>6. fails' <= 2 * MaxRetries + 2
    BY <1>2, <2>1
  <2>7. last' # "none" => last' \notin Errors
    BY <1>6, <1>8, <2>2
  <2>8. stage' # "broken" /\ last' # "none" => last' # "aborted"
    <3>1. kind = "aborted" => stage' = "broken"
      BY DEF Reply, Answers
    <3> QED
      BY <1>6, <2>2, <3>1
  <2>9. stage' \in {"polling", "answered", "broken"}
    BY DEF Reply
  <2>10. LoopCovered'
    BY <1>4, <2>1, <2>5, <2>7, <2>8, <2>9 DEF LoopCovered
  <2>11. OneTooMany'
    BY <2>1, <2>7 DEF OneTooMany, Errors
  <2> QED
    BY <1>4, <2>6, <2>10, <2>11, LoopGoesOn
<1> QED
  BY <1>7, <1>8

LEMMA PollKeepsBound ==
  ASSUME TypedInv, RunInv, BoundInv, NEW p \in Prompts, Poll(p)
  PROVE  BoundInv'
<1>1. worker = p /\ UNCHANGED <<pc, worker, last, attempt, connected>> /\ worker # Nobody
  BY AgentAssumption DEF Poll
<1>2. stage \in {"polling", "answered"} /\ stage' = "asking"
  BY DEF Poll
<1>3. last # "none" => fails = 0 /\ last \notin Errors \union {"aborted"}
  BY <1>2 DEF BoundInv, LoopCovered
<1>4. CASE \E m \in queue : Deliver(m)
  <2>1. Covered' /\ fails' = 0 /\ fails' <= 2 * MaxRetries + 2
    BY <1>1, <1>4, DeliverCovers
  <2>2. LoopCovered'
    BY <1>1, <1>2, <1>3, <2>1 DEF LoopCovered
  <2> QED
    BY <1>1, <1>2, <2>1, <2>2, LoopGoesOn
<1>5. CASE stage = "polling" /\ UNCHANGED <<overflowed, fails>>
  <2>1. Covered' \/ Unseen'
    <3>1. Covered \/ Unseen
      BY <1>5 DEF BoundInv, LoopCovered
    <3> QED
      BY <1>1, <1>5, <3>1 DEF Covered, Unseen, Slack
  <2>2. LoopCovered'
    BY <1>1, <1>2, <1>3, <1>5, <2>1 DEF LoopCovered
  <2>3. fails' <= 2 * MaxRetries + 2
    BY <1>5 DEF BoundInv, RecoveryBounded
  <2> QED
    BY <1>1, <1>2, <2>2, <2>3, LoopGoesOn
<1> QED
  BY <1>4, <1>5 DEF Poll

LEMMA AgentEndKeepsBound ==
  ASSUME TypedInv, RunInv, BoundInv, NEW p \in Prompts, AgentEnd(p)
  PROVE  BoundInv'
<1> USE CallsAreTasks
<1>1. worker = p /\ pc[p] = "agent" /\ Going(p)
  BY AgentAssumption DEF AgentEnd, RunInv, WorkerRuns, Going, GoingSteps
<1>2. \A q \in Prompts : q # p => ~ Readying(q) /\ ~ Going(q)
  BY <1>1, Alone DEF BoundInv
<1>3. /\ pc'[p] = "post"
      /\ \A t \in Tasks : t # p => pc'[t] = pc[t]
  BY DEF AgentEnd, RunInv, Goto
<1>4. \A q \in Prompts : pc'[q] \in Preparing \union GoingSteps => q = p
  BY <1>2, <1>3 DEF Readying, Going
<1>5. UNCHANGED <<last, attempt, overflowed, fails, context, log, connected>>
  BY DEF AgentEnd, retryVars, textVars
<1>6. RecoveryBounded'
  BY <1>5 DEF BoundInv, RecoveryBounded
<1>7. CompactsWait'
  <2> SUFFICES ASSUME NEW q \in Prompts, NEW c \in Compacts
               PROVE  /\ Readying(q)' => pc'[c] \in {"new", "done"}
                      /\ Going(q)' => pc'[c] # "compacting"
    BY DEF CompactsWait
  <2>1. pc'[c] = pc[c] /\ pc[c] # "compacting"
    BY <1>1, <1>3 DEF BoundInv, CompactsWait
  <2>2. ~ Readying(q)'
    BY <1>3, <1>4 DEF Readying, Preparing
  <2> QED
    BY <2>1, <2>2
<1>8. LastIsFresh'
  BY <1>3 DEF LastIsFresh, At
<1>9. LoopCovered'
  BY DEF AgentEnd, LoopCovered
<1>10. OneTooMany
  <2>1. CASE stage = "broken"
    BY <2>1 DEF BoundInv, EndCovered
  <2>2. CASE stage = "answered"
    BY <2>2 DEF BoundInv, LoopCovered, OneTooMany, Errors
  <2> QED
    BY <2>1, <2>2 DEF AgentEnd
<1>11. EndCovered'
  BY <1>5, <1>10 DEF EndCovered, OneTooMany, EndsInReply, Slack
<1>12. \A q \in Prompts : pc'[q] \notin {"sleep", "recover", "compact", "continue"}
  BY <1>3, <1>4 DEF GoingSteps
<1>13. WayBackCovered'
  BY <1>12 DEF WayBackCovered, At
<1> QED
  BY <1>6, <1>7, <1>8, <1>9, <1>11, <1>13 DEF BoundInv

\* Behind the loop.
LEMMA PostIsBehind ==
  ASSUME RunInv, BoundInv, NEW p \in Prompts, At(p, "post")
  PROVE  OneTooMany /\ Going(p) /\ pc[p] # "agent"
BY DEF BoundInv, EndCovered, At, Going, GoingSteps

LEMMA PostOtherKeepsBound ==
  ASSUME TypedInv, RunInv, BoundInv, NEW p \in Prompts, PostOther(p)
  PROVE  BoundInv'
<1>1. At(p, "post") /\ last' = "none" /\ UNCHANGED <<fails, worker, stage, connected, log>>
  BY DEF PostOther, agentVars
<1>2. OneTooMany /\ Going(p) /\ pc[p] # "agent"
  BY <1>1, PostIsBehind
<1>3. fails' <= 2 * MaxRetries + 2
  BY <1>1 DEF BoundInv, RecoveryBounded
<1>4. MaxRetries \in Nat /\ fails \in Nat /\ attempt \in Nat /\ attempt <= MaxRetries
  BY TypedParts, AgentAssumption DEF RetryOK
<1>5. attempt' \in Nat /\ Slack' \in Nat
  BY <1>4 DEF PostOther, Slack
<1>6. \A a, b \in Nat : 0 <= a + b
  OBVIOUS
<1>7. fails = 0 => Covered'
  BY <1>1, <1>5, <1>6 DEF Covered
<1>8. CASE last = "overflow" /\ ~ overflowed
  <2>1. Goto(p, "recover") /\ attempt' = 0 /\ overflowed'
    BY <1>8 DEF PostOther, CheckCompaction, Errors
  <2>2. fails <= 1 + attempt + Slack /\ Slack = 0
    BY <1>2, <1>8 DEF OneTooMany, Slack, Errors
  <2>3. Slack' = MaxRetries + 1
    BY <2>1 DEF Slack
  <2>4. fails <= 0 + (MaxRetries + 1)
    BY <1>4, <2>2
  <2>5. Covered'
    BY <1>1, <2>1, <2>3, <2>4 DEF Covered
  <2> QED
    BY <1>1, <1>2, <1>3, <2>1, <2>5, StepOutside DEF Steps, Preparing
<1>9. CASE ~ (last = "overflow" /\ ~ overflowed)
  <2>1. context' = context
    BY <1>9 DEF PostOther, CheckCompaction
  <2>2. PICK s \in {"compact", "continue", "settling"} :
          Goto(p, s) /\ (last = "none" => s = "settling") /\ (last = "aborted" => s # "compact")
    <3>1. CASE last \in {"none", "aborted"}
      BY <3>1 DEF PostOther, IfQueued
    <3>2. CASE last = "overflow"
      BY <1>9, <3>2 DEF PostOther, CheckCompaction, IfQueued
    <3>3. CASE last \notin {"none", "aborted", "overflow"}
      BY <3>3 DEF PostOther, CheckCompaction, IfQueued
    <3> QED
      BY <3>1, <3>2, <3>3
  <2>3. s # "settling" => CompactCovered' /\ ContinueCovered'
    <3>1. CASE last \in Errors
      BY <1>1, <1>2, <2>1, <3>1 DEF OneTooMany, CompactCovered, ContinueCovered, EndsInReply
    <3>2. CASE last \notin Errors \union {"none"} /\ fails = 0
      BY <1>7, <3>2 DEF CompactCovered, ContinueCovered
    <3>3. CASE last \notin Errors \union {"none"} /\ fails # 0
      <4>1. ~ connected /\ fails <= 1
        BY <1>2, <3>3 DEF OneTooMany
      <4>2. Unseen'
        BY <1>1, <4>1 DEF Unseen
      <4> QED
        BY <4>2 DEF CompactCovered, ContinueCovered
    <3>4. CASE last = "none"
      BY <2>2, <3>4
    <3> QED
      BY <3>1, <3>2, <3>3, <3>4
  <2>4. s \in Steps \ {"agent", "post", "sleep", "recover"} /\ s \notin Preparing
    BY DEF Steps, Preparing
  <2> QED
    BY <1>1, <1>2, <1>3, <2>2, <2>3, <2>4, StepOutside
<1> QED
  BY <1>8, <1>9

LEMMA CompactionKeepsBound ==
  ASSUME TypedInv, RunInv, BoundInv, NEW p \in Prompts, CompactionEnds(p) \/ CompactionFails(p)
  PROVE  BoundInv'
<1>1. /\ UNCHANGED <<last, attempt, overflowed, fails, connected, worker, stage>>
      /\ pc[p] \in {"precompact", "prerecover", "recover", "compact"}
  BY DEF CompactionEnds, CompactionFails, retryVars, agentVars
<1>2. (Readying(p) \/ Going(p)) /\ pc[p] \notin {"agent", "post"}
  BY <1>1 DEF Readying, Going, Preparing, GoingSteps
<1>3. last' = "none" /\ fails' <= 2 * MaxRetries + 2
  BY <1>1, <1>2, NothingLast DEF BoundInv, RecoveryBounded
<1>4. CASE pc[p] \in {"precompact", "prerecover"}
  <2>1. Goto(p, "hooks") /\ Readying(p)
    BY <1>4 DEF CompactionEnds, CompactionFails, Readying, Preparing
  <2> QED
    BY <1>1, <1>2, <1>3, <2>1, StepOutside DEF Steps
<1>5. CASE pc[p] = "recover"
  <2>1. PICK s \in {"continue", "settling"} : Goto(p, s)
    BY <1>5 DEF CompactionEnds, CompactionFails, IfQueued
  <2>2. Covered
    BY <1>5 DEF BoundInv, WayBackCovered
  <2>3. ContinueCovered'
    BY <1>1, <2>2 DEF ContinueCovered, Covered, Slack
  <2> QED
    BY <1>1, <1>2, <1>3, <2>1, <2>3, StepOutside DEF Steps, Preparing
<1>6. CASE pc[p] = "compact"
  <2>1. PICK s \in {"continue", "settling"} : Goto(p, s)
    BY <1>6 DEF CompactionEnds, CompactionFails, IfQueued
  <2>2. CompactCovered
    BY <1>6 DEF BoundInv, WayBackCovered, At
  <2>3. EndsInReply(context) /\ EndsInReply(log) => EndsInReply(context')
    <3>1. CASE CompactionFails(p)
      BY <3>1 DEF CompactionFails, textVars
    <3>2. CASE CompactionEnds(p)
      <4>1. PICK cut \in Cuts(log) : context' = Compacted(log, cut)
        BY <1>6, <3>2 DEF CompactionEnds
      <4>2. log \in Seq(Messages)
        BY TypedParts DEF TextOK
      <4> QED
        BY <4>1, <4>2, CompactedEnds
    <3> QED
      BY <3>1, <3>2
  <2>4. ContinueCovered'
    BY <1>1, <2>2, <2>3 DEF CompactCovered, ContinueCovered, Covered, Unseen, Slack, EndsInReply
  <2> QED
    BY <1>1, <1>2, <1>3, <2>1, <2>4, StepOutside DEF Steps, Preparing
<1> QED
  BY <1>1, <1>4, <1>5, <1>6

LEMMA EndRunKeepsBound ==
  ASSUME TypedInv, RunInv, BoundInv, NEW p \in Prompts, EndRun(p)
  PROVE  BoundInv'
<1> USE CallsAreTasks
<1>1. \A q \in Prompts : \/ pc'[q] = pc[q]
                         \/ /\ pc[q] \notin GoingSteps \union Preparing
                            /\ pc'[q] \notin GoingSteps \union Preparing
  BY DEF RunInv, EndRun, At, AfterWait, GoingSteps, Preparing
<1>2. UNCHANGED <<worker, stage, last, attempt, overflowed, fails, context, log, connected>>
  BY DEF EndRun, agentVars, retryVars
<1>3. RecoveryBounded'
  BY <1>2 DEF BoundInv, RecoveryBounded
<1>4. CompactsWait'
  <2> SUFFICES ASSUME NEW q \in Prompts, NEW c \in Compacts
               PROVE  /\ Readying(q)' => pc'[c] \in {"new", "done"}
                      /\ Going(q)' => pc'[c] # "compacting"
    BY DEF CompactsWait
  <2>1. /\ Readying(q) => pc[c] \in {"new", "done"}
        /\ Going(q) => pc[c] # "compacting" /\ active
    BY DEF BoundInv, CompactsWait, RunInv, ShownRun
  <2>2. /\ pc[c] \in {"new", "done"} => pc'[c] \in {"new", "done"}
        /\ active /\ pc[c] # "compacting" => pc'[c] # "compacting"
    BY DEF EndRun, At, AfterWait
  <2> QED
    BY <1>1, <2>1, <2>2 DEF Readying, Going
<1>5. LastIsFresh'
  BY <1>1, <1>2 DEF BoundInv, LastIsFresh, At, GoingSteps
<1>6. LoopCovered'
  BY <1>2 DEF BoundInv, LoopCovered, Covered, Unseen, Slack
<1>7. EndCovered'
  BY <1>1, <1>2 DEF BoundInv, EndCovered, OneTooMany, EndsInReply, Slack, At, GoingSteps
<1>8. WayBackCovered'
  BY <1>1, <1>2 DEF BoundInv, WayBackCovered, CompactCovered, ContinueCovered, Covered, Unseen,
                    EndsInReply, Slack, At, GoingSteps
<1> QED
  BY <1>3, <1>4, <1>5, <1>6, <1>7, <1>8 DEF BoundInv

LEMMA PostKeepsBound ==
  ASSUME TypedInv, RunInv, BoundInv, NEW p \in Prompts, Post(p) \/ Urgent(p)
  PROVE  BoundInv'
<1>0. fails <= 2 * MaxRetries + 2
  BY DEF BoundInv, RecoveryBounded
<1>1. CASE PostRetry(p)
  <2>1. At(p, "post") /\ last = "error" /\ last' = "none" /\ attempt' = attempt + 1
    BY <1>1 DEF PostRetry
  <2>2. OneTooMany /\ Going(p) /\ pc[p] # "agent"
    BY <2>1, PostIsBehind
  <2>3. fails <= 1 + attempt + Slack
    BY <2>1, <2>2 DEF OneTooMany, Errors
  <2>4. UNCHANGED <<fails, overflowed, worker, stage>> /\ Goto(p, "sleep")
    BY <1>1 DEF PostRetry, agentVars
  <2>5. attempt \in Nat /\ Slack \in Nat /\ fails \in Nat
    BY TypedParts, SlackBounded DEF RetryOK
  <2>6. fails <= (attempt + 1) + Slack
    BY <2>3, <2>5
  <2>7. Covered'
    BY <2>1, <2>4, <2>6 DEF Covered, Slack
  <2> QED
    BY <1>0, <2>1, <2>2, <2>4, <2>7, StepOutside DEF Steps, Preparing
<1>2. CASE PostOther(p)
  BY <1>2, PostOtherKeepsBound
<1>3. CASE SleepEnds(p)
  <2>1. Going(p) /\ pc[p] \notin {"agent", "post"}
    BY <1>3 DEF SleepEnds, At, Going, GoingSteps
  <2>2. last' = "none" /\ UNCHANGED <<fails, attempt, overflowed, worker, stage>> /\ Goto(p, "continue")
    BY <1>3, <2>1, NothingLast DEF SleepEnds, agentVars
  <2>3. Covered
    BY <1>3 DEF SleepEnds, At, BoundInv, WayBackCovered
  <2>4. ContinueCovered'
    BY <2>2, <2>3 DEF ContinueCovered, Covered, Slack
  <2> QED
    BY <1>0, <2>1, <2>2, <2>4, StepOutside DEF Steps, Preparing
<1>4. CASE SleepCut(p)
  <2>1. Going(p) /\ pc[p] \notin {"agent", "post"}
    BY <1>4 DEF SleepCut, At, Going, GoingSteps
  <2>2. last' = "none" /\ fails' = 0 /\ attempt' = 0 /\ UNCHANGED <<worker, stage>>
    BY <1>4, <2>1, NothingLast DEF SleepCut, agentVars
  <2>3. PICK s \in {"compact", "continue", "settling"} : Goto(p, s)
    BY <1>4 DEF SleepCut, CheckCompaction, IfQueued
  <2>4. MaxRetries \in Nat
    BY AgentAssumption
  <2>5. Slack' \in Nat
    BY <2>4 DEF Slack
  <2>6. \A a \in Nat : 0 <= 0 + a
    OBVIOUS
  <2>7. Covered'
    BY <2>2, <2>5, <2>6 DEF Covered
  <2>8. CompactCovered' /\ ContinueCovered'
    BY <2>7 DEF CompactCovered, ContinueCovered
  <2>9. fails' <= 2 * MaxRetries + 2
    BY <2>2, <2>4
  <2> QED
    BY <2>1, <2>2, <2>3, <2>8, <2>9, StepOutside DEF Steps, Preparing
<1>5. CASE CompactionEnds(p) \/ CompactionFails(p)
  BY <1>5, CompactionKeepsBound
<1>6. CASE Settle(p)
  <2>1. Going(p) /\ pc[p] \notin {"agent", "post"}
    BY <1>6 DEF Settle, At, Going, GoingSteps
  <2>2. last' = "none" /\ UNCHANGED <<fails, worker, stage>> /\ Goto(p, "settled")
    BY <1>6, <2>1, NothingLast DEF Settle, agentVars, retryVars
  <2> QED
    BY <1>0, <2>1, <2>2, StepOutside DEF Steps, Preparing
<1>7. CASE EndRun(p)
  BY <1>7, EndRunKeepsBound
<1>8. CASE Flush(p)
  <2>1. Going(p) /\ pc[p] \notin {"agent", "post"}
    BY <1>8 DEF Flush, At, Going, GoingSteps
  <2>2. last' = "none" /\ UNCHANGED <<fails, worker, stage>> /\ Goto(p, "finalizing")
    BY <1>8, <2>1, NothingLast DEF Flush, agentVars, retryVars
  <2> QED
    BY <1>0, <2>1, <2>2, StepOutside DEF Steps, Preparing
<1>9. CASE Continue(p)
  <2>1. Going(p) /\ pc[p] \notin {"agent", "post"} /\ At(p, "continue")
    BY <1>9 DEF Continue, At, Going, GoingSteps
  <2>2. last' = "none" /\ UNCHANGED <<attempt, connected, last>>
    BY <1>9, <2>1, NothingLast DEF Continue
  <2>3. CASE Refuses
    <3>1. Goto(p, "settling") /\ UNCHANGED <<fails, worker, stage>>
      BY <1>9, <2>3 DEF Continue, agentVars
    <3> QED
      BY <1>0, <2>1, <2>2, <3>1, StepOutside DEF Steps, Preparing
  <2>4. CASE ~ Refuses /\ EndsInReply(context)
    <3>1. Goto(p, "agent") /\ worker' = p /\ stage' = "asking" /\ \E m \in queue : Deliver(m)
      BY <1>9, <2>4 DEF Continue
    <3>2. Covered' /\ fails' <= 2 * MaxRetries + 2
      BY <2>2, <3>1, DeliverCovers
    <3> QED
      BY <2>1, <2>2, <3>1, <3>2, StepInside
  <2>5. CASE ~ Refuses /\ ~ EndsInReply(context)
    <3>1. Goto(p, "agent") /\ worker' = p /\ stage' = "polling" /\ UNCHANGED <<overflowed, fails>>
      BY <1>9, <2>5 DEF Continue
    <3>2. Covered \/ Unseen
      BY <2>1, <2>5 DEF BoundInv, WayBackCovered, ContinueCovered
    <3>3. Covered' \/ Unseen'
      BY <2>2, <3>1, <3>2 DEF Covered, Unseen, Slack
    <3> QED
      BY <1>0, <2>1, <2>2, <3>1, <3>3, StepInside
  <2> QED
    BY <2>3, <2>4, <2>5
<1> QED
  BY <1>1, <1>2, <1>3, <1>4, <1>5, <1>6, <1>7, <1>8, <1>9 DEF Post, Urgent

\* A call that is not a prompt, and what it may change.
LEMMA CallKeepsBound ==
  ASSUME TypedInv, RunInv, BoundInv, NEW t \in Tasks \ Prompts, NEW s \in Steps, Goto(t, s),
         t \in Compacts /\ s # "done" =>
           (\A q \in Prompts : ~ Readying(q)) /\ (s = "compacting" => ~ active),
         UNCHANGED <<worker, stage, last, attempt, overflowed, fails>>,
         (UNCHANGED <<context, log>> /\ connected' \in {connected, FALSE})
           \/ (\A q \in Prompts : ~ Going(q))
  PROVE  BoundInv'
<1> USE CallsAreTasks
<1>1. /\ pc'[t] = s
      /\ \A u \in Tasks : u # t => pc'[u] = pc[u]
  BY DEF RunInv, Goto
<1>2. \A q \in Prompts : pc'[q] = pc[q]
  BY <1>1
<1>3. RecoveryBounded'
  BY DEF BoundInv, RecoveryBounded
<1>4. CompactsWait'
  <2> SUFFICES ASSUME NEW q \in Prompts, NEW c \in Compacts
               PROVE  /\ Readying(q)' => pc'[c] \in {"new", "done"}
                      /\ Going(q)' => pc'[c] # "compacting"
    BY DEF CompactsWait
  <2>1. /\ Readying(q) => pc[c] \in {"new", "done"}
        /\ Going(q) => pc[c] # "compacting" /\ active
    BY DEF BoundInv, CompactsWait, RunInv, ShownRun
  <2>2. CASE c # t
    BY <1>1, <1>2, <2>1, <2>2 DEF Readying, Going
  <2>3. CASE c = t
    BY <1>1, <1>2, <2>1, <2>3 DEF Readying, Going
  <2> QED
    BY <2>2, <2>3
<1>5. LastIsFresh'
  BY <1>2 DEF BoundInv, LastIsFresh, At
<1>6. CASE UNCHANGED <<context, log>> /\ connected' \in {connected, FALSE}
  <2>1. ~ connected => ~ connected'
    BY <1>6
  <2>2. LoopCovered'
    BY <2>1 DEF BoundInv, LoopCovered, Covered, Unseen, Slack
  <2>3. EndCovered'
    BY <1>2, <1>6, <2>1 DEF BoundInv, EndCovered, OneTooMany, EndsInReply, Slack, At
  <2>4. WayBackCovered'
    BY <1>2, <1>6, <2>1 DEF BoundInv, WayBackCovered, CompactCovered, ContinueCovered, Covered, Unseen,
                            EndsInReply, Slack, At
  <2> QED
    BY <1>3, <1>4, <1>5, <2>2, <2>3, <2>4 DEF BoundInv
<1>7. CASE \A q \in Prompts : ~ Going(q)
  <2>1. worker = Nobody /\ stage = "idle"
    BY <1>7 DEF RunInv, WorkerRuns, Going, GoingSteps, BoundInv, LoopCovered
  <2>2. \A q \in Prompts : pc'[q] \notin GoingSteps
    BY <1>2, <1>7 DEF Going
  <2>3. LoopCovered'
    BY <2>1 DEF LoopCovered
  <2>4. EndCovered'
    BY <2>1, <2>2 DEF EndCovered, At, GoingSteps
  <2>5. WayBackCovered'
    BY <2>2 DEF WayBackCovered, At, GoingSteps
  <2> QED
    BY <1>3, <1>4, <1>5, <2>3, <2>4, <2>5 DEF BoundInv
<1> QED
  BY <1>6, <1>7

\* A prompt that is sent finds no loop if it is to begin a run.
LEMMA PromptKeepsBound ==
  ASSUME TypedInv, RunInv, BoundInv, "overlap" \notin Env, NEW p \in Prompts,
         PromptWhileActive(p) \/ PromptWhileIdle(p)
  PROVE  BoundInv'
<1> USE CallsAreTasks
<1>1. pc[p] = "new" /\ UNCHANGED <<worker, stage, last, attempt, overflowed, fails, connected>>
  BY DEF PromptWhileActive, PromptWhileIdle, Sends, At, agentVars, retryVars
<1>2. \A t \in Tasks : t # p => pc'[t] = pc[t]
  BY DEF RunInv, PromptWhileActive, PromptWhileIdle, Goto
<1>3. RecoveryBounded'
  BY <1>1 DEF BoundInv, RecoveryBounded
<1>4. CASE PromptWhileActive(p)
  <2>1. UNCHANGED <<context, log>> /\ pc'[p] = "done"
    BY <1>4 DEF PromptWhileActive, RunInv, Goto
  <2>2. \A q \in Prompts : \/ pc'[q] = pc[q]
                           \/ /\ pc[q] \notin GoingSteps \union Preparing
                              /\ pc'[q] \notin GoingSteps \union Preparing
    BY <1>1, <1>2, <2>1 DEF GoingSteps, Preparing
  <2>3. \A c \in Compacts : pc'[c] = pc[c]
    BY <1>2
  <2>4. CompactsWait'
    BY <2>2, <2>3 DEF BoundInv, CompactsWait, Readying, Going
  <2>5. LastIsFresh'
    BY <1>1, <2>2 DEF BoundInv, LastIsFresh, At, GoingSteps
  <2>6. LoopCovered'
    BY <1>1 DEF BoundInv, LoopCovered, Covered, Unseen, Slack
  <2>7. EndCovered'
    BY <1>1, <2>1, <2>2 DEF BoundInv, EndCovered, OneTooMany, EndsInReply, Slack, At, GoingSteps
  <2>8. WayBackCovered'
    BY <1>1, <2>1, <2>2 DEF BoundInv, WayBackCovered, CompactCovered, ContinueCovered, Covered, Unseen,
                            EndsInReply, Slack, At, GoingSteps
  <2> QED
    BY <1>3, <2>4, <2>5, <2>6, <2>7, <2>8 DEF BoundInv
<1>5. CASE PromptWhileIdle(p)
  <2>1. /\ ~ active /\ pc'[p] = "preflight"
        /\ ~ Busy(Preparing) /\ \A c \in Compacts : pc[c] \in {"new", "done"}
    BY <1>5 DEF PromptWhileIdle, Sends, RunInv, Goto
  <2>2. \A q \in Prompts : ~ Going(q)
    BY <2>1 DEF RunInv, ShownRun
  <2>3. worker = Nobody /\ stage = "idle"
    BY <2>2 DEF RunInv, WorkerRuns, Going, GoingSteps, BoundInv, LoopCovered
  <2>4. last = "none"
    BY <2>2, <2>3 DEF BoundInv, LastIsFresh, At, Going, GoingSteps
  <2>5. \A q \in Prompts : pc'[q] \notin GoingSteps
    BY <1>2, <2>1, <2>2 DEF Going, GoingSteps
  <2>6. \A c \in Compacts : pc'[c] \in {"new", "done"}
    BY <1>2, <2>1
  <2>7. CompactsWait'
    BY <2>6 DEF CompactsWait
  <2>8. LastIsFresh' /\ LoopCovered'
    BY <1>1, <2>3, <2>4 DEF LastIsFresh, LoopCovered
  <2>9. EndCovered'
    BY <1>1, <2>3, <2>5 DEF EndCovered, At, GoingSteps
  <2>10. WayBackCovered'
    BY <2>5 DEF WayBackCovered, At, GoingSteps
  <2> QED
    BY <1>3, <2>7, <2>8, <2>9, <2>10 DEF BoundInv
<1> QED
  BY <1>4, <1>5

LEMMA CallsKeepBound ==
  ASSUME TypedInv, RunInv, BoundInv, "overlap" \notin Env, Calls \/ \E c \in Compacts : EndCompact(c)
  PROVE  BoundInv'
<1> USE CallsAreTasks
<1>1. CASE \E p \in Prompts : PromptWhileActive(p) \/ PromptWhileIdle(p)
  BY <1>1, PromptKeepsBound
<1>2. CASE \E m \in Steers : Steer(m)
  BY <1>2, CallKeepsBound DEF Steer, Steps, agentVars, textVars, retryVars
<1>3. CASE \E b \in Shells : RecordBash(b)
  <2>1. PICK b \in Shells : RecordBash(b)
    BY <1>3
  <2>2. UNCHANGED <<context, log>> \/ \A q \in Prompts : ~ Going(q)
    BY <2>1 DEF RecordBash, RunInv, ShownRun
  <2> QED
    BY <2>1, <2>2, CallKeepsBound DEF RecordBash, Steps, agentVars, retryVars
<1>4. CASE \E a \in Aborts : Abort(a)
  <2>1. PICK a \in Aborts : Abort(a)
    BY <1>4
  <2>2. a \notin Compacts /\ a \in Tasks \ Prompts
    BY AgentAssumption
  <2>3. PICK s \in Steps : Goto(a, s)
    BY <2>1 DEF Abort, AbortRun, AfterWait, Steps
  <2>4. UNCHANGED <<worker, stage, last, attempt, overflowed, fails, context, log, connected>>
    BY <2>1 DEF Abort, AbortRun, textVars
  <2> QED
    BY <2>2, <2>3, <2>4, CallKeepsBound
<1>5. CASE \E c \in Compacts : Compact(c)
  <2>1. PICK c \in Compacts : Compact(c)
    BY <1>5
  <2>2. c \in Tasks \ Prompts
    OBVIOUS
  <2>3. PICK s \in Steps : Goto(c, s) /\ (s = "compacting" => ~ active)
    BY <2>1 DEF Compact, AbortRun, AfterWait, Steps
  <2>4. UNCHANGED <<worker, stage, last, attempt, overflowed, fails, context, log>> /\ connected' = FALSE
    BY <2>1 DEF Compact, AbortRun, textVars
  <2>5. \A q \in Prompts : ~ Readying(q)
    BY <2>1 DEF Compact, Busy, Readying
  <2> QED
    BY <2>2, <2>3, <2>4, <2>5, CallKeepsBound
<1>6. CASE \E k \in Cancels : AbortRetry(k)
  BY <1>6, CallKeepsBound DEF AbortRetry, Steps, agentVars, textVars
<1>7. CASE \E c \in Compacts : EndCompact(c)
  <2>1. PICK c \in Compacts : EndCompact(c)
    BY <1>7
  <2>2. \A q \in Prompts : ~ Going(q)
    BY <2>1 DEF EndCompact, At, BoundInv, CompactsWait
  <2> QED
    BY <2>1, <2>2, CallKeepsBound DEF EndCompact, Steps, agentVars, retryVars
<1> QED
  BY <1>1, <1>2, <1>3, <1>4, <1>5, <1>6, <1>7 DEF Calls

LEMMA BoundInit == Init => BoundInv
<1> SUFFICES ASSUME Init PROVE BoundInv
  OBVIOUS
<1> USE CallsAreTasks
<1>1. /\ worker = Nobody /\ stage = "idle" /\ last = "none" /\ fails = 0
      /\ \A t \in Tasks : pc[t] = "new"
  BY DEF Init
<1>2. RecoveryBounded
  BY <1>1, AgentAssumption DEF RecoveryBounded
<1>3. CompactsWait
  BY <1>1 DEF CompactsWait
<1>4. LastIsFresh /\ LoopCovered
  BY <1>1 DEF LastIsFresh, LoopCovered
<1>5. EndCovered
  BY <1>1 DEF EndCovered, At
<1>6. WayBackCovered
  BY <1>1 DEF WayBackCovered, At
<1> QED
  BY <1>2, <1>3, <1>4, <1>5, <1>6 DEF BoundInv

LEMMA BoundNext ==
  ASSUME "overlap" \notin Env
  PROVE  TypedInv /\ RunInv /\ BoundInv /\ [Next]_vars => BoundInv'
<1> SUFFICES ASSUME TypedInv, RunInv, BoundInv, [Next]_vars PROVE BoundInv'
  OBVIOUS
<1>1. CASE \E p \in Prompts : Prepare(p)
  BY <1>1, PrepareKeepsBound
<1>2. CASE \E p \in Prompts : Work(p)
  BY <1>2, ReplyKeepsBound, PollKeepsBound, AgentEndKeepsBound DEF Work
<1>3. CASE \E p \in Prompts : Post(p) \/ Urgent(p)
  BY <1>3, PostKeepsBound
<1>4. CASE Calls \/ \E c \in Compacts : EndCompact(c)
  BY <1>4, CallsKeepBound
<1>5. CASE Title \/ UNCHANGED vars
  <2>1. UNCHANGED <<pc, worker, stage, last, attempt, overflowed, fails, context, log, connected>>
    BY <1>5 DEF Title, vars, agentVars, textVars, retryVars
  <2>2. UNCHANGED <<RecoveryBounded, CompactsWait, LastIsFresh>>
    BY <2>1 DEF RecoveryBounded, CompactsWait, LastIsFresh, Readying, Going, At
  <2>3. LoopCovered'
    BY <2>1 DEF BoundInv, LoopCovered, Covered, Unseen, Slack
  <2>4. EndCovered'
    BY <2>1 DEF BoundInv, EndCovered, OneTooMany, EndsInReply, Slack, At
  <2>5. WayBackCovered'
    BY <2>1 DEF BoundInv, WayBackCovered, CompactCovered, ContinueCovered, Covered, Unseen,
                EndsInReply, Slack, At
  <2> QED
    BY <2>2, <2>3, <2>4, <2>5 DEF BoundInv
<1> QED
  BY <1>1, <1>2, <1>3, <1>4, <1>5 DEF Next

\* Retry and overflow recovery reset one another's counters, messages in the queue begin anew,
\* compact() cuts the session off in the middle of a run, and still a provider that only fails
\* is asked 2 * MaxRetries + 2 times at most for one message (RecoveryBounded); for a host that
\* waits for its responses.
THEOREM FailingProviderIsLeft ==
  ASSUME "overlap" \notin Env
  PROVE  Spec => []RecoveryBounded
<1>1. TypedInv /\ RunInv /\ BoundInv /\ [Next]_vars => (TypedInv /\ RunInv /\ BoundInv)'
  BY TypedNext, RunInvInductive, BoundNext
<1>2. Init => TypedInv /\ RunInv /\ BoundInv
  BY TypedInit, RunInvInit, BoundInit
<1>3. BoundInv => RecoveryBounded
  BY DEF BoundInv
<1> QED
  BY <1>1, <1>2, <1>3, PTL DEF Spec

-----------------------------------------------------------------------------
(* What the messages say without the errors. *)

LEMMA SpotsAreFinite ==
  ASSUME NEW msgs \in Seq(Messages)
  PROVE  /\ Spots(msgs) \in SUBSET (1..Len(msgs)) /\ Spots(msgs) \in SUBSET Nat
         /\ IsFiniteSet(Spots(msgs)) /\ Cardinality(Spots(msgs)) \in Nat
<1>1. DOMAIN msgs = 1..Len(msgs) /\ Len(msgs) \in Nat
  OBVIOUS
<1>2. IsFiniteSet(1..Len(msgs))
  BY <1>1, FS_Interval
<1>3. Spots(msgs) \in SUBSET (1..Len(msgs))
  BY <1>1 DEF Spots
<1>4. \A i \in 1..Len(msgs) : i \in Nat
  BY <1>1
<1>5. IsFiniteSet(Spots(msgs))
  BY <1>2, <1>3, FS_Subset
<1> QED
  BY <1>3, <1>4, <1>5, FS_CardinalityType

LEMMA BeforeOrders ==
  ASSUME NEW msgs \in Seq(Messages), NEW i \in Spots(msgs), NEW j \in Spots(msgs), i < j
  PROVE  Before(msgs, i) < Before(msgs, j)
<1> DEFINE low == {x \in Spots(msgs) : x <= i}
           high == {x \in Spots(msgs) : x <= j}
<1>1. \A x \in Spots(msgs) : x \in Nat
  BY SpotsAreFinite
<1>2. \A x \in Spots(msgs) : x <= i => x <= j
  BY <1>1
<1>3. j \in high /\ j \notin low
  BY <1>1
<1>4. low \in SUBSET high /\ high \in SUBSET Spots(msgs) /\ low # high
  BY <1>2, <1>3
<1> HIDE DEF low, high
<1>5. IsFiniteSet(high) /\ IsFiniteSet(low)
  BY <1>4, SpotsAreFinite, FS_Subset
<1>6. Cardinality(low) <= Cardinality(high) /\ Cardinality(low) # Cardinality(high)
  BY <1>4, <1>5, FS_Subset
<1>7. Cardinality(low) \in Nat /\ Cardinality(high) \in Nat
  BY <1>5, FS_CardinalityType
<1>8. Cardinality(low) < Cardinality(high)
  BY <1>6, <1>7
<1> QED
  BY <1>8 DEF Before, low, high

LEMMA BeforeIn ==
  ASSUME NEW msgs \in Seq(Messages), NEW i \in Spots(msgs)
  PROVE  Before(msgs, i) \in 1..Cardinality(Spots(msgs))
<1> DEFINE low == {x \in Spots(msgs) : x <= i}
<1>1. i \in Nat
  BY SpotsAreFinite
<1>2. low \in SUBSET Spots(msgs) /\ i \in low
  BY <1>1
<1> HIDE DEF low
<1>3. IsFiniteSet(low) /\ Cardinality(low) <= Cardinality(Spots(msgs))
  BY <1>2, SpotsAreFinite, FS_Subset
<1>4. Cardinality(low) \in Nat /\ Cardinality(Spots(msgs)) \in Nat
  BY <1>3, SpotsAreFinite, FS_CardinalityType
<1>5. Cardinality(low) # 0
  BY <1>2, <1>3, FS_EmptySet
<1>6. Cardinality(low) \in 1..Cardinality(Spots(msgs))
  BY <1>3, <1>4, <1>5
<1> QED
  BY <1>6 DEF Before, low

LEMMA BeforeTells ==
  ASSUME NEW msgs \in Seq(Messages), NEW i \in Spots(msgs), NEW j \in Spots(msgs),
         Before(msgs, i) = Before(msgs, j)
  PROVE  i = j
<1>1. i \in Nat /\ j \in Nat /\ Before(msgs, i) \in Nat
  BY SpotsAreFinite, BeforeIn
<1>2. ~ (i < j) /\ ~ (j < i)
  <2>1. ~ (Before(msgs, i) < Before(msgs, j)) /\ ~ (Before(msgs, j) < Before(msgs, i))
    BY <1>1
  <2> QED
    BY <2>1, BeforeOrders
<1> QED
  BY <1>1, <1>2

LEMMA FirstNumbers ==
  ASSUME NEW n \in Nat
  PROVE  IsFiniteSet(1..n) /\ Cardinality(1..n) = n
<1>1. IsFiniteSet(1..n) /\ Cardinality(1..n) = IF 1 > n THEN 0 ELSE n - 1 + 1
  BY FS_Interval
<1> QED
  BY <1>1

LEMMA BeforeFilled ==
  ASSUME NEW msgs \in Seq(Messages), NEW k \in 1..Cardinality(Spots(msgs))
  PROVE  \E i \in Spots(msgs) : Before(msgs, i) = k
<1> DEFINE n == Cardinality(Spots(msgs))
           place == [i \in Spots(msgs) |-> Before(msgs, i)]
<1>1. n \in Nat
  BY SpotsAreFinite
<1>2. IsFiniteSet(1..n) /\ Cardinality(1..n) = n
  BY <1>1, FirstNumbers
<1>3. place \in [Spots(msgs) -> 1..n]
  BY BeforeIn
<1>4. IsInjective(place)
  BY BeforeTells DEF IsInjective
<1>5. place \in Injection(Spots(msgs), 1..n)
  BY <1>3, <1>4 DEF Injection
<1> HIDE DEF place
<1>6. IsFiniteSet(Spots(msgs))
  BY SpotsAreFinite
<1>7. place \in Surjection(Spots(msgs), 1..n)
  BY <1>2, <1>5, <1>6, FS_Injection
<1>8. \E i \in Spots(msgs) : place[i] = k
  BY <1>7 DEF Surjection
<1> QED
  BY <1>8 DEF place

\* An enumeration of the spots in their order.
Lists(list, n, msgs) ==
  /\ list \in [1..n -> Spots(msgs)]
  /\ \A k, l \in 1..n : k < l => list[k] < list[l]
  /\ \A i \in Spots(msgs) : \E k \in 1..n : list[k] = i

\* There is one, by which Said is defined,
LEMMA SpotsListed ==
  ASSUME NEW msgs \in Seq(Messages)
  PROVE  \E list : Lists(list, Cardinality(Spots(msgs)), msgs)
<1> DEFINE n == Cardinality(Spots(msgs))
           list == [k \in 1..n |-> CHOOSE i \in Spots(msgs) : Before(msgs, i) = k]
<1>1. \A k \in 1..n : list[k] \in Spots(msgs) /\ Before(msgs, list[k]) = k
  BY BeforeFilled
<1>2. list \in [1..n -> Spots(msgs)]
  BY <1>1
<1> HIDE DEF list
<1>3. ASSUME NEW k \in 1..n, NEW l \in 1..n, k < l
      PROVE  list[k] < list[l]
  <2>1. list[k] \in Spots(msgs) /\ list[l] \in Spots(msgs)
    BY <1>1
  <2>2. k \in Nat /\ l \in Nat /\ n \in Nat
    BY SpotsAreFinite
  <2>3. list[k] \in Nat /\ list[l] \in Nat
    BY <2>1, SpotsAreFinite
  <2>4. Before(msgs, list[k]) < Before(msgs, list[l])
    BY <1>1, <1>3
  <2>5. ~ (Before(msgs, list[l]) < Before(msgs, list[k])) /\ list[k] # list[l]
    BY <1>1, <1>3, <2>2
  <2>6. ~ (list[l] < list[k])
    BY <2>1, <2>5, BeforeOrders
  <2> QED
    BY <2>3, <2>5, <2>6
<1>4. ASSUME NEW i \in Spots(msgs)
      PROVE  \E k \in 1..n : list[k] = i
  <2>1. Before(msgs, i) \in 1..n
    BY BeforeIn
  <2>2. list[Before(msgs, i)] \in Spots(msgs) /\ Before(msgs, list[Before(msgs, i)]) = Before(msgs, i)
    BY <1>1, <2>1
  <2> DEFINE j == list[Before(msgs, i)]
  <2>3. j \in Spots(msgs) /\ Before(msgs, j) = Before(msgs, i)
    BY <2>2
  <2> HIDE DEF j
  <2>4. j = i
    BY <2>3, BeforeTells
  <2> QED
    BY <2>1, <2>4 DEF j
<1>5. Lists(list, n, msgs)
  BY <1>2, <1>3, <1>4 DEF Lists
<1> QED
  BY <1>5 DEF n

\* and it is the only one.
LEMMA ListTellsSaid ==
  ASSUME NEW msgs \in Seq(Messages), NEW n \in Nat, NEW list, Lists(list, n, msgs)
  PROVE  Said(msgs) = [k \in 1..n |-> msgs[list[k]]]
<1>1. ASSUME NEW m \in Nat, NEW S, NEW f \in [1..m -> S],
             \A k, l \in 1..m : k < l => f[k] # f[l],
             \A i \in S : \E k \in 1..m : f[k] = i
      PROVE  Cardinality(S) = m
  <2>1. IsFiniteSet(1..m) /\ Cardinality(1..m) = m
    <3>1. IsFiniteSet(1..m) /\ Cardinality(1..m) = IF 1 > m THEN 0 ELSE m - 1 + 1
      BY FS_Interval
    <3> QED
      BY <3>1
  <2>2. \A k, l \in 1..m : k # l => k < l \/ l < k
    OBVIOUS
  <2>3. IsInjective(f)
    BY <1>1, <2>2 DEF IsInjective
  <2>4. f \in Surjection(1..m, S)
    BY <1>1 DEF Surjection
  <2>5. f \in Bijection(1..m, S)
    BY <1>1, <2>3, <2>4 DEF Bijection, Injection
  <2>6. ExistsBijection(1..m, S)
    BY <2>5 DEF ExistsBijection
  <2> QED
    BY <2>1, <2>6, FS_Bijection
<1>2. \A k \in 1..n : list[k] \in Spots(msgs) /\ list[k] \in Nat
  BY SpotsAreFinite DEF Lists
<1>3. \A k, l \in 1..n : k < l => list[k] # list[l]
  <2>1. \A k, l \in 1..n : k < l => list[k] < list[l]
    BY DEF Lists
  <2> QED
    BY <1>2, <2>1
<1>4. Cardinality(Spots(msgs)) = n
  BY <1>1, <1>3 DEF Lists
<1>5. ASSUME NEW k \in 1..n
      PROVE  Before(msgs, list[k]) = k
  <2> DEFINE low == {j \in Spots(msgs) : j <= list[k]}
             f == [l \in 1..k |-> list[l]]
  <2>1. k \in Nat /\ \A l \in 1..k : l \in 1..n
    OBVIOUS
  <2>2. \A l \in 1..n : l <= k <=> list[l] <= list[k]
    <3> SUFFICES ASSUME NEW l \in 1..n
                 PROVE  l <= k <=> list[l] <= list[k]
      OBVIOUS
    <3>1. l < k => list[l] < list[k]
      BY DEF Lists
    <3>2. k < l => list[k] < list[l]
      BY DEF Lists
    <3> QED
      BY <1>2, <3>1, <3>2
  <2>3. f \in [1..k -> low]
    BY <1>2, <2>1, <2>2
  <2>4. \A l, m \in 1..k : l < m => f[l] # f[m]
    BY <1>3, <2>1
  <2>5. \A i \in low : \E l \in 1..k : f[l] = i
    <3> SUFFICES ASSUME NEW i \in low
                 PROVE  \E l \in 1..k : f[l] = i
      OBVIOUS
    <3>1. PICK l \in 1..n : list[l] = i
      BY DEF Lists
    <3>2. l <= k
      BY <2>2, <3>1
    <3> QED
      BY <3>1, <3>2
  <2> HIDE DEF low, f
  <2>6. Cardinality(low) = k
    BY <1>1, <2>1, <2>3, <2>4, <2>5
  <2> QED
    BY <2>6 DEF Before, low
<1>6. ASSUME NEW k \in 1..n
      PROVE  (CHOOSE i \in Spots(msgs) : Before(msgs, i) = k) = list[k]
  <2>1. list[k] \in Spots(msgs) /\ Before(msgs, list[k]) = k
    BY <1>2, <1>5
  <2> DEFINE i == CHOOSE i \in Spots(msgs) : Before(msgs, i) = k
  <2>2. i \in Spots(msgs) /\ Before(msgs, i) = k
    BY <2>1
  <2> HIDE DEF i
  <2>3. i = list[k]
    BY <2>1, <2>2, BeforeTells
  <2> QED
    BY <2>3 DEF i
<1> DEFINE nth(k) == CHOOSE i \in Spots(msgs) : Before(msgs, i) = k
<1>7. Said(msgs) = [k \in 1..n |-> msgs[nth(k)]]
  BY <1>4 DEF Said
<1>8. \A k \in 1..n : nth(k) = list[k]
  BY <1>6
<1> HIDE DEF nth
<1> QED
  BY <1>7, <1>8

\* What is said is a sequence,
LEMMA SaidTyped ==
  ASSUME NEW msgs \in Seq(Messages)
  PROVE  Said(msgs) \in Seq(Messages)
<1> DEFINE n == Cardinality(Spots(msgs))
<1>1. n \in Nat
  BY SpotsAreFinite
<1>2. PICK list : Lists(list, n, msgs)
  BY SpotsListed
<1> HIDE DEF n
<1>3. \A k \in 1..n : msgs[list[k]] \in Messages
  BY <1>2, SpotsAreFinite DEF Lists
<1>4. Said(msgs) = [k \in 1..n |-> msgs[list[k]]]
  BY <1>1, <1>2, ListTellsSaid
<1> QED
  BY <1>1, <1>3, <1>4

\* it is the same where the same is at the spots,
LEMMA SaidSame ==
  ASSUME NEW msgs \in Seq(Messages), NEW others \in Seq(Messages),
         Spots(others) = Spots(msgs),
         \A i \in Spots(msgs) : others[i] = msgs[i]
  PROVE  Said(others) = Said(msgs)
<1> DEFINE n == Cardinality(Spots(msgs))
<1>1. n \in Nat
  BY SpotsAreFinite
<1>2. PICK list : Lists(list, n, msgs)
  BY SpotsListed
<1> HIDE DEF n
<1>3. Lists(list, n, others)
  BY <1>2 DEF Lists
<1>4. Said(msgs) = [k \in 1..n |-> msgs[list[k]]]
  BY <1>1, <1>2, ListTellsSaid
<1>5. Said(others) = [k \in 1..n |-> others[list[k]]]
  BY <1>1, <1>3, ListTellsSaid
<1>6. \A k \in 1..n : list[k] \in Spots(msgs)
  BY <1>2 DEF Lists
<1>7. \A k \in 1..n : others[list[k]] = msgs[list[k]]
  BY <1>6
<1> QED
  BY <1>4, <1>5, <1>7

\* an error at the end adds nothing,
LEMMA SaidWithError ==
  ASSUME NEW msgs \in Seq(Messages), NEW m \in Errors
  PROVE  Said(Append(msgs, m)) = Said(msgs)
<1> m \in Messages
  BY KindsOfMessages DEF Replies
<1> DEFINE longer == Append(msgs, m)
<1>1. /\ longer \in Seq(Messages) /\ Len(longer) = Len(msgs) + 1 /\ Len(msgs) \in Nat
      /\ longer[Len(msgs) + 1] = m /\ \A i \in 1..Len(msgs) : longer[i] = msgs[i]
      /\ DOMAIN longer = 1..(Len(msgs) + 1) /\ DOMAIN msgs = 1..Len(msgs)
  OBVIOUS
<1> HIDE DEF longer
<1>2. Spots(longer) = Spots(msgs)
  BY <1>1 DEF Spots
<1>3. \A i \in Spots(msgs) : longer[i] = msgs[i]
  BY <1>1 DEF Spots
<1>4. Said(longer) = Said(msgs)
  BY <1>1, <1>2, <1>3, SaidSame
<1> QED
  BY <1>4 DEF longer

LEMMA SaidWithoutError ==
  ASSUME NEW msgs \in Seq(Messages), msgs # <<>>, msgs[Len(msgs)] \in Errors
  PROVE  Said(Front(msgs)) = Said(msgs)
<1> DEFINE shorter == Front(msgs)
<1>1. /\ shorter \in Seq(Messages) /\ Len(msgs) \in Nat /\ Len(msgs) >= 1
      /\ DOMAIN shorter = 1..(Len(msgs) - 1) /\ DOMAIN msgs = 1..Len(msgs)
      /\ \A i \in 1..(Len(msgs) - 1) : shorter[i] = msgs[i]
  BY FrontTyped DEF Front
<1> HIDE DEF shorter
<1>2. Spots(shorter) = Spots(msgs)
  BY <1>1 DEF Spots
<1>3. \A i \in Spots(msgs) : shorter[i] = msgs[i]
  BY <1>1, <1>2 DEF Spots
<1>4. Said(shorter) = Said(msgs)
  BY <1>1, <1>2, <1>3, SaidSame
<1> QED
  BY <1>4 DEF shorter

LEMMA Together ==
  ASSUME NEW one \in Seq(Messages), NEW two \in Seq(Messages)
  PROVE  /\ one \o two \in Seq(Messages)
         /\ DOMAIN (one \o two) = 1..(Len(one) + Len(two))
         /\ one \o two = [k \in 1..(Len(one) + Len(two)) |-> (one \o two)[k]]
         /\ \A k \in 1..Len(one) : (one \o two)[k] = one[k]
         /\ \A j \in 1..Len(two) : (one \o two)[Len(one) + j] = two[j]
<1> DEFINE both == one \o two
<1>1. /\ both \in Seq(Messages) /\ Len(both) = Len(one) + Len(two)
      /\ \A k \in 1..Len(one) : both[k] = one[k]
      /\ \A j \in 1..Len(two) : both[Len(one) + j] = two[j]
  OBVIOUS
<1> HIDE DEF both
<1>2. DOMAIN both = 1..(Len(one) + Len(two))
  BY <1>1
<1>3. both = [k \in DOMAIN both |-> both[k]]
  BY <1>1
<1> QED
  BY <1>1, <1>2, <1>3 DEF both

\* and what is no error comes behind what was said.
LEMMA SaidTogether ==
  ASSUME NEW msgs \in Seq(Messages), NEW more \in Seq(Messages),
         \A i \in 1..Len(more) : more[i] \notin Errors
  PROVE  Said(msgs \o more) = Said(msgs) \o more
<1> DEFINE n == Cardinality(Spots(msgs))
           all == msgs \o more
<1>1. n \in Nat /\ Len(msgs) \in Nat /\ Len(more) \in Nat
  BY SpotsAreFinite
<1>2. PICK list : Lists(list, n, msgs)
  BY SpotsListed
<1>3. /\ all \in Seq(Messages) /\ Len(all) = Len(msgs) + Len(more)
      /\ \A i \in 1..Len(msgs) : all[i] = msgs[i]
      /\ \A i \in 1..Len(more) : all[Len(msgs) + i] = more[i]
      /\ DOMAIN all = 1..(Len(msgs) + Len(more)) /\ DOMAIN msgs = 1..Len(msgs)
  OBVIOUS
<1> HIDE DEF n, all
<1>4. /\ \A i \in Spots(msgs) : i \in Spots(all) /\ i \in 1..Len(msgs)
      /\ \A i \in 1..Len(more) : Len(msgs) + i \in Spots(all)
  BY <1>1, <1>3 DEF Spots
<1>5. \A i \in Spots(all) : i \in Spots(msgs) \/ \E j \in 1..Len(more) : i = Len(msgs) + j
  <2> SUFFICES ASSUME NEW i \in Spots(all), i \notin Spots(msgs)
               PROVE  \E j \in 1..Len(more) : i = Len(msgs) + j
    OBVIOUS
  <2>1. i \in 1..(Len(msgs) + Len(more)) /\ i \notin 1..Len(msgs)
    BY <1>1, <1>3 DEF Spots
  <2>2. i - Len(msgs) \in 1..Len(more) /\ i = Len(msgs) + (i - Len(msgs))
    BY <1>1, <2>1
  <2> QED
    BY <2>2
<1> DEFINE longer == [k \in 1..(n + Len(more)) |-> IF k <= n THEN list[k] ELSE Len(msgs) + (k - n)]
<1>6. /\ \A k \in 1..n : k \in 1..(n + Len(more)) /\ longer[k] = list[k] /\ list[k] \in Spots(msgs)
      /\ \A j \in 1..Len(more) : n + j \in 1..(n + Len(more)) /\ longer[n + j] = Len(msgs) + j
      /\ \A k \in 1..(n + Len(more)) : k \in 1..n \/ \E j \in 1..Len(more) : k = n + j
  <2>1. \A k \in 1..n : k \in 1..(n + Len(more)) /\ k <= n /\ list[k] \in Spots(msgs)
    BY <1>1, <1>2 DEF Lists
  <2>2. \A j \in 1..Len(more) : n + j \in 1..(n + Len(more)) /\ ~ (n + j <= n) /\ (n + j) - n = j
    BY <1>1
  <2>3. \A k \in 1..(n + Len(more)) : k \in 1..n \/ (k - n \in 1..Len(more) /\ k = n + (k - n))
    BY <1>1
  <2> QED
    BY <2>1, <2>2, <2>3
<1>7. DOMAIN longer = 1..(n + Len(more))
  OBVIOUS
<1>8. longer = [k \in 1..(n + Len(more)) |-> longer[k]]
  OBVIOUS
<1> HIDE DEF longer
<1>9. longer \in [1..(n + Len(more)) -> Spots(all)]
  <2>1. \A k \in 1..(n + Len(more)) : longer[k] \in Spots(all)
    BY <1>4, <1>6
  <2> QED
    BY <1>8, <2>1
<1>10. ASSUME NEW k \in 1..(n + Len(more)), NEW l \in 1..(n + Len(more)), k < l
       PROVE  longer[k] < longer[l]
  <2>1. CASE k \in 1..n /\ l \in 1..n
    BY <1>2, <1>6, <1>10, <2>1 DEF Lists
  <2>2. ASSUME k \in 1..n, NEW j \in 1..Len(more), l = n + j
        PROVE  longer[k] < longer[l]
    <3>1. longer[k] \in 1..Len(msgs) /\ longer[l] = Len(msgs) + j
      BY <1>4, <1>6, <2>2
    <3> QED
      BY <1>1, <3>1
  <2>3. ASSUME NEW i \in 1..Len(more), NEW j \in 1..Len(more), k = n + i, l = n + j
        PROVE  longer[k] < longer[l]
    <3>1. longer[k] = Len(msgs) + i /\ longer[l] = Len(msgs) + j
      BY <1>6, <2>3
    <3>2. i < j
      BY <1>1, <1>10, <2>3
    <3> QED
      BY <1>1, <3>1, <3>2
  <2>4. ASSUME NEW i \in 1..Len(more), k = n + i, l \in 1..n
        PROVE  FALSE
    BY <1>1, <1>10, <2>4
  <2> QED
    BY <1>6, <2>1, <2>2, <2>3, <2>4
<1>11. ASSUME NEW i \in Spots(all)
       PROVE  \E k \in 1..(n + Len(more)) : longer[k] = i
  <2>1. CASE i \in Spots(msgs)
    <3>1. PICK k \in 1..n : list[k] = i
      BY <1>2, <2>1 DEF Lists
    <3> QED
      BY <1>6, <3>1
  <2>2. ASSUME NEW j \in 1..Len(more), i = Len(msgs) + j
        PROVE  \E k \in 1..(n + Len(more)) : longer[k] = i
    BY <1>6, <2>2
  <2> QED
    BY <1>5, <2>1, <2>2
<1>12. Lists(longer, n + Len(more), all)
  BY <1>9, <1>10, <1>11 DEF Lists
<1>13. Said(all) = [k \in 1..(n + Len(more)) |-> all[longer[k]]]
  BY <1>1, <1>3, <1>12, ListTellsSaid
<1>14. Said(msgs) = [k \in 1..n |-> msgs[list[k]]]
  BY <1>1, <1>2, ListTellsSaid
<1>15. Said(msgs) \in Seq(Messages) /\ Len(Said(msgs)) = n
  BY <1>1, <1>14, SaidTyped
<1> DEFINE both == Said(msgs) \o more
<1>16. /\ DOMAIN both = 1..(n + Len(more)) /\ both = [k \in DOMAIN both |-> both[k]]
       /\ \A k \in 1..n : both[k] = Said(msgs)[k]
       /\ \A j \in 1..Len(more) : both[n + j] = more[j]
  BY <1>15, Together
<1> HIDE DEF both
<1>17. ASSUME NEW k \in 1..(n + Len(more))
       PROVE  all[longer[k]] = both[k]
  <2>1. CASE k \in 1..n
    <3>1. all[longer[k]] = msgs[list[k]]
      BY <1>3, <1>4, <1>6, <2>1
    <3> QED
      BY <1>14, <1>16, <2>1, <3>1
  <2>2. ASSUME NEW j \in 1..Len(more), k = n + j
        PROVE  all[longer[k]] = both[k]
    BY <1>3, <1>6, <1>16, <2>2
  <2> QED
    BY <1>6, <2>1, <2>2
<1>18. Said(all) = both
  BY <1>13, <1>16, <1>17
<1> QED
  BY <1>18 DEF all, both

LEMMA SaidMore ==
  ASSUME NEW msgs \in Seq(Messages), NEW m \in Messages \ Errors
  PROVE  Said(Append(msgs, m)) = Append(Said(msgs), m)
<1>1. <<m>> \in Seq(Messages) /\ Len(<<m>>) = 1 /\ <<m>>[1] = m
  OBVIOUS
<1>2. \A i \in 1..Len(<<m>>) : <<m>>[i] \notin Errors
  BY <1>1
<1>3. Said(msgs \o <<m>>) = Said(msgs) \o <<m>>
  BY <1>1, <1>2, SaidTogether
<1>4. \A s \in Seq(Messages) : s \o <<m>> = Append(s, m)
  OBVIOUS
<1> QED
  BY <1>3, <1>4, SaidTyped

\* Messages of the host and bash results are no errors.
LEMMA HostSaysNoErrors ==
  /\ \A m \in UserMessages \union Shells : m \in Messages \ Errors
  /\ \A more \in Seq(Shells) : more \in Seq(Messages) /\ \A i \in 1..Len(more) : more[i] \notin Errors
<1>1. \A m \in UserMessages \union Shells : m \in Messages \ Errors
  BY MessageAssumption DEF Messages, Replies
<1> QED
  BY <1>1

LEMMA LastOfLast ==
  ASSUME NEW msgs \in Seq(Messages), NEW kinds, msgs # <<>>, msgs[Len(msgs)] \in kinds
  PROVE  LastOf(msgs, kinds) = msgs[Len(msgs)]
<1> DEFINE found == {i \in DOMAIN msgs : msgs[i] \in kinds}
           n == Len(msgs)
<1>1. DOMAIN msgs = 1..n /\ n \in Nat /\ n >= 1
  OBVIOUS
<1>2. n \in found /\ \A i \in found : i \in Nat /\ n >= i
  BY <1>1
<1> DEFINE best == CHOOSE x \in found : \A y \in found : x >= y
<1> HIDE DEF found, n
<1>3. best \in found /\ \A y \in found : best >= y
  BY <1>2
<1>4. Max(found) = best
  BY DEF Max
<1> HIDE DEF best
<1>5. Max(found) = n
  <2>1. best \in Nat /\ n >= best /\ best >= n
    BY <1>2, <1>3
  <2> QED
    BY <1>1, <1>4, <2>1
<1> QED
  BY <1>2, <1>5 DEF LastOf, found, n

\* Taking the error out of memory leaves what is said.
LEMMA StripSaid ==
  ASSUME NEW msgs \in Seq(Messages), EndsInReply(msgs) => msgs[Len(msgs)] \in Errors
  PROVE  Said(Strip(msgs)) = Said(msgs)
BY SaidWithoutError DEF Strip, EndsInReply

-----------------------------------------------------------------------------
(* Memory, log and file. *)

\* No prompt is prepared or run before agent_settled is out.
SettledAlone == \A p, q \in Prompts : At(p, "settled") => ~ Readying(q) /\ ~ Going(q)

\* compact() has not been called yet.
Fresh == \A c \in Compacts : At(c, "new")

\* The prompt that is in the log and not yet in memory.
Ahead == {p \in Prompts : At(p, "tracking") /\ p \in Eager}

\* The log is what the memory says, and the prompt ahead of it,
LogInStep ==
  /\ connected
  /\ prePersisted = Ahead
  /\ Ahead = {} => Said(context) = Said(log)
  /\ \A p \in Ahead : Append(Said(context), p) = Said(log)

\* and the error that retry or recovery takes out is the last message in memory.
ErrorIsLast ==
  (stage = "broken" \/ \E p \in Prompts : At(p, "post")) /\ last \in Errors =>
    context # <<>> /\ context[Len(context)] \in Errors

SameInv == SettledAlone /\ (Fresh => LogInStep /\ ErrorIsLast)

\* A step of the prompt at work, which is not between the write ahead and its loop.
LEMMA StepInStep ==
  ASSUME RunInv, SameInv, NEW p \in Prompts, Readying(p) \/ Going(p), pc[p] # "tracking",
         pc' \in [Tasks -> Steps], \A t \in Tasks : t # p => pc'[t] = pc[t],
         pc'[p] # "tracking",
         Fresh => UNCHANGED <<connected, prePersisted>>,
         Fresh => (Said(context) = Said(log) => Said(context') = Said(log')),
         Fresh => ErrorIsLast'
  PROVE  SameInv'
<1> USE CallsAreTasks
<1>1. \A q \in Prompts : q # p => ~ Readying(q) /\ ~ Going(q)
  BY DEF RunInv, OnePrompt
<1>2. \A q \in Prompts : pc[q] # "settled"
  BY DEF SameInv, SettledAlone, At
<1>3. SettledAlone'
  BY <1>1, <1>2 DEF SettledAlone, At, Readying, Going, GoingSteps, Preparing
<1>4. Fresh' => Fresh
  BY DEF Fresh, At
<1>5. Ahead = {} /\ Ahead' = {}
  BY <1>1 DEF Ahead, At, Going, GoingSteps
<1>6. Fresh => LogInStep'
  BY <1>5 DEF SameInv, LogInStep
<1> QED
  BY <1>3, <1>4, <1>6 DEF SameInv

\* Outside the loop.
LEMMA StepOutsideInStep ==
  ASSUME RunInv, BoundInv, SameInv, NEW p \in Prompts, NEW s \in Steps \ {"post", "tracking"},
         Readying(p) \/ Going(p), pc[p] \notin {"agent", "tracking"}, Goto(p, s),
         UNCHANGED stage, Fresh => UNCHANGED <<connected, prePersisted>>,
         Fresh => (Said(context) = Said(log) => Said(context') = Said(log'))
  PROVE  SameInv'
<1> USE CallsAreTasks
<1>1. /\ \A q \in Prompts : q # p => ~ Readying(q) /\ ~ Going(q)
      /\ stage' = "idle"
  BY Alone DEF BoundInv
<1>2. pc' \in [Tasks -> Steps] /\ pc'[p] = s /\ \A t \in Tasks : t # p => pc'[t] = pc[t]
  BY DEF RunInv, Goto
<1>3. ErrorIsLast'
  BY <1>1, <1>2 DEF ErrorIsLast, At, Going, GoingSteps
<1> QED
  BY <1>2, <1>3, StepInStep

\* The context without the overflow is still what the log says.
LEMMA CheckInStep ==
  ASSUME TypedInv, NEW reply, EndsInReply(context) /\ reply = "overflow" => context[Len(context)] \in Errors,
         context' = IF reply = "overflow" /\ ~ overflowed THEN Strip(context) ELSE context
  PROVE  Said(context') = Said(context)
<1>1. context \in Seq(Messages)
  BY TypedParts DEF TextOK
<1> QED
  BY <1>1, StripSaid

LEMMA PrepareInStep ==
  ASSUME TypedInv, RunInv, BoundInv, SameInv, NEW p \in Prompts,
         PreCheck(p) \/ RefusePrompt(p) \/ BeginRun(p)
  PROVE  SameInv'
<1>1. CASE PreCheck(p)
  <2>1. PICK s \in {"prerecover", "precompact", "hooks"} : Goto(p, s)
    BY <1>1 DEF PreCheck, CheckCompaction
  <2>2. Readying(p) /\ pc[p] \notin {"agent", "tracking"} /\ s \in Steps \ {"post", "tracking"}
    BY <1>1 DEF PreCheck, At, Readying, Preparing, Steps
  <2>3. UNCHANGED <<connected, prePersisted, stage, log>>
    BY <1>1 DEF PreCheck, agentVars
  <2> DEFINE reply == LastOf(context, Replies)
  <2>4. EndsInReply(context) /\ reply = "overflow" => context[Len(context)] \in Errors
    <3> SUFFICES ASSUME EndsInReply(context), reply = "overflow"
                 PROVE  context[Len(context)] \in Errors
      OBVIOUS
    <3>1. context \in Seq(Messages) /\ context # <<>> /\ context[Len(context)] \in Replies
      BY TypedParts DEF TextOK, EndsInReply
    <3>2. context[Len(context)] = "overflow"
      BY <3>1, LastOfLast
    <3> QED
      BY <3>2 DEF Errors
  <2>5. context' = IF reply = "overflow" /\ ~ overflowed THEN Strip(context) ELSE context
    BY <1>1 DEF PreCheck, CheckCompaction
  <2> HIDE DEF reply
  <2>6. Said(context') = Said(context)
    BY <2>4, <2>5, CheckInStep
  <2>7. Said(context) = Said(log) => Said(context') = Said(log')
    BY <2>3, <2>6
  <2> QED
    BY <2>1, <2>2, <2>3, <2>7, StepOutsideInStep
<1>2. CASE RefusePrompt(p)
  <2>1. Readying(p) /\ pc[p] \notin {"agent", "tracking"} /\ Goto(p, "done")
    BY <1>2 DEF RefusePrompt, Readying, Preparing
  <2>2. UNCHANGED <<connected, prePersisted, stage, context, log>>
    BY <1>2 DEF RefusePrompt, agentVars, textVars
  <2>3. Said(context) = Said(log) => Said(context') = Said(log')
    BY <2>2
  <2> QED
    BY <2>1, <2>2, <2>3, StepOutsideInStep DEF Steps
<1>3. CASE BeginRun(p)
  <2> USE CallsAreTasks
  <2>1. Readying(p) /\ pc[p] = "hooks"
    BY <1>3 DEF BeginRun, At, Readying, Preparing
  <2>2. /\ \A q \in Prompts : q # p => ~ Readying(q) /\ ~ Going(q)
        /\ stage = "idle"
    BY <2>1, Alone DEF BoundInv
  <2>3. pc'[p] = "tracking" /\ \A t \in Tasks : t # p => pc'[t] = pc[t]
    BY <1>3 DEF BeginRun, RunInv, Goto
  <2>4. \A q \in Prompts : pc[q] # "settled"
    BY <2>1 DEF SameInv, SettledAlone, At
  <2>5. SettledAlone'
    BY <2>2, <2>3, <2>4 DEF SettledAlone, At
  <2>6. Fresh' => Fresh
    BY <2>3 DEF Fresh, At
  <2>7. UNCHANGED <<context, connected, stage>>
    BY <1>3 DEF BeginRun, agentVars
  <2>8. ErrorIsLast'
    BY <2>2, <2>3, <2>7 DEF ErrorIsLast, At, Going, GoingSteps
  <2>9. Ahead = {}
    BY <2>1, <2>2 DEF Ahead, At, Going, GoingSteps
  <2>10. Ahead' = IF p \in Eager THEN {p} ELSE {}
    BY <2>2, <2>3 DEF Ahead, At, Going, GoingSteps
  <2>11. ASSUME Fresh PROVE LogInStep'
    <3>1. Said(context) = Said(log) /\ prePersisted = {} /\ connected
      BY <2>9, <2>11 DEF SameInv, LogInStep
    <3>2. CASE p \in Eager
      <4>1. log' = Append(log, p) /\ prePersisted' = {p}
        BY <1>3, <3>1, <3>2 DEF BeginRun
      <4>2. log \in Seq(Messages) /\ p \in Messages \ Errors
        BY TypedParts, HostSaysNoErrors, KindsOfMessages DEF TextOK
      <4>3. Said(log') = Append(Said(log), p)
        BY <4>1, <4>2, SaidMore
      <4>4. Said(log') = Append(Said(context'), p)
        BY <2>7, <3>1, <4>3
      <4> QED
        BY <2>7, <2>10, <3>1, <3>2, <4>1, <4>4 DEF LogInStep
    <3>3. CASE p \notin Eager
      <4>1. UNCHANGED <<log, prePersisted>>
        BY <1>3, <3>3 DEF BeginRun
      <4>2. Said(context') = Said(log')
        BY <2>7, <3>1, <4>1
      <4> QED
        BY <2>7, <2>10, <3>1, <3>3, <4>1, <4>2 DEF LogInStep
    <3> QED
      BY <3>2, <3>3
  <2> QED
    BY <2>5, <2>6, <2>8, <2>11 DEF SameInv
<1> QED
  BY <1>1, <1>2, <1>3

\* The prompt reaches the memory, and the log if it was not written ahead.
LEMMA StartInStep ==
  ASSUME TypedInv, RunInv, BoundInv, SameInv, NEW p \in Prompts, StartAgent(p)
  PROVE  SameInv'
<1> USE CallsAreTasks
<1>1. Going(p) /\ pc[p] = "tracking"
  BY DEF StartAgent, At, Going, GoingSteps
<1>2. /\ \A q \in Prompts : q # p => ~ Readying(q) /\ ~ Going(q)
      /\ worker = Nobody /\ stage = "idle"
  BY <1>1, Alone DEF BoundInv
<1>3. pc'[p] = "agent" /\ \A t \in Tasks : t # p => pc'[t] = pc[t]
  BY <1>2 DEF StartAgent, RunInv, Goto
<1>4. \A q \in Prompts : pc[q] # "settled"
  BY <1>1 DEF SameInv, SettledAlone, At
<1>5. SettledAlone'
  BY <1>2, <1>3, <1>4 DEF SettledAlone, At
<1>6. Fresh' => Fresh
  BY <1>3 DEF Fresh, At
<1>7. Deliver(p) /\ stage' = "asking" /\ UNCHANGED connected
  BY <1>2 DEF StartAgent
<1>8. ErrorIsLast'
  BY <1>2, <1>3, <1>7 DEF ErrorIsLast, At, Going, GoingSteps
<1>9. Ahead = IF p \in Eager THEN {p} ELSE {}
  BY <1>1, <1>2 DEF Ahead, At, Going, GoingSteps
<1>10. Ahead' = {}
  BY <1>2, <1>3 DEF Ahead, At, Going, GoingSteps
<1>11. ASSUME Fresh PROVE LogInStep'
  <2>1. connected /\ prePersisted = Ahead
    BY <1>11 DEF SameInv, LogInStep
  <2>2. context \in Seq(Messages) /\ log \in Seq(Messages) /\ p \in Messages \ Errors
    BY TypedParts, HostSaysNoErrors, KindsOfMessages DEF TextOK
  <2>3. context' = Append(context, p) /\ prePersisted' = {}
    BY <1>7, <1>9, <2>1 DEF Deliver
  <2>4. Said(context') = Append(Said(context), p)
    BY <2>2, <2>3, SaidMore
  <2>5. CASE p \in Eager
    <3>1. log' = log
      BY <1>7, <1>9, <2>1, <2>5 DEF Deliver
    <3>2. Append(Said(context), p) = Said(log)
      BY <1>9, <1>11, <2>5 DEF SameInv, LogInStep
    <3>3. Said(context') = Said(log')
      BY <2>4, <3>1, <3>2
    <3> QED
      BY <1>7, <1>10, <2>1, <2>3, <3>3 DEF LogInStep
  <2>6. CASE p \notin Eager
    <3>1. log' = Append(log, p)
      BY <1>7, <1>9, <2>1, <2>6 DEF Deliver
    <3>2. Said(context) = Said(log)
      BY <1>9, <1>11, <2>6 DEF SameInv, LogInStep
    <3>3. Said(log') = Append(Said(log), p)
      BY <2>2, <3>1, SaidMore
    <3>4. Said(context') = Said(log')
      BY <2>4, <3>2, <3>3
    <3> QED
      BY <1>7, <1>10, <2>1, <2>3, <3>4 DEF LogInStep
  <2> QED
    BY <2>5, <2>6
<1> QED
  BY <1>5, <1>6, <1>8, <1>11 DEF SameInv

\* A prompt that is at work and not ahead leaves memory and log alike.
LEMMA AtWorkAlike ==
  ASSUME RunInv, SameInv, Fresh, NEW p \in Prompts, Readying(p) \/ Going(p), pc[p] # "tracking"
  PROVE  connected /\ prePersisted = {} /\ Said(context) = Said(log)
<1>1. Ahead = {}
  BY DEF RunInv, OnePrompt, Ahead, At, Going, GoingSteps
<1> QED
  BY <1>1 DEF SameInv, LogInStep

LEMMA DeliverAlike ==
  ASSUME TypedInv, connected, prePersisted = {}, Said(context) = Said(log),
         NEW m \in UserMessages, Deliver(m)
  PROVE  Said(context') = Said(log') /\ UNCHANGED prePersisted
<1>1. context \in Seq(Messages) /\ log \in Seq(Messages) /\ m \in Messages \ Errors
  BY TypedParts, HostSaysNoErrors DEF TextOK
<1>2. context' = Append(context, m) /\ log' = Append(log, m) /\ prePersisted' = {}
  BY DEF Deliver
<1>3. Said(context') = Append(Said(context), m) /\ Said(log') = Append(Said(log), m)
  BY <1>1, <1>2, SaidMore
<1> QED
  BY <1>2, <1>3

LEMMA WorkInStep ==
  ASSUME TypedInv, RunInv, BoundInv, SameInv, NEW p \in Prompts, Work(p)
  PROVE  SameInv'
<1> USE CallsAreTasks
<1>1. worker = p /\ pc[p] = "agent" /\ Going(p) /\ pc \in [Tasks -> Steps]
  BY AgentAssumption DEF Work, Reply, Poll, AgentEnd, RunInv, WorkerRuns, Going, GoingSteps
<1>2. \A q \in Prompts : q # p => ~ Readying(q) /\ ~ Going(q)
  BY <1>1, Alone DEF BoundInv
<1>3. context \in Seq(Messages) /\ log \in Seq(Messages)
  BY TypedParts DEF TextOK
<1>4. \A q \in Prompts : pc[q] # "post"
  BY <1>1, <1>2 DEF Going, GoingSteps
<1>5. CASE \E kind \in Replies : Reply(p, kind)
  <2>1. PICK kind \in Replies : Reply(p, kind)
    BY <1>5
  <2>2. UNCHANGED <<pc, connected, prePersisted>>
    BY <2>1 DEF Reply
  <2>3. CASE ~ Fresh
    BY <1>1, <2>2, <2>3, StepInStep
  <2>4. CASE Fresh /\ kind \in Errors
    <3>1. connected
      BY <1>1, <2>4, AtWorkAlike
    <3>2. PICK m \in Errors : context' = Append(context, m) /\ log' = Append(log, "error")
      BY <2>1, <2>4, <3>1 DEF Reply, Errors
    <3>3. Said(context') = Said(context) /\ Said(log') = Said(log)
      <4>1. "error" \in Errors
        BY DEF Errors
      <4> QED
        BY <1>3, <3>2, <4>1, SaidWithError
    <3>4. context' # <<>> /\ context'[Len(context')] \in Errors
      <4>1. m \in Messages
        BY KindsOfMessages DEF Replies
      <4> QED
        BY <1>3, <3>2, <4>1
    <3>5. ErrorIsLast'
      BY <3>4 DEF ErrorIsLast
    <3> QED
      BY <1>1, <2>2, <3>3, <3>5, StepInStep
  <2>5. CASE Fresh /\ kind \notin Errors
    <3>1. connected
      BY <1>1, <2>5, AtWorkAlike
    <3>2. context' = Append(context, kind) /\ log' = Append(log, kind) /\ last' = kind
      BY <2>1, <2>5, <3>1 DEF Reply, Errors
    <3>3. Said(context') = Append(Said(context), kind) /\ Said(log') = Append(Said(log), kind)
      <4>1. kind \in Messages \ Errors
        BY <2>5, KindsOfMessages
      <4> QED
        BY <1>3, <3>2, <4>1, SaidMore
    <3>4. ErrorIsLast'
      BY <2>5, <3>2 DEF ErrorIsLast
    <3> QED
      BY <1>1, <2>2, <3>3, <3>4, StepInStep
  <2> QED
    BY <2>3, <2>4, <2>5
<1>6. CASE Poll(p)
  <2>1. UNCHANGED <<pc, connected>> /\ stage' = "asking"
    BY <1>6 DEF Poll
  <2>2. ErrorIsLast'
    BY <1>4, <2>1 DEF ErrorIsLast, At
  <2>3. ASSUME Fresh
        PROVE  Said(context') = Said(log') /\ UNCHANGED prePersisted
    <3>1. connected /\ prePersisted = {} /\ Said(context) = Said(log)
      BY <1>1, <2>3, AtWorkAlike
    <3>2. CASE \E m \in queue : Deliver(m)
      <4>1. queue \subseteq UserMessages
        BY TypedParts DEF TextOK
      <4> QED
        BY <3>1, <3>2, <4>1, DeliverAlike
    <3>3. CASE UNCHANGED textVars
      BY <3>1, <3>3 DEF textVars
    <3> QED
      BY <1>6, <3>2, <3>3 DEF Poll
  <2> QED
    BY <1>1, <2>1, <2>2, <2>3, StepInStep
<1>7. CASE AgentEnd(p)
  <2>1. /\ UNCHANGED <<connected, prePersisted, context, log, last>>
        /\ stage = "broken" \/ stage = "answered"
        /\ stage' = "idle"
    BY <1>7 DEF AgentEnd, textVars, retryVars
  <2>2. pc'[p] = "post" /\ pc' \in [Tasks -> Steps] /\ \A t \in Tasks : t # p => pc'[t] = pc[t]
    BY <1>1, <1>7 DEF AgentEnd, Goto, Steps
  <2>3. ASSUME Fresh PROVE ErrorIsLast'
    <3>1. last \in Errors => stage = "broken"
      BY <2>1 DEF BoundInv, LoopCovered, Errors
    <3>2. last \in Errors => context # <<>> /\ context[Len(context)] \in Errors
      BY <2>3, <3>1 DEF SameInv, ErrorIsLast
    <3> QED
      BY <2>1, <3>2 DEF ErrorIsLast
  <2>4. Said(context) = Said(log) => Said(context') = Said(log')
    BY <2>1
  <2> QED
    BY <1>1, <2>1, <2>2, <2>3, <2>4, StepInStep
<1> QED
  BY <1>5, <1>6, <1>7 DEF Work

LEMMA CompactionInStep ==
  ASSUME TypedInv, RunInv, BoundInv, SameInv, NEW p \in Prompts, CompactionEnds(p) \/ CompactionFails(p)
  PROVE  SameInv'
<1>1. /\ UNCHANGED <<connected, prePersisted, stage>>
      /\ pc[p] \in {"precompact", "prerecover", "recover", "compact"}
  BY DEF CompactionEnds, CompactionFails, agentVars, textVars
<1>2. (Readying(p) \/ Going(p)) /\ pc[p] \notin {"agent", "tracking"}
  BY <1>1 DEF Readying, Going, Preparing, GoingSteps
<1>3. PICK s \in Steps \ {"post", "tracking"} : Goto(p, s)
  BY DEF CompactionEnds, CompactionFails, IfQueued, Steps
<1>4. Said(context) = Said(log) => Said(context') = Said(log')
  <2>1. CASE CompactionFails(p)
    BY <2>1 DEF CompactionFails, textVars
  <2>2. CASE CompactionEnds(p)
    <3>1. PICK cut \in Cuts(log) :
            /\ log' = Compacted(log, cut)
            /\ context' = IF pc[p] \in {"prerecover", "recover"} /\ LastOf(log', Messages) \in Errors
                            THEN Front(log') ELSE log'
      BY <2>2 DEF CompactionEnds
    <3> DEFINE new == Compacted(log, cut)
    <3>2. new \in Seq(Messages) /\ new # <<>>
      BY TypedParts, CompactedTyped DEF TextOK
    <3> HIDE DEF new
    <3>3. LastOf(new, Messages) \in Errors => new[Len(new)] \in Errors
      <4>1. new[Len(new)] \in Messages
        BY <3>2
      <4> QED
        BY <3>2, <4>1, LastOfLast
    <3>4. LastOf(new, Messages) \in Errors => Said(Front(new)) = Said(new)
      BY <3>2, <3>3, SaidWithoutError
    <3>5. log' = new /\ (context' = new \/ (LastOf(new, Messages) \in Errors /\ context' = Front(new)))
      BY <3>1 DEF new
    <3> QED
      BY <3>4, <3>5
  <2> QED
    BY <2>1, <2>2
<1> QED
  BY <1>1, <1>2, <1>3, <1>4, StepOutsideInStep

LEMMA PostInStep ==
  ASSUME TypedInv, RunInv, BoundInv, SameInv, NEW p \in Prompts,
         PostRetry(p) \/ PostOther(p) \/ SleepEnds(p) \/ SleepCut(p)
  PROVE  SameInv'
<1>1. Going(p) /\ pc[p] \notin {"agent", "tracking"}
  BY DEF PostRetry, PostOther, SleepEnds, SleepCut, At, Going, GoingSteps
<1>2. UNCHANGED <<connected, prePersisted, stage, log>>
  BY DEF PostRetry, PostOther, SleepEnds, SleepCut, agentVars, textVars
<1>3. PICK s \in Steps \ {"post", "tracking"} : Goto(p, s)
  BY DEF PostRetry, PostOther, SleepEnds, SleepCut, CheckCompaction, IfQueued, Steps
<1>4. At(p, "post") /\ last \in Errors /\ Fresh => context # <<>> /\ context[Len(context)] \in Errors
  BY DEF SameInv, ErrorIsLast
<1>5. context \in Seq(Messages)
  BY TypedParts DEF TextOK
<1>6. Fresh => Said(context') = Said(context)
  <2>1. CASE PostRetry(p)
    <3>1. Fresh => context # <<>> /\ context[Len(context)] \in Errors
      BY <1>4, <2>1 DEF PostRetry, Errors
    <3>2. context' = Strip(context)
      BY <2>1 DEF PostRetry
    <3> QED
      BY <1>5, <3>1, <3>2, StripSaid
  <2>2. CASE PostOther(p) /\ context' # context
    <3>1. last = "overflow" /\ context' = Strip(context)
      BY <2>2 DEF PostOther, CheckCompaction
    <3>2. Fresh => context # <<>> /\ context[Len(context)] \in Errors
      BY <1>4, <2>2, <3>1 DEF PostOther, Errors
    <3> QED
      BY <1>5, <3>1, <3>2, StripSaid
  <2>3. CASE SleepEnds(p)
    BY <2>3 DEF SleepEnds, textVars
  <2>4. CASE SleepCut(p)
    BY <2>4 DEF SleepCut, CheckCompaction
  <2> QED
    BY <2>1, <2>2, <2>3, <2>4
<1>7. Fresh => (Said(context) = Said(log) => Said(context') = Said(log'))
  BY <1>2, <1>6
<1> QED
  BY <1>1, <1>2, <1>3, <1>7, StepOutsideInStep

\* Bash results come behind both.
LEMMA FlushAlike ==
  ASSUME TypedInv, FlushBash, Said(context) = Said(log)
  PROVE  Said(context') = Said(log')
<1>1. /\ context \in Seq(Messages) /\ log \in Seq(Messages)
      /\ pendingBash \in Seq(Messages) /\ \A i \in 1..Len(pendingBash) : pendingBash[i] \notin Errors
  BY TypedParts, HostSaysNoErrors DEF TextOK
<1>2. Said(context \o pendingBash) = Said(context) \o pendingBash
  BY <1>1, SaidTogether
<1>3. Said(log \o pendingBash) = Said(log) \o pendingBash
  BY <1>1, SaidTogether
<1> QED
  BY <1>2, <1>3 DEF FlushBash

LEMMA EndInStep ==
  ASSUME TypedInv, RunInv, BoundInv, SameInv, NEW p \in Prompts,
         Continue(p) \/ Flush(p) \/ Settle(p)
  PROVE  SameInv'
<1> USE CallsAreTasks
<1>1. Going(p) /\ pc[p] \notin {"agent", "tracking", "post"} /\ pc \in [Tasks -> Steps]
  BY DEF Continue, Flush, Settle, At, Going, GoingSteps, RunInv
<1>2. /\ \A q \in Prompts : q # p => ~ Readying(q) /\ ~ Going(q)
      /\ stage = "idle"
  BY <1>1, Alone DEF BoundInv
<1>3. UNCHANGED connected
  BY DEF Continue, Flush, Settle
<1>4. CASE Flush(p)
  <2>1. Said(context) = Said(log) => Said(context') = Said(log')
    BY <1>4, FlushAlike DEF Flush
  <2>2. Goto(p, "finalizing") /\ UNCHANGED <<prePersisted, stage>>
    BY <1>4 DEF Flush, agentVars
  <2> QED
    BY <1>1, <1>3, <2>1, <2>2, StepOutsideInStep DEF Steps
<1>5. CASE Settle(p)
  <2>1. Goto(p, "settled") /\ UNCHANGED <<prePersisted, stage, context, log>>
    BY <1>5 DEF Settle, agentVars, textVars
  <2>2. Said(context) = Said(log) => Said(context') = Said(log')
    BY <2>1
  <2> QED
    BY <1>1, <1>3, <2>1, <2>2, StepOutsideInStep DEF Steps
<1>6. CASE Continue(p) /\ Refuses
  <2>1. Goto(p, "settling") /\ UNCHANGED <<prePersisted, stage, context, log>>
    BY <1>6 DEF Continue, agentVars, textVars
  <2>2. Said(context) = Said(log) => Said(context') = Said(log')
    BY <2>1
  <2> QED
    BY <1>1, <1>3, <2>1, <2>2, StepOutsideInStep DEF Steps
<1>7. CASE Continue(p) /\ ~ Refuses
  <2>1. pc'[p] = "agent" /\ pc' \in [Tasks -> Steps] /\ \A t \in Tasks : t # p => pc'[t] = pc[t]
    BY <1>1, <1>7 DEF Continue, Goto, Steps
  <2>2. stage' \in {"asking", "polling"}
    BY <1>7 DEF Continue
  <2>3. ErrorIsLast'
    BY <1>2, <2>1, <2>2 DEF ErrorIsLast, At, Going, GoingSteps
  <2>4. ASSUME Fresh
        PROVE  Said(context') = Said(log') /\ UNCHANGED prePersisted
    <3>1. connected /\ prePersisted = {} /\ Said(context) = Said(log)
      BY <1>1, <2>4, AtWorkAlike
    <3>2. CASE \E m \in queue : Deliver(m)
      <4>1. queue \subseteq UserMessages
        BY TypedParts DEF TextOK
      <4> QED
        BY <3>1, <3>2, <4>1, DeliverAlike
    <3>3. CASE UNCHANGED textVars
      BY <3>1, <3>3 DEF textVars
    <3> QED
      BY <1>7, <3>2, <3>3 DEF Continue
  <2> QED
    BY <1>1, <1>3, <2>1, <2>3, <2>4, StepInStep
<1> QED
  BY <1>4, <1>5, <1>6, <1>7

\* A step of a call that takes no prompt along.
LEMMA CallInStep ==
  ASSUME RunInv, SameInv,
         \A q \in Prompts : \/ pc'[q] = pc[q]
                            \/ /\ pc[q] \notin GoingSteps \union Preparing
                               /\ pc'[q] \notin GoingSteps \union Preparing \union {"settled"},
         \A c \in Compacts : pc'[c] = "new" => pc[c] = "new",
         UNCHANGED <<stage, last>>,
         Fresh => UNCHANGED <<connected, prePersisted, context, log>>
  PROVE  SameInv'
<1>1. SettledAlone'
  BY DEF SameInv, SettledAlone, At, Readying, Going
<1>2. Fresh' => Fresh
  BY DEF Fresh, At
<1>3. Ahead' = Ahead
  BY DEF Ahead, At, GoingSteps
<1>4. Fresh => LogInStep'
  BY <1>3 DEF SameInv, LogInStep
<1>5. \A q \in Prompts : pc'[q] = "post" => pc[q] = "post"
  BY DEF GoingSteps
<1>6. Fresh => ErrorIsLast'
  BY <1>5 DEF SameInv, ErrorIsLast, At
<1> QED
  BY <1>1, <1>2, <1>4, <1>6 DEF SameInv

\* A step of a call while no prompt is at work.
LEMMA IdleInStep ==
  ASSUME RunInv, BoundInv, SameInv, \A q \in Prompts : ~ Going(q),
         SettledAlone', \A q \in Prompts : pc'[q] \notin GoingSteps,
         \A c \in Compacts : pc'[c] = "new" => pc[c] = "new",
         UNCHANGED stage,
         Fresh => UNCHANGED <<connected, prePersisted>>,
         Fresh => (Said(context) = Said(log) => Said(context') = Said(log'))
  PROVE  SameInv'
<1>1. Fresh' => Fresh
  BY DEF Fresh, At
<1>2. Ahead = {} /\ Ahead' = {}
  BY DEF Ahead, At, Going, GoingSteps
<1>3. Fresh => LogInStep'
  BY <1>2 DEF SameInv, LogInStep
<1>4. stage = "idle"
  BY DEF RunInv, WorkerRuns, Going, GoingSteps, BoundInv, LoopCovered
<1>5. ErrorIsLast'
  BY <1>4 DEF ErrorIsLast, At, GoingSteps
<1> QED
  BY <1>1, <1>3, <1>5 DEF SameInv

LEMMA EndRunInStep ==
  ASSUME RunInv, SameInv, NEW p \in Prompts, EndRun(p)
  PROVE  SameInv'
<1> USE CallsAreTasks
<1>1. \A q \in Prompts : \/ pc'[q] = pc[q]
                         \/ /\ pc[q] \notin GoingSteps \union Preparing
                            /\ pc'[q] \notin GoingSteps \union Preparing \union {"settled"}
  BY DEF RunInv, EndRun, At, AfterWait, GoingSteps, Preparing
<1>2. \A c \in Compacts : pc'[c] = "new" => pc[c] = "new"
  BY DEF RunInv, EndRun, At, AfterWait
<1>3. UNCHANGED <<stage, last, connected, context, log>> /\ prePersisted' = {}
  BY DEF EndRun, agentVars, retryVars
<1>4. Ahead = {}
  BY DEF EndRun, SameInv, SettledAlone, Ahead, At, Going, GoingSteps
<1>5. Fresh => UNCHANGED prePersisted
  BY <1>3, <1>4 DEF SameInv, LogInStep
<1> QED
  BY <1>1, <1>2, <1>3, <1>5, CallInStep

LEMMA PromptInStep ==
  ASSUME TypedInv, RunInv, BoundInv, SameInv, {"overlap", "late"} \intersect Env = {}, NEW p \in Prompts,
         PromptWhileActive(p) \/ PromptWhileIdle(p)
  PROVE  SameInv'
<1> USE CallsAreTasks
<1>1. pc[p] = "new" /\ \A t \in Tasks : t # p => pc'[t] = pc[t]
  BY DEF PromptWhileActive, PromptWhileIdle, Sends, At, Goto, RunInv
<1>2. CASE PromptWhileActive(p)
  <2>1. pc'[p] = "done" /\ UNCHANGED <<stage, last, connected, prePersisted, context, log>>
    BY <1>2 DEF PromptWhileActive, RunInv, Goto, agentVars, retryVars
  <2>2. \A q \in Prompts : \/ pc'[q] = pc[q]
                           \/ /\ pc[q] \notin GoingSteps \union Preparing
                              /\ pc'[q] \notin GoingSteps \union Preparing \union {"settled"}
    BY <1>1, <2>1 DEF GoingSteps, Preparing
  <2>3. \A c \in Compacts : pc'[c] = "new" => pc[c] = "new"
    BY <1>1, AgentAssumption
  <2> QED
    BY <2>1, <2>2, <2>3, CallInStep
<1>3. CASE PromptWhileIdle(p)
  <2>1. /\ pc'[p] = "preflight" /\ FlushBash /\ UNCHANGED <<stage, connected, prePersisted>>
        /\ ~ active /\ ~ Busy({"settled"})
    BY <1>3 DEF PromptWhileIdle, Sends, RunInv, Goto, agentVars
  <2>2. \A q \in Prompts : ~ Going(q)
    BY <2>1 DEF RunInv, ShownRun
  <2>3. \A q \in Prompts : pc'[q] \notin GoingSteps \union {"settled"}
    <3>1. \A q \in Prompts : pc[q] # "settled"
      BY <2>1 DEF Busy
    <3> QED
      BY <1>1, <2>1, <2>2, <3>1 DEF Going, GoingSteps
  <2>4. SettledAlone'
    BY <2>3 DEF SettledAlone, At
  <2>5. \A c \in Compacts : pc'[c] = "new" => pc[c] = "new"
    BY <1>1, AgentAssumption
  <2>6. Said(context) = Said(log) => Said(context') = Said(log')
    BY <2>1, FlushAlike
  <2> QED
    BY <2>1, <2>2, <2>3, <2>4, <2>5, <2>6, IdleInStep
<1> QED
  BY <1>2, <1>3

LEMMA CallsInStep ==
  ASSUME TypedInv, RunInv, BoundInv, SameInv, {"overlap", "late"} \intersect Env = {},
         Calls \/ \E c \in Compacts : EndCompact(c)
  PROVE  SameInv'
<1> USE CallsAreTasks
<1>1. CASE \E p \in Prompts : PromptWhileActive(p) \/ PromptWhileIdle(p)
  BY <1>1, PromptInStep
<1>2. ASSUME NEW t \in Tasks \ Prompts, NEW s \in Steps \ {"new"}, Goto(t, s)
      PROVE  /\ \A q \in Prompts : pc'[q] = pc[q]
             /\ \A c \in Compacts : pc'[c] = "new" => pc[c] = "new"
             /\ t \in Compacts => ~ Fresh'
  BY <1>2 DEF RunInv, Goto, Fresh, At
<1>3. CASE \E m \in Steers : Steer(m)
  <2>1. PICK m \in Steers : Steer(m)
    BY <1>3
  <2>2. Goto(m, "done") /\ UNCHANGED <<stage, last, connected, prePersisted, context, log>>
    BY <2>1 DEF Steer, agentVars, textVars, retryVars
  <2> QED
    BY <1>2, <2>2, CallInStep DEF Steps
<1>4. CASE \E b \in Shells : RecordBash(b)
  <2>1. PICK b \in Shells : RecordBash(b)
    BY <1>4
  <2>2. Goto(b, "done") /\ UNCHANGED <<stage, last, connected, prePersisted>>
    BY <2>1 DEF RecordBash, agentVars, retryVars
  <2>3. CASE active
    <3>1. UNCHANGED <<context, log>>
      BY <2>1, <2>3 DEF RecordBash
    <3> QED
      BY <1>2, <2>2, <3>1, CallInStep DEF Steps
  <2>4. CASE ~ active
    <3>1. \A q \in Prompts : pc'[q] = pc[q] /\ ~ Going(q)
      BY <1>2, <2>2, <2>4 DEF Steps, RunInv, ShownRun
    <3>2. SettledAlone'
      BY <3>1 DEF SameInv, SettledAlone, At, Readying, Going
    <3>3. \A q \in Prompts : pc'[q] \notin GoingSteps
      BY <3>1 DEF Going
    <3>4. context' = Append(context, b) /\ log' = Append(log, b)
      BY <2>1, <2>4 DEF RecordBash
    <3>5. context \in Seq(Messages) /\ log \in Seq(Messages) /\ b \in Messages \ Errors
      BY TypedParts, HostSaysNoErrors DEF TextOK
    <3>6. Said(context') = Append(Said(context), b) /\ Said(log') = Append(Said(log), b)
      BY <3>4, <3>5, SaidMore
    <3>7. Said(context) = Said(log) => Said(context') = Said(log')
      BY <3>6
    <3>8. \A c \in Compacts : pc'[c] = "new" => pc[c] = "new"
      BY <1>2, <2>2 DEF Steps
    <3> QED
      BY <2>2, <3>1, <3>2, <3>3, <3>7, <3>8, IdleInStep
  <2> QED
    BY <2>3, <2>4
<1>5. CASE \E a \in Aborts : Abort(a)
  <2>1. PICK a \in Aborts : Abort(a)
    BY <1>5
  <2>2. PICK s \in Steps \ {"new"} : Goto(a, s)
    BY <2>1 DEF Abort, AbortRun, AfterWait, Steps
  <2>3. UNCHANGED <<stage, last, connected, prePersisted, context, log>>
    BY <2>1 DEF Abort, AbortRun, textVars
  <2> QED
    BY <1>2, <2>2, <2>3, CallInStep
<1>6. CASE \E c \in Compacts : Compact(c) \/ EndCompact(c)
  <2>1. PICK c \in Compacts : Compact(c) \/ EndCompact(c)
    BY <1>6
  <2>2. PICK s \in Steps \ {"new"} : Goto(c, s)
    BY <2>1 DEF Compact, AbortRun, AfterWait, EndCompact, Steps
  <2>3. \A q \in Prompts : pc'[q] = pc[q]
    BY <1>2, <2>2
  <2>4. SettledAlone'
    BY <2>3 DEF SameInv, SettledAlone, At, Readying, Going
  <2>5. ~ Fresh'
    BY <1>2, <2>2
  <2> QED
    BY <2>4, <2>5 DEF SameInv
<1>7. CASE \E k \in Cancels : AbortRetry(k)
  <2>1. PICK k \in Cancels : AbortRetry(k)
    BY <1>7
  <2>2. Goto(k, "done") /\ UNCHANGED <<stage, last, connected, prePersisted, context, log>>
    BY <2>1 DEF AbortRetry, agentVars, textVars
  <2> QED
    BY <1>2, <2>2, CallInStep DEF Steps
<1> QED
  BY <1>1, <1>3, <1>4, <1>5, <1>6, <1>7 DEF Calls

LEMMA SameInit == Init => SameInv
<1> SUFFICES ASSUME Init PROVE SameInv
  OBVIOUS
<1> USE CallsAreTasks
<1>1. \A p \in Prompts : pc[p] = "new"
  BY DEF Init
<1>2. stage = "idle" /\ last = "none" /\ connected /\ prePersisted = {} /\ context = <<>> /\ log = <<>>
  BY DEF Init
<1>3. SettledAlone
  BY <1>1 DEF SettledAlone, At
<1>4. Ahead = {}
  BY <1>1 DEF Ahead, At
<1>5. LogInStep
  BY <1>2, <1>4 DEF LogInStep
<1>6. ErrorIsLast
  BY <1>2 DEF ErrorIsLast, Errors
<1> QED
  BY <1>3, <1>5, <1>6 DEF SameInv

LEMMA SameNext ==
  ASSUME {"overlap", "late"} \intersect Env = {}
  PROVE  TypedInv /\ RunInv /\ BoundInv /\ SameInv /\ [Next]_vars => SameInv'
<1> SUFFICES ASSUME TypedInv, RunInv, BoundInv, SameInv, [Next]_vars PROVE SameInv'
  OBVIOUS
<1>1. CASE \E p \in Prompts : Prepare(p)
  BY <1>1, PrepareInStep, StartInStep DEF Prepare
<1>2. CASE \E p \in Prompts : Work(p)
  BY <1>2, WorkInStep
<1>3. CASE \E p \in Prompts : Post(p) \/ Urgent(p)
  BY <1>3, PostInStep, CompactionInStep, EndInStep, EndRunInStep DEF Post, Urgent
<1>4. CASE Calls \/ \E c \in Compacts : EndCompact(c)
  BY <1>4, CallsInStep
<1>5. CASE Title \/ UNCHANGED vars
  <2>1. UNCHANGED <<pc, stage, last, connected, prePersisted, context, log>>
    BY <1>5 DEF Title, vars, agentVars, textVars, retryVars
  <2> QED
    BY <2>1, CallInStep
<1> QED
  BY <1>1, <1>2, <1>3, <1>4, <1>5 DEF Next

-----------------------------------------------------------------------------
(* What waits in memory to be saved. *)

\* Where a prompt can only be after a reply.
Replied == {"precompact", "prerecover", "post", "sleep", "recover", "compact", "continue"}

\* Until the session is saved, it has bash results only, but for the messages of a run the
\* model has not answered yet.
Unanswered ==
  /\ stage = "asking" \/ (stage = "idle" /\ OnlyShells(context))
  /\ \A p \in Prompts : pc[p] \notin Replied

UnsavedInv == Fresh /\ saved # "yes" => Unanswered

LEMMA SavedForGood ==
  ASSUME [Next]_vars, saved' # "yes"
  PROVE  saved # "yes"
<1> USE DEF textVars
<1>1. CASE \E p \in Prompts : Urgent(p)
  BY <1>1 DEF Urgent, Continue, Flush, Deliver
<1>2. CASE Calls
  BY <1>2 DEF Calls, PromptWhileActive, PromptWhileIdle, AskForTitle, Steer, RecordBash, Abort,
              Compact, AbortRun, AbortRetry
<1>3. CASE Title \/ \E c \in Compacts : EndCompact(c)
  BY <1>3 DEF Title, EndCompact
<1>4. CASE \E p \in Prompts : Prepare(p)
  BY <1>4 DEF Prepare, PreCheck, RefusePrompt, BeginRun, StartAgent, Deliver
<1>5. CASE \E p \in Prompts : Work(p)
  BY <1>5 DEF Work, Reply, Poll, AgentEnd, Deliver
<1>6. CASE \E p \in Prompts : Post(p)
  BY <1>6 DEF Post, PostRetry, PostOther, SleepEnds, SleepCut, CompactionEnds, CompactionFails, Settle,
              EndRun
<1>7. CASE UNCHANGED vars
  BY <1>7 DEF vars
<1> QED
  BY <1>1, <1>2, <1>3, <1>4, <1>5, <1>6, <1>7 DEF Next

\* No call of compact() is taken back.
LEMMA CompactOnce ==
  ASSUME RunInv, [Next]_vars, Fresh'
  PROVE  Fresh
<1> USE CallsAreTasks
<1> SUFFICES ASSUME NEW c \in Compacts, pc[c] # "new", pc'[c] = "new" PROVE FALSE
  BY DEF Fresh, At
<1>1. pc \in [Tasks -> Steps] /\ c \in Tasks
  BY DEF RunInv
<1>2. ASSUME NEW t \in Tasks, NEW s \in Steps \ {"new"}, Goto(t, s)
      PROVE  FALSE
  BY <1>1, <1>2 DEF Goto
<1>3. ASSUME NEW p \in Prompts, Urgent(p) \/ Prepare(p)
      PROVE  FALSE
  <2>1. PICK s \in Steps \ {"new"} : Goto(p, s)
    BY <1>3 DEF Urgent, Continue, Flush, Prepare, PreCheck, CheckCompaction, RefusePrompt, BeginRun,
                StartAgent, Steps
  <2> QED
    BY <1>2, <2>1
<1>4. ASSUME NEW p \in Prompts, Work(p)
      PROVE  FALSE
  <2>1. UNCHANGED pc \/ Goto(p, "post")
    BY <1>4 DEF Work, Reply, Poll, AgentEnd
  <2> QED
    BY <1>2, <2>1 DEF Steps
<1>5. ASSUME NEW p \in Prompts, Post(p)
      PROVE  FALSE
  <2>1. CASE EndRun(p)
    BY <1>1, <2>1 DEF EndRun, At, AfterWait
  <2>2. CASE ~ EndRun(p)
    <3>1. PICK s \in Steps \ {"new"} : Goto(p, s)
      BY <1>5, <2>2 DEF Post, PostRetry, PostOther, SleepEnds, SleepCut, CheckCompaction, IfQueued,
                        CompactionEnds, CompactionFails, Settle, Steps
    <3> QED
      BY <1>2, <3>1
  <2> QED
    BY <2>1, <2>2
<1>6. ASSUME Calls \/ \E d \in Compacts : EndCompact(d)
      PROVE  FALSE
  <2>1. PICK t \in Tasks, s \in Steps \ {"new"} : Goto(t, s)
    BY <1>6 DEF Calls, PromptWhileActive, PromptWhileIdle, Steer, RecordBash, Abort, Compact, AbortRun,
                AfterWait, AbortRetry, EndCompact, Steps
  <2> QED
    BY <1>2, <2>1
<1>7. CASE Title \/ UNCHANGED vars
  BY <1>7 DEF Title, vars
<1> QED
  BY <1>3, <1>4, <1>5, <1>6, <1>7 DEF Next

LEMMA ShellsOnly ==
  ASSUME TypedInv, OnlyShells(context)
  PROVE  LastOf(context, Replies) = "none"
BY MessageAssumption DEF OnlyShells, LastOf

\* Bash results come behind bash results.
LEMMA FlushAddsShells ==
  ASSUME TypedInv, FlushBash, OnlyShells(context)
  PROVE  OnlyShells(context')
<1>1. context \in Seq(Messages) /\ pendingBash \in Seq(Shells)
  BY TypedParts DEF TextOK
<1>2. context \in Seq(Shells)
  BY <1>1 DEF OnlyShells
<1>3. context \o pendingBash \in Seq(Shells)
  BY <1>1, <1>2
<1> QED
  BY <1>3 DEF FlushBash, OnlyShells

\* A step that neither asks the model nor takes anything but a bash result in.
LEMMA StaysUnanswered ==
  ASSUME RunInv, Unanswered, NEW t \in Tasks, NEW s \in Steps \ Replied, Goto(t, s),
         UNCHANGED stage, OnlyShells(context) => OnlyShells(context')
  PROVE  Unanswered'
<1>1. \A p \in Prompts : pc'[p] \in {pc[p], s}
  BY CallsAreTasks DEF RunInv, Goto
<1> QED
  BY <1>1 DEF Unanswered

LEMMA RunStaysUnanswered ==
  ASSUME TypedInv, RunInv, BoundInv, SameInv, Fresh, Unanswered, saved' # "yes", NEW p \in Prompts,
         Urgent(p) \/ Prepare(p) \/ Work(p) \/ Post(p)
  PROVE  Unanswered'
<1> USE CallsAreTasks
<1>1. pc[p] \notin Replied /\ stage \in {"asking", "idle"}
  BY DEF Unanswered
<1>2. CASE PreCheck(p)
  <2>1. Readying(p) /\ pc[p] # "agent"
    BY <1>2 DEF PreCheck, At, Readying, Preparing
  <2>2. stage = "idle"
    BY <2>1, Alone DEF BoundInv
  <2>3. LastOf(context, Replies) = "none"
    BY <2>2, ShellsOnly DEF Unanswered
  <2>4. "none" \notin Errors \union {"aborted", "overflow"} /\ ~ OverThreshold("none")
    BY DEF OverThreshold, Errors
  <2>5. Goto(p, "hooks") /\ UNCHANGED <<context, stage>>
    BY <1>2, <2>3, <2>4 DEF PreCheck, CheckCompaction, agentVars
  <2> QED
    BY <2>5, StaysUnanswered DEF Steps, Replied
<1>3. CASE RefusePrompt(p)
  BY <1>3, StaysUnanswered DEF RefusePrompt, agentVars, textVars, Steps, Replied
<1>4. CASE BeginRun(p)
  BY <1>4, StaysUnanswered DEF BeginRun, agentVars, Steps, Replied
<1>5. CASE StartAgent(p) /\ worker # Nobody
  BY <1>5, StaysUnanswered DEF StartAgent, agentVars, textVars, Steps, Replied
<1>6. CASE StartAgent(p) /\ worker = Nobody
  <2>1. stage' = "asking" /\ \A q \in Prompts : pc'[q] \in {pc[q], "agent"}
    BY <1>6 DEF StartAgent, Goto, RunInv
  <2> QED
    BY <2>1 DEF Unanswered, Replied
<1>7. CASE Work(p)
  <2>1. connected
    BY DEF SameInv, LogInStep
  <2>2. stage = "asking"
    BY <1>1, <1>7 DEF Work, Reply, Poll, AgentEnd
  <2>3. PICK kind \in Replies : Reply(p, kind)
    BY <1>7, <2>2 DEF Work, Poll, AgentEnd
  <2> QED
    BY <2>1, <2>3 DEF Reply
<1>8. CASE Continue(p)
  BY <1>1, <1>8 DEF Continue, At, Replied
<1>9. CASE Flush(p)
  BY <1>9, FlushAddsShells, StaysUnanswered DEF Flush, agentVars, Steps, Replied
<1>10. CASE Settle(p)
  BY <1>10, StaysUnanswered DEF Settle, agentVars, textVars, Steps, Replied
<1>11. CASE EndRun(p)
  <2>1. UNCHANGED <<context, stage>>
    BY <1>11 DEF EndRun, agentVars
  <2>2. \A q \in Prompts : pc'[q] \in {pc[q], "done", "compacting"}
    BY <1>11 DEF EndRun, AfterWait
  <2> QED
    BY <2>1, <2>2 DEF Unanswered, Replied
<1>12. CASE PostRetry(p) \/ PostOther(p) \/ SleepEnds(p) \/ SleepCut(p)
  BY <1>1, <1>12 DEF PostRetry, PostOther, SleepEnds, SleepCut, At, Replied
<1>13. CASE CompactionEnds(p) \/ CompactionFails(p)
  BY <1>1, <1>13 DEF CompactionEnds, CompactionFails, Replied
<1> QED
  BY <1>2, <1>3, <1>4, <1>5, <1>6, <1>7, <1>8, <1>9, <1>10, <1>11, <1>12, <1>13
  DEF Urgent, Prepare, Post

LEMMA CallsStayUnanswered ==
  ASSUME TypedInv, RunInv, Fresh, Unanswered, Calls \/ \E c \in Compacts : EndCompact(c)
  PROVE  Unanswered'
<1> USE CallsAreTasks
<1>1. CASE \E p \in Prompts : PromptWhileActive(p)
  BY <1>1, StaysUnanswered DEF PromptWhileActive, agentVars, Steps, Replied
<1>2. CASE \E p \in Prompts : PromptWhileIdle(p)
  BY <1>2, FlushAddsShells, StaysUnanswered DEF PromptWhileIdle, agentVars, Steps, Replied
<1>3. CASE \E m \in Steers : Steer(m)
  BY <1>3, StaysUnanswered DEF Steer, agentVars, textVars, Steps, Replied
<1>4. CASE \E b \in Shells : RecordBash(b)
  <2>1. PICK b \in Shells : RecordBash(b)
    BY <1>4
  <2>2. ASSUME OnlyShells(context) PROVE OnlyShells(context')
    <3>1. context \in Seq(Shells)
      BY <2>2, TypedParts DEF TextOK, OnlyShells
    <3>2. Append(context, b) \in Seq(Shells)
      BY <3>1
    <3>3. context' \in Seq(Shells)
      BY <2>1, <3>1, <3>2 DEF RecordBash
    <3> QED
      BY <3>3 DEF OnlyShells
  <2> QED
    BY <2>1, <2>2, StaysUnanswered DEF RecordBash, agentVars, Steps, Replied
<1>5. CASE \E a \in Aborts : Abort(a)
  <2>1. PICK a \in Aborts : Abort(a)
    BY <1>5
  <2>2. PICK s \in Steps \ Replied : Goto(a, s)
    BY <2>1 DEF Abort, AbortRun, AfterWait, Steps, Replied
  <2>3. UNCHANGED <<stage, context>>
    BY <2>1 DEF Abort, AbortRun, textVars
  <2> QED
    BY <2>2, <2>3, StaysUnanswered
<1>6. CASE \E c \in Compacts : Compact(c)
  <2>1. PICK c \in Compacts : Compact(c)
    BY <1>6
  <2>2. PICK s \in Steps \ Replied : Goto(c, s)
    BY <2>1 DEF Compact, AbortRun, AfterWait, Steps, Replied
  <2>3. UNCHANGED <<stage, context>>
    BY <2>1 DEF Compact, AbortRun, textVars
  <2> QED
    BY <2>2, <2>3, StaysUnanswered
<1>7. CASE \E k \in Cancels : AbortRetry(k)
  BY <1>7, StaysUnanswered DEF AbortRetry, agentVars, textVars, Steps, Replied
<1>8. CASE \E c \in Compacts : EndCompact(c)
  BY <1>8 DEF EndCompact, At, Fresh
<1> QED
  BY <1>1, <1>2, <1>3, <1>4, <1>5, <1>6, <1>7, <1>8 DEF Calls

LEMMA UnsavedNext ==
  TypedInv /\ RunInv /\ BoundInv /\ SameInv /\ UnsavedInv /\ [Next]_vars => UnsavedInv'
<1> SUFFICES ASSUME TypedInv, RunInv, BoundInv, SameInv, UnsavedInv, [Next]_vars,
                    Fresh', saved' # "yes"
             PROVE  Unanswered'
  BY DEF UnsavedInv
<1>1. Fresh /\ saved # "yes" /\ Unanswered
  BY CompactOnce, SavedForGood DEF UnsavedInv
<1>2. CASE \E p \in Prompts : Urgent(p) \/ Prepare(p) \/ Work(p) \/ Post(p)
  BY <1>1, <1>2, RunStaysUnanswered
<1>3. CASE Calls \/ \E c \in Compacts : EndCompact(c)
  BY <1>1, <1>3, CallsStayUnanswered
<1>4. CASE Title
  BY <1>4 DEF Title
<1>5. CASE UNCHANGED vars
  BY <1>1, <1>5 DEF vars, agentVars, textVars, Unanswered
<1> QED
  BY <1>2, <1>3, <1>4, <1>5 DEF Next

LEMMA UnsavedInit == Init => UnsavedInv
BY CallsAreTasks DEF Init, UnsavedInv, Unanswered, OnlyShells, Replied

\* Whatever is queued, retried, compacted on the way, aborted or written ahead: once a run is
\* over, the session file says what the memory says, and a restart would go on with the same
\* conversation (SameAfterRestart); only bash results that came before the first prompt was
\* answered can be in memory alone, in a session that has not been saved yet. For a host that
\* waits for its responses and for the agent_settled event.
THEOREM FileSaysTheSame ==
  ASSUME {"overlap", "late"} \intersect Env = {}
  PROVE  Spec => []SameAfterRestart
<1> DEFINE IInv == TypedInv /\ RunInv /\ BoundInv /\ SameInv /\ UnsavedInv
<1>0. "overlap" \notin Env
  OBVIOUS
<1>1. IInv /\ [Next]_vars => IInv'
  BY <1>0, TypedNext, RunInvInductive, BoundNext, SameNext, UnsavedNext
<1>2. Init => IInv
  BY TypedInit, RunInvInit, BoundInit, SameInit, UnsavedInit
<1>3. IInv => SameAfterRestart
  <2> SUFFICES ASSUME RunInv, BoundInv, SameInv, UnsavedInv, ~ active, Fresh
               PROVE  Said(context) = Said(OnDisk) \/ (saved # "yes" /\ OnlyShells(context))
    BY DEF SameAfterRestart, Fresh
  <2>1. \A p \in Prompts : ~ Going(p)
    BY DEF RunInv, ShownRun
  <2>2. CASE saved = "yes"
    <3>1. Ahead = {}
      BY <2>1 DEF Ahead, At, Going, GoingSteps
    <3> QED
      BY <2>2, <3>1 DEF SameInv, LogInStep, OnDisk
  <2>3. CASE saved # "yes"
    <3>1. stage = "idle"
      BY <2>1 DEF RunInv, WorkerRuns, Going, GoingSteps, BoundInv, LoopCovered
    <3> QED
      BY <2>3, <3>1 DEF UnsavedInv, Unanswered
  <2> QED
    BY <2>2, <2>3
<1> QED
  BY <1>1, <1>2, <1>3, PTL DEF Spec

=============================================================================
