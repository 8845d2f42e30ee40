---------------------------- MODULE TaskLifecycle ----------------------------
(***************************************************************************)
(* What the execution centre promises about the work on one task: it is    *)
(* submitted, one thread at a time works on it, each submission is worth   *)
(* one run at most, and it is submitted again only when the last           *)
(* submission is used up and nobody works on it.  A thread that is done    *)
(* may still have bookkeeping to do; when that fails it takes the task     *)
(* once more, to say so, unless someone else has got it.                   *)
(***************************************************************************)
EXTENDS Naturals

CONSTANT Workers  \* the executor threads

VARIABLES
  due,        \* the last submission may still become a run
  working,    \* the threads that work on the task
  tailing,    \* the threads that have ended their work and not left
  runs,       \* how many runs the task has
  submitted   \* how often it was submitted

vars == <<due, working, tailing, runs, submitted>>

Init ==
  /\ due = TRUE
  /\ working = {}
  /\ tailing = {}
  /\ runs = 0
  /\ submitted = 1

Claim(w) ==
  /\ due
  /\ working = {}
  /\ w \notin tailing
  /\ working' = {w}
  /\ UNCHANGED <<due, tailing, runs, submitted>>

(* The submission is used up by the run it becomes. *)
Begin(w) ==
  /\ due
  /\ working = {w}
  /\ due' = FALSE
  /\ runs' = runs + 1
  /\ UNCHANGED <<working, tailing, submitted>>

(* Finished, failed, canceled or dead: whether or not a run was begun, the  *)
(* submission is not worth another one.                                     *)
End(w) ==
  /\ working = {w}
  /\ working' = {}
  /\ due' = FALSE
  /\ tailing' \in {tailing, tailing \cup {w}}
  /\ UNCHANGED <<runs, submitted>>

(* The submission is canceled, or given up, before anyone works on it. *)
GiveUp ==
  /\ due
  /\ working = {}
  /\ due' = FALSE
  /\ UNCHANGED <<working, tailing, runs, submitted>>

Resubmit ==
  /\ ~due
  /\ working = {}
  /\ due' = TRUE
  /\ submitted' = submitted + 1
  /\ UNCHANGED <<working, tailing, runs>>

Reopen(w) ==
  /\ w \in tailing
  /\ ~due
  /\ working = {}
  /\ working' = {w}
  /\ tailing' = tailing \ {w}
  /\ UNCHANGED <<due, runs, submitted>>

Leave(w) ==
  /\ w \in tailing
  /\ tailing' = tailing \ {w}
  /\ UNCHANGED <<due, working, runs, submitted>>

Next ==
  \/ \E w \in Workers : Claim(w) \/ Begin(w) \/ End(w) \/ Reopen(w) \/ Leave(w)
  \/ GiveUp
  \/ Resubmit

Spec == Init /\ [][Next]_vars
=============================================================================
