------------------------- MODULE FileMutationQueue --------------------------
(***************************************************************************)
(* The queue through which the write and edit tools of gitpilot-cli change *)
(* files (core/tools/file-mutation-queue.ts, tools/write.ts, tools/edit.ts).*)
(* The tool calls of one assistant message run in parallel; calls on the   *)
(* same file must run one after the other, in the order of the calls.      *)
(*                                                                         *)
(* A call registers first: registrations run one at a time (the promise    *)
(* chain registrationQueue), each looks the real path of its file up and   *)
(* then appends itself to the chain of that key in the map                 *)
(* fileMutationQueues.  It runs when the chain before it has resolved, and *)
(* takes its key out of the map if it is still the last of its chain.      *)
(***************************************************************************)
EXTENDS Naturals

CONSTANTS
  Calls,        \* tool calls
  Paths,        \* resolved absolute paths
  Canon,        \* [Paths -> Paths]: the real path of the file a path leads to
  PathOf,       \* [Calls -> Paths]
  ToolOf,       \* [Calls -> {"write", "edit"}]
  Existing,     \* real paths of the files that exist from the beginning
  NoPath, NoCall

Files == {Canon[p] : p \in Paths}

ASSUME CallsAssumption ==
  /\ PathOf \in [Calls -> Paths]
  /\ ToolOf \in [Calls -> {"write", "edit"}]
  /\ NoCall \notin Calls
  /\ NoPath \notin Paths

ASSUME CanonAssumption ==
  /\ Canon \in [Paths -> Paths]
  /\ \A p \in Paths : Canon[Canon[p]] = Canon[p]
  /\ Existing \subseteq Files

(***************************************************************************)
(* realpath fails for a missing file, and the key is then the path as it   *)
(* was written.  The queue is per file only if whatever is reached through *)
(* a link exists beforehand: a file that is missing below a linked         *)
(* directory has the key of its path as written and, once it is created,   *)
(* that of its real path, so two paths of it have two queues, and so has   *)
(* one and the same path over time.  Not an assumption of the module; the  *)
(* claims about files hold under it.                                       *)
(***************************************************************************)
LinksLeadToFiles == \A p \in Paths : Canon[p] # p => Canon[p] \in Existing

\* The content of a file that does not exist.
Missing == {NoCall}

FileOf == [c \in Calls |-> Canon[PathOf[c]]]

VARIABLES
  pc,           \* where each call is
  clock,        \* number of calls made
  ticket,       \* the order of the calls
  key,          \* the queue key each call has found
  before,       \* currentQueue: the call whose chain each call waits for
  tail,         \* fileMutationQueues: the last call of each key's chain
  content,      \* what the files hold: the calls whose text is in them
  base          \* the content an edit has read

vars == <<pc, clock, ticket, key, before, tail, content, base>>

\* "done" has changed the file, "gaveUp" has not; "failed" never got a place in the queue.
Ended == {"done", "gaveUp", "failed"}
Stages == {"new", "queued", "keyed", "waiting", "running", "loaded", "stored"} \union Ended

\* In fileMutationQueues' chains, and past currentQueue.
Live(c) == pc[c] \in {"waiting", "running", "loaded", "stored"}
Active(c) == pc[c] \in {"running", "loaded", "stored"}
Registering(c) == pc[c] \in {"queued", "keyed"}

TypeOK ==
  /\ pc \in [Calls -> Stages]
  /\ clock \in Nat
  /\ ticket \in [Calls -> Nat]
  /\ key \in [Calls -> Paths \union {NoPath}]
  /\ before \in [Calls -> Calls \union {NoCall}]
  /\ tail \in [Paths -> Calls \union {NoCall}]
  /\ content \in [Files -> (SUBSET Calls) \union {Missing}]
  /\ base \in [Calls -> (SUBSET Calls) \union {Missing}]

Init ==
  /\ pc = [c \in Calls |-> "new"]
  /\ clock = 0
  /\ ticket = [c \in Calls |-> 0]
  /\ key = [c \in Calls |-> NoPath]
  /\ before = [c \in Calls |-> NoCall]
  /\ tail = [p \in Paths |-> NoCall]
  /\ content = [f \in Files |-> IF f \in Existing THEN {} ELSE Missing]
  /\ base = [c \in Calls |-> Missing]

-----------------------------------------------------------------------------
(* Registration. *)

\* withFileMutationQueue is entered: the registration goes to the end of registrationQueue.
Call(c) ==
  /\ pc[c] = "new"
  /\ pc' = [pc EXCEPT ![c] = "queued"]
  /\ clock' = clock + 1
  /\ ticket' = [ticket EXCEPT ![c] = clock + 1]
  /\ UNCHANGED <<key, before, tail, content, base>>

\* Mutants of FirstToRegister: registrations do not wait for one another; a failed one is
\* never passed.
AnyMayRegister(c) == pc[c] # "new"
FailureBlocks(c) ==
  \A d \in Calls : Registering(d) \/ pc[d] = "failed" => ticket[c] <= ticket[d]

\* The registrations before this one have settled.
FirstToRegister(c) ==
  \A d \in Calls : Registering(d) => ticket[c] <= ticket[d]

\* Mutant of KeyOf: the path is not resolved.
KeyAsWritten(p) == p

\* getMutationQueueKey.
KeyOf(p) == IF content[Canon[p]] # Missing THEN Canon[p] ELSE p

\* realpath has answered.
FindKey(c) ==
  /\ pc[c] = "queued"
  /\ FirstToRegister(c)
  /\ pc' = [pc EXCEPT ![c] = "keyed"]
  /\ key' = [key EXCEPT ![c] = KeyOf(PathOf[c])]
  /\ UNCHANGED <<clock, ticket, before, tail, content, base>>

\* realpath has failed for another reason than a missing file: the call fails, and the
\* next registration goes on.
RejectKey(c) ==
  /\ pc[c] = "queued"
  /\ FirstToRegister(c)
  /\ pc' = [pc EXCEPT ![c] = "failed"]
  /\ UNCHANGED <<clock, ticket, key, before, tail, content, base>>

\* The call becomes the last of its key's chain.
Register(c) ==
  /\ pc[c] = "keyed"
  /\ pc' = [pc EXCEPT ![c] = "waiting"]
  /\ before' = [before EXCEPT ![c] = tail[key[c]]]
  /\ tail' = [tail EXCEPT ![key[c]] = c]
  /\ UNCHANGED <<clock, ticket, key, content, base>>

-----------------------------------------------------------------------------
(* The mutation itself. *)

\* Mutant of Released: only a call that has not begun is waited for.
ReleasedEarly(c) == before[c] # NoCall => pc[before[c]] # "waiting"

\* currentQueue has resolved.
Released(c) == before[c] # NoCall => pc[before[c]] \in Ended

Start(c) ==
  /\ pc[c] = "waiting"
  /\ Released(c)
  /\ pc' = [pc EXCEPT ![c] = "running"]
  /\ UNCHANGED <<clock, ticket, key, before, tail, content, base>>

\* Mutant of Load: an edit goes ahead without its file.
LoadUnchecked(c) ==
  /\ pc[c] = "running"
  /\ pc' = [pc EXCEPT ![c] = "loaded"]
  /\ base' = [base EXCEPT ![c] = content[FileOf[c]]]
  /\ UNCHANGED <<clock, ticket, key, before, tail, content>>

\* edit: access and readFile; write: mkdir.
Load(c) ==
  /\ pc[c] = "running"
  /\ ToolOf[c] = "edit" => content[FileOf[c]] # Missing
  /\ pc' = [pc EXCEPT ![c] = "loaded"]
  /\ base' = [base EXCEPT ![c] = content[FileOf[c]]]
  /\ UNCHANGED <<clock, ticket, key, before, tail, content>>

\* writeFile: a write puts its own text there, an edit what it has read and its own.
Store(c) ==
  /\ pc[c] = "loaded"
  /\ pc' = [pc EXCEPT ![c] = "stored"]
  /\ content' = [content EXCEPT ![FileOf[c]] =
                   IF ToolOf[c] = "write" THEN {c} ELSE base[c] \union {c}]
  /\ UNCHANGED <<clock, ticket, key, before, tail, base>>

\* Mutant of Finish: the key is taken out whoever is last in its chain.
FinishForgets(c) ==
  /\ Active(c)
  /\ pc' = [pc EXCEPT ![c] = IF pc[c] = "stored" THEN "done" ELSE "gaveUp"]
  /\ tail' = [tail EXCEPT ![key[c]] = NoCall]
  /\ UNCHANGED <<clock, ticket, key, before, content, base>>

\* fn has settled, with a result or with an error: the abort checks after each await, a
\* missing file, a text that does not match and any I/O error end it early.
Finish(c) ==
  /\ Active(c)
  /\ pc' = [pc EXCEPT ![c] = IF pc[c] = "stored" THEN "done" ELSE "gaveUp"]
  /\ tail' = IF tail[key[c]] = c THEN [tail EXCEPT ![key[c]] = NoCall] ELSE tail
  /\ UNCHANGED <<clock, ticket, key, before, content, base>>

-----------------------------------------------------------------------------
Step(c) == Load(c) \/ Store(c) \/ Finish(c)

Next ==
  \E c \in Calls : \/ Call(c) \/ FindKey(c) \/ RejectKey(c) \/ Register(c)
                   \/ Start(c) \/ Load(c) \/ Store(c) \/ Finish(c)

\* Promises are run and file system calls answer; nobody has to make a call.
Fairness ==
  \A c \in Calls : /\ WF_vars(FindKey(c) \/ RejectKey(c))
                   /\ WF_vars(Register(c))
                   /\ WF_vars(Start(c))
                   /\ WF_vars(Step(c))

Spec == Init /\ [][Next]_vars

FairSpec == Spec /\ Fairness

-----------------------------------------------------------------------------
(* Properties. *)

\* Two calls are never between the read and the write of the same file, whichever path
\* each of them was given (lines 27-30: "Serialize file mutation operations targeting the
\* same file"), if LinksLeadToFiles.
OneMutator ==
  \A c, d \in Calls : c # d /\ FileOf[c] = FileOf[d] => ~(Active(c) /\ Active(d))

\* Calls on one file run in the order they were made: a later call does not start before
\* an earlier one has ended, however their path look-ups and failures fall.  As the others
\* about files it takes LinksLeadToFiles.
InCallOrder ==
  \A c, d \in Calls :
    /\ FileOf[c] = FileOf[d]
    /\ 0 < ticket[c] /\ ticket[c] < ticket[d]
    /\ Active(d) \/ pc[d] \in {"done", "gaveUp"}
    => pc[c] \in Ended

\* The map holds the chains of calls that are still at work and no other (lines 55-57),
\* and never loses one: a key without an entry has no call of its own at work.
QueuesForgotten ==
  \A p \in Paths :
    /\ tail[p] # NoCall => Live(tail[p]) /\ key[tail[p]] = p
    /\ tail[p] = NoCall => \A c \in Calls : Live(c) => key[c] # p

\* The tools change files atomically: what an edit writes is what the file held when it
\* is written, and its own change.
Atomic == INSTANCE AtomicFiles
  WITH applied <- {c \in Calls : pc[c] \in {"stored", "done"}}

AtomicChanges == Atomic!Spec

\* Every call comes to an end, whatever happens to the calls before it in its queue or in
\* the registration queue (lines 48-51: a failed registration does not stop the next).
EveryCallEnds == \A c \in Calls : pc[c] = "queued" ~> pc[c] \in Ended
=============================================================================
