----------------------------- MODULE AtomicFiles -----------------------------
(***************************************************************************)
(* What the write and edit tools of the command line agent promise about   *)
(* the files they change: every call changes its file at most once and in  *)
(* one step, a write replacing what is there, an edit adding to exactly    *)
(* what is there.  A file is the set of calls whose text it holds.         *)
(***************************************************************************)
CONSTANTS
  Calls,       \* the tool calls
  Files,       \* the files they change
  FileOf,      \* [Calls -> Files]
  ToolOf,      \* [Calls -> {"write", "edit"}]
  Missing      \* the content of a file that does not exist

VARIABLES
  content,     \* [Files -> SUBSET Calls, or Missing]
  applied      \* the calls that have changed their file

vars == <<content, applied>>

Init ==
  /\ content \in [Files -> {Missing, {}}]
  /\ applied = {}

Write(c) ==
  /\ ToolOf[c] = "write"
  /\ c \notin applied
  /\ applied' = applied \union {c}
  /\ content' = [content EXCEPT ![FileOf[c]] = {c}]

Edit(c) ==
  /\ ToolOf[c] = "edit"
  /\ c \notin applied
  /\ content[FileOf[c]] # Missing
  /\ applied' = applied \union {c}
  /\ content' = [content EXCEPT ![FileOf[c]] = @ \union {c}]

Next == \E c \in Calls : Write(c) \/ Edit(c)

Spec == Init /\ [][Next]_vars
=============================================================================
