---------------------------- MODULE SessionTree -----------------------------
(***************************************************************************)
(* The conversation of gitpilot-cli as an append-only tree and the files   *)
(* it is kept in (core/session-manager.ts), with the operations that move  *)
(* in the tree or copy a branch of it (navigateTree of agent-session.ts,   *)
(* fork of agent-session-runtime.ts) and the cut of a compaction           *)
(* (compaction.ts).                                                        *)
(*                                                                         *)
(* Every entry names its parent; the leaf is where the next one goes.  A   *)
(* session file is written only when an assistant has answered, then whole,*)
(* and afterwards one line per entry.  The context of the model is what    *)
(* lies on the path to the leaf, cut at the latest compaction.             *)
(*                                                                         *)
(* Entries are numbered in the order of their creation, which is the order *)
(* of the lines in every file, so a file is a bag of lines.                *)
(***************************************************************************)
EXTENDS Naturals, Bags, FiniteSetsExt

CONSTANTS
  Sessions,     \* session files, by their paths
  Names,        \* labels
  MaxEntries,   \* bound: entries ever created
  MaxMarks,     \* bound: notes and labels added to a session
  NoName,       \* the label of a cleared bookmark
  Env           \* what users may do: "forkKept", "moveWhileCompacting"

ASSUME TreeAssumption ==
  /\ MaxEntries \in Nat /\ MaxMarks \in Nat
  /\ NoName \notin Names

Ids == 1..MaxEntries
Root == 0                               \* parentId and leafId null

Metadata == {"note", "label"}           \* not shown to the model
Messages == {"user", "assistant", "summary"}
Kinds    == Metadata \cup Messages \cup {"compaction"}

\* ref: the target of a label, the first entry a compaction keeps
Entries == [kind : Kinds, parent : Ids \cup {Root}, ref : Ids \cup {Root}, name : Names \cup {NoName}]

Header  == <<0>>
Line(m, i) == <<i, m[i]>>
Whole(m)   == SetToBag({Header} \cup {Line(m, i) : i \in DOMAIN m})

VARIABLES
  mem,          \* fileEntries and byId, without the header
  leaf,         \* leafId
  labels,       \* labelsById
  flushed,
  cur,          \* sessionFile
  disk,         \* contents of the session files, empty for a missing file
  next,         \* the next entry's number
  job           \* first kept entry of a compaction being summarised, or Root
vars == <<mem, leaf, labels, flushed, cur, disk, next, job>>

(***************************************************************************)
(* Reading the tree                                                        *)
(***************************************************************************)

\* The entries met from i along the parents.
Path(m, i) ==
  LET up[j \in Ids \cup {Root}] == IF j \in DOMAIN m THEN {j} \cup up[m[j].parent] ELSE {}
  IN  {j \in DOMAIN m : j \in up[i]}

Latest(S) == IF S = {} THEN Root ELSE Max(S)
OfKind(m, S, K) == {i \in S : m[i].kind \in K}

\* What follows the kept entries' first on a path, if that is found there.
From(p, first) == IF first \in p THEN {i \in p : i >= first} ELSE {}

Context(m, i) ==
  LET p == Path(m, i)
      c == Latest(OfKind(m, p, {"compaction"}))
  IN  IF c = Root THEN OfKind(m, p, Messages)
      ELSE OfKind(m, {c} \cup From(p, m[c].ref) \cup {j \in p : j > c}, Messages \cup {"compaction"})

\* The label entries are replayed in their order: the last one counts.
Labels(m) ==
  LET last(t) == Latest({i \in OfKind(m, DOMAIN m, {"label"}) : m[i].ref = t})
      named   == {t \in DOMAIN m : last(t) # Root /\ m[last(t)].name # NoName}
  IN  [t \in named |-> m[last(t)].name]

Answered(m) == OfKind(m, DOMAIN m, {"assistant"}) # {}

(***************************************************************************)
(* Writing                                                                 *)
(***************************************************************************)

\* The session in hand, with the content of its file.
Now == [mem |-> mem, leaf |-> leaf, labels |-> labels, flushed |-> flushed, out |-> disk[cur], next |-> next]

Become(s) ==
  /\ mem' = s.mem /\ leaf' = s.leaf /\ labels' = s.labels /\ flushed' = s.flushed /\ next' = s.next
  /\ disk' = [disk EXCEPT ![cur] = s.out]

\* Mutant: nothing is written before an answer, although the file is there.
PersistedLate(s, m) ==
  IF ~Answered(m) THEN s.out
  ELSE IF s.flushed THEN s.out (+) SetToBag({Line(m, s.next)}) ELSE Whole(m)

Persisted(s, m) ==
  IF s.flushed THEN s.out (+) SetToBag({Line(m, s.next)})
  ELSE IF Answered(m) THEN Whole(m)
  ELSE s.out

Add(s, kind, ref, name) ==
  LET e == [kind |-> kind, parent |-> s.leaf, ref |-> ref, name |-> name]
      m == [i \in DOMAIN s.mem \cup {s.next} |-> IF i = s.next THEN e ELSE s.mem[i]]
  IN  [mem |-> m, leaf |-> s.next, labels |-> s.labels, flushed |-> s.flushed \/ Answered(m),
       out |-> Persisted(s, m), next |-> s.next + 1]

\* Mutant: a cleared bookmark stays in the map.
LabelledAlways(old, t, n) == [i \in DOMAIN old \cup {t} |-> IF i = t THEN n ELSE old[i]]

Labelled(old, t, n) ==
  [i \in (IF n = NoName THEN DOMAIN old \ {t} ELSE DOMAIN old \cup {t}) |-> IF i = t THEN n ELSE old[i]]

AddLabel(s, t, n) == [Add(s, "label", t, n) EXCEPT !.labels = Labelled(s.labels, t, n)]

\* Mutant: only the branch in hand is written.
FlushBranch(s) ==
  [s EXCEPT !.out = Whole([i \in Path(s.mem, s.leaf) |-> s.mem[i]]), !.flushed = TRUE]

Flush(s) == [s EXCEPT !.out = Whole(s.mem), !.flushed = TRUE]

\* The bounds: room for n more entries, and for one more mark.
Room(n) == next + n <= MaxEntries + 1
MayMark == Cardinality(OfKind(mem, DOMAIN mem, Metadata)) < MaxMarks

(***************************************************************************)
(* The operations                                                          *)
(***************************************************************************)

NoEntries == [i \in {} |-> Root]

Init ==
  /\ mem = NoEntries /\ leaf = Root /\ labels = NoEntries /\ flushed = FALSE
  /\ cur \in Sessions
  /\ disk = [f \in Sessions |-> EmptyBag]
  /\ next = 1
  /\ job = Root

Append(kind) ==
  /\ Room(1)
  /\ kind = "note" => MayMark
  /\ Become(Add(Now, kind, Root, NoName))
  /\ UNCHANGED <<cur, job>>

\* A requirement written ahead of its run, and the title, go to the file at once.
AppendAtOnce(kind) ==
  /\ Room(1)
  /\ kind = "note" => MayMark
  /\ Become(Flush(Add(Now, kind, Root, NoName)))
  /\ UNCHANGED <<cur, job>>

Bookmark(t, n) ==
  /\ Room(1) /\ MayMark
  /\ t \in DOMAIN mem
  /\ Become(AddLabel(Now, t, n))
  /\ UNCHANGED <<cur, job>>

\* navigateTree: a user message is opened for editing, so its parent becomes the leaf.
Navigate(t, summarize, n) ==
  LET to    == IF mem[t].kind = "user" THEN mem[t].parent ELSE t
      moved == [Now EXCEPT !.leaf = to]
      told  == Add(moved, "summary", Root, NoName)
  IN  /\ Room(2)
      /\ n # NoName => MayMark
      /\ t \in DOMAIN mem \ {leaf}
      /\ job = Root \/ "moveWhileCompacting" \in Env
      /\ summarize => Path(mem, leaf) \ Path(mem, t) # {}
      /\ Become(CASE summarize /\ n # NoName  -> AddLabel(told, told.leaf, n)
                  [] summarize /\ n = NoName  -> told
                  [] ~summarize /\ n # NoName -> AddLabel(moved, t, n)
                  [] OTHER                    -> moved)
      /\ UNCHANGED <<cur, job>>

\* Where a compaction of the path p may begin to keep, over all budgets: at a
\* message and the metadata before it, if there is a message to summarise.
FirstKept(p) ==
  LET c      == Latest(OfKind(mem, p, {"compaction"}))
      range  == IF c # Root /\ mem[c].ref \in p THEN From(p, mem[c].ref) ELSE {i \in p : i > c}
      back(i) == Min({j \in range : j <= i /\ \A k \in range : j <= k /\ k < i => mem[k].kind \in Metadata})
  IN  {i \in {back(j) : j \in OfKind(mem, range, Messages)} : \E k \in OfKind(mem, range, Messages) : k < i}

\* The path is read before the summary is asked for ...
StartCompaction ==
  /\ job = Root
  /\ leaf # Root /\ mem[leaf].kind # "compaction"
  /\ job' \in FirstKept(Path(mem, leaf))
  /\ UNCHANGED <<mem, leaf, labels, flushed, cur, disk, next>>

\* ... and the entry is appended to the leaf of the time it arrives.
EndCompaction ==
  /\ job # Root
  /\ Room(1)
  /\ Become(Add(Now, "compaction", job, NoName))
  /\ job' = Root
  /\ UNCHANGED cur

FailCompaction ==
  /\ job # Root
  /\ job' = Root
  /\ UNCHANGED <<mem, leaf, labels, flushed, cur, disk, next>>

(***************************************************************************)
(* Another session takes the place of the one in hand, also after the      *)
(* process has died: what was only in memory is gone.                      *)
(***************************************************************************)

Loaded(b) == [i \in {l[1] : l \in DOMAIN b \ {Header}} |-> (CHOOSE l \in DOMAIN b : l[1] = i)[2]]

Replace(m, f, isFlushed) ==
  /\ mem' = m /\ leaf' = Latest(DOMAIN m) /\ labels' = Labels(m)
  /\ flushed' = isFlushed
  /\ cur' = f
  /\ job' = Root

Open(f) ==
  /\ disk[f] # EmptyBag
  /\ Replace(Loaded(disk[f]), f, TRUE)
  /\ UNCHANGED <<disk, next>>

NewSession(f, immediately) ==
  /\ disk[f] = EmptyBag
  /\ Replace(NoEntries, f, immediately)
  /\ disk' = IF immediately THEN [disk EXCEPT ![f] = Whole(NoEntries)] ELSE disk
  /\ UNCHANGED next

\* The path without its labels, and the entries on it that have a bookmark.
Kept(m, target)   == {i \in Path(m, target) : m[i].kind # "label"}
Marked(m, target) == Kept(m, target) \cap DOMAIN Labels(m)

\* Mutants: the path is not chained anew; the bookmarks are left behind.
BranchedAsIs(m, target) == [i \in Kept(m, target) |-> m[i]]
BranchedBare(m, target) ==
  [i \in Kept(m, target) |-> [m[i] EXCEPT !.parent = Latest({j \in Kept(m, target) : j < i})]]

\* createBranchedSession: the labels are taken out and written anew behind the path.
Branched(m, target) ==
  LET kept   == Kept(m, target)
      marked == Marked(m, target)
      id(t)  == next + Cardinality({u \in marked : u < t})
      new(i) == CHOOSE t \in marked : id(t) = i
  IN  [i \in kept \cup {id(t) : t \in marked} |->
        IF i \in kept THEN [m[i] EXCEPT !.parent = Latest({j \in kept : j < i})]
        ELSE [kind |-> "label", parent |-> IF i = next THEN Latest(kept) ELSE i - 1,
              ref |-> new(i), name |-> Labels(m)[new(i)]]]

ForkTarget(t, position) == IF position = "at" THEN t ELSE mem[t].parent

\* The branch is taken from the file, which must have been written.
ForkBranch(f, t, position) ==
  LET m      == Loaded(disk[cur])
      target == ForkTarget(t, position)
      branch == Branched(m, target)
  IN  /\ disk[cur] # EmptyBag /\ disk[f] = EmptyBag
      /\ t \in DOMAIN mem
      /\ position = "before" => mem[t].kind = "user"
      /\ target \in DOMAIN m
      /\ Room(Cardinality(Marked(m, target)))
      /\ "forkKept" \in Env \/ \A c \in OfKind(m, Path(m, target), {"compaction"}) : m[m[c].ref].kind # "label"
      /\ Replace(branch, f, Answered(branch))
      /\ disk' = IF Answered(branch) THEN [disk EXCEPT ![f] = Whole(branch)] ELSE disk
      /\ next' = next + Cardinality(Marked(m, target))

\* A fork before the first message is a new session.
ForkEmpty(f, t) ==
  /\ t \in DOMAIN mem
  /\ mem[t].kind = "user" /\ mem[t].parent = Root
  /\ NewSession(f, FALSE)

\* forkFrom: all entries of a session under a new header.
CopySession(f, g) ==
  /\ disk[f] # EmptyBag /\ disk[g] = EmptyBag
  /\ disk' = [disk EXCEPT ![g] = Whole(Loaded(disk[f]))]
  /\ Replace(Loaded(disk[f]), g, TRUE)
  /\ UNCHANGED next

Next ==
  \/ \E kind \in {"user", "assistant", "note"} : Append(kind)
  \/ \E kind \in {"user", "note"} : AppendAtOnce(kind)
  \/ \E t \in Ids, n \in Names \cup {NoName} : Bookmark(t, n)
  \/ \E t \in DOMAIN mem, summarize \in BOOLEAN, n \in Names \cup {NoName} : Navigate(t, summarize, n)
  \/ StartCompaction \/ EndCompaction \/ FailCompaction
  \/ \E f \in Sessions : Open(f)
  \/ \E f \in Sessions, immediately \in BOOLEAN : NewSession(f, immediately)
  \/ \E f \in Sessions, t \in DOMAIN mem, position \in {"before", "at"} : ForkBranch(f, t, position)
  \/ \E f \in Sessions, t \in DOMAIN mem : ForkEmpty(f, t)
  \/ \E f, g \in Sessions : CopySession(f, g)

Spec == Init /\ [][Next]_vars

(***************************************************************************)
(* Properties                                                              *)
(***************************************************************************)

TypeOK ==
  /\ DOMAIN mem \subseteq Ids
  /\ \A i \in DOMAIN mem : mem[i] \in Entries
  /\ leaf \in DOMAIN mem \cup {Root}
  /\ DOMAIN labels \subseteq DOMAIN mem
  /\ \A t \in DOMAIN labels : labels[t] \in Names
  /\ flushed \in BOOLEAN
  /\ cur \in Sessions
  /\ DOMAIN disk = Sessions
  /\ next \in 1..(MaxEntries + 1)
  /\ job \in Ids \cup {Root}

\* A session file is missing until an assistant has answered (or somebody asked for
\* it), and from then on holds the header and every entry exactly once, however the
\* deferred writing, the rewriting and the appending follow one another.
FilesAreCopies ==
  /\ disk[cur] = IF flushed THEN Whole(mem) ELSE EmptyBag
  /\ Answered(mem) => flushed
  /\ \A f \in Sessions : disk[f] # EmptyBag => disk[f] = Whole(Loaded(disk[f]))

\* The tree is sound after every branching, copying and reloading: parents come before
\* their children and none is missing, the bookmarks in memory are those a reload
\* would find, and what a compaction promised to keep is on its path.
TreeIsSound ==
  /\ \A i \in DOMAIN mem : mem[i].parent \in {Root} \cup {j \in DOMAIN mem : j < i}
  /\ labels = Labels(mem)
  /\ \A c \in OfKind(mem, DOMAIN mem, {"compaction"}) : mem[c].ref \in Path(mem, c)

\* "Append-only": no operation, in this session or another, takes a line out of a file.
HistoryKept == [][\A f \in Sessions : disk[f] \sqsubseteq disk'[f]]_vars

\* A fork shows the model what the original showed it at that entry, and has the
\* bookmarks of that path.
ForkKeepsBranch ==
  [][\A f \in Sessions, t \in DOMAIN mem, position \in {"before", "at"} :
       cur' = f /\ f # cur /\ ForkBranch(f, t, position) =>
         LET m      == Loaded(disk[cur])
             target == ForkTarget(t, position)
         IN  /\ Context(mem', leaf') = Context(m, target)
             /\ \A i \in Path(m, target) : m[i].kind # "label" /\ i \in DOMAIN labels
                  => i \in DOMAIN labels' /\ labels'[i] = labels[i]]_vars
=============================================================================
