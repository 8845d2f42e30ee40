-------------------------- MODULE SessionTreeProofs -------------------------
(***************************************************************************)
(* Session files, the tree in hand and its branches, for any number of     *)
(* sessions, entries and labels.                                           *)
(*                                                                         *)
(* FileInv, whatever users do: a file is the image Whole(m) of a tree, the *)
(* one in hand the image of the memory.  Appending a line to an image      *)
(* gives the image of the extended tree, because the number of a new entry *)
(* is above all numbers in use; reading an image gives its tree back.      *)
(*                                                                         *)
(* SoundInv, whatever users do: the trees in memory and in all files are   *)
(* sound, and the map of bookmarks is what replaying the labels gives.     *)
(* Paths come from it by least counterexamples: the recursion along the    *)
(* parents ends, as parents come first.                                    *)
(*                                                                         *)
(* KeepInv, if users respect the order of things (OrderRespected): what    *)
(* compactions keep lies on their paths.                                   *)
(***************************************************************************)
EXTENDS SessionTree, FiniteSetTheorems, TLAPS

\* A tree whose entries have been created.
Tree(m, n) == m = [i \in DOMAIN m |-> m[i]] /\ DOMAIN m \subseteq 1..(n - 1)

Image(b, n) == b = EmptyBag \/ \E m : Tree(m, n) /\ b = Whole(m)

\* What the session in hand and its file have in common.
Fits(s) ==
  /\ s.next \in Nat \ {0}
  /\ Tree(s.mem, s.next)
  /\ s.flushed \in BOOLEAN
  /\ s.out = IF s.flushed THEN Whole(s.mem) ELSE EmptyBag
  /\ Answered(s.mem) => s.flushed

FileInv ==
  /\ cur \in Sessions
  /\ disk = [f \in Sessions |-> disk[f]]
  /\ Fits(Now)
  /\ \A f \in Sessions : Image(disk[f], next)

(***************************************************************************)
(* Files and trees                                                         *)
(***************************************************************************)

\* Reading back what was written whole.
LEMMA LoadedWhole ==
  ASSUME NEW n \in Nat \ {0}, NEW m, Tree(m, n)
  PROVE  Loaded(Whole(m)) = m
<1> DEFINE L == {Header} \cup {Line(m, i) : i \in DOMAIN m}
<1>1. DOMAIN Whole(m) = L
  BY DEF Whole, SetToBag
<1>2. \A i \in DOMAIN m : i \in Nat /\ i # 0
  BY DEF Tree
<1>3. \A i \in DOMAIN m : Line(m, i)[1] = i /\ Line(m, i)[2] = m[i] /\ Line(m, i) # Header
  <2> SUFFICES ASSUME NEW i \in DOMAIN m
               PROVE  Line(m, i)[1] = i /\ Line(m, i)[2] = m[i] /\ Line(m, i) # Header
    OBVIOUS
  <2>1. Line(m, i)[1] = i /\ Line(m, i)[2] = m[i]
    BY DEF Line
  <2>2. Header[1] = 0
    BY DEF Header
  <2> QED
    BY <1>2, <2>1, <2>2
<1>4. Header[1] = 0
  BY DEF Header
<1>5. {l[1] : l \in L \ {Header}} = DOMAIN m
  BY <1>3
<1> DEFINE f == Loaded(Whole(m))
<1>6. f = [i \in DOMAIN f |-> f[i]] /\ DOMAIN f = {l[1] : l \in DOMAIN Whole(m) \ {Header}}
  BY DEF Loaded
<1>7. \A i \in DOMAIN f : f[i] = (CHOOSE l \in DOMAIN Whole(m) : l[1] = i)[2]
  BY DEF Loaded
<1>8. ASSUME NEW i \in DOMAIN m
      PROVE  (CHOOSE l \in DOMAIN Whole(m) : l[1] = i)[2] = m[i]
  <2>1. \E l \in DOMAIN Whole(m) : l[1] = i
    BY <1>1, <1>3
  <2>2. \A l \in DOMAIN Whole(m) : l[1] = i => l[2] = m[i]
    BY <1>1, <1>2, <1>3, <1>4
  <2> QED
    BY <2>1, <2>2
<1> HIDE DEF L, f
<1>9. DOMAIN f = DOMAIN m
  BY <1>1, <1>5, <1>6
<1>10. \A i \in DOMAIN m : f[i] = m[i]
  BY <1>7, <1>8, <1>9
<1>11. m = [i \in DOMAIN m |-> m[i]]
  BY DEF Tree
<1>12. f = m
  BY <1>6, <1>9, <1>10, <1>11
<1> QED
  BY <1>12 DEF f

\* The header is in every image, so an image is not a missing file.
LEMMA WholeIsThere ==
  ASSUME NEW m
  PROVE  Whole(m) # EmptyBag
<1>1. Header \in DOMAIN Whole(m)
  BY DEF Whole, SetToBag
<1>2. DOMAIN EmptyBag = {}
  BY DEF EmptyBag, SetToBag
<1> QED
  BY <1>1, <1>2

LEMMA LoadedImage ==
  ASSUME NEW n \in Nat \ {0}, NEW b, Image(b, n), b # EmptyBag
  PROVE  Tree(Loaded(b), n) /\ b = Whole(Loaded(b))
<1>1. PICK m : Tree(m, n) /\ b = Whole(m)
  BY DEF Image
<1> QED
  BY <1>1, LoadedWhole

\* One more line makes the image of one more entry.
LEMMA WholeGrows ==
  ASSUME NEW n \in Nat \ {0}, NEW m, Tree(m, n), NEW m2,
         DOMAIN m2 = DOMAIN m \cup {n}, \A i \in DOMAIN m : m2[i] = m[i]
  PROVE  /\ Whole(m) (+) SetToBag({Line(m2, n)}) = Whole(m2)
         /\ Whole(m) \sqsubseteq Whole(m2)
<1> DEFINE L  == {Header} \cup {Line(m, i) : i \in DOMAIN m}
           x  == Line(m2, n)
           L2 == {Header} \cup {Line(m2, i) : i \in DOMAIN m2}
<1>1. \A i \in DOMAIN m : i # n /\ Line(m2, i) = Line(m, i)
  BY DEF Tree, Line
<1>2. L2 = L \cup {x}
  BY <1>1
<1>3. x \notin L
  <2>1. x[1] = n
    BY DEF Line
  <2>2. Header[1] = 0
    BY DEF Header
  <2>3. \A i \in DOMAIN m : Line(m, i)[1] = i
    BY DEF Line
  <2> QED
    BY <1>1, <2>1, <2>2, <2>3
<1>4. Whole(m) = [l \in L |-> 1] /\ Whole(m2) = [l \in L2 |-> 1]
  BY DEF Whole, SetToBag
<1> HIDE DEF L, x, L2
<1>5. Whole(m) (+) SetToBag({x}) = [l \in L \cup {x} |-> (IF l \in L THEN 1 ELSE 0) + (IF l \in {x} THEN 1 ELSE 0)]
  BY <1>4 DEF (+), SetToBag
<1>6. Whole(m) (+) SetToBag({x}) = Whole(m2)
  BY <1>2, <1>3, <1>4, <1>5
<1>7. Whole(m) \sqsubseteq Whole(m2)
  BY <1>2, <1>4 DEF \sqsubseteq
<1> QED
  BY <1>6, <1>7 DEF x

\* A file is part of itself, and a missing file of any.
LEMMA ImagesContain ==
  ASSUME NEW n, NEW b, Image(b, n)
  PROVE  b \sqsubseteq b /\ \A c : EmptyBag \sqsubseteq c
<1>1. \A c : EmptyBag \sqsubseteq c
  BY DEF EmptyBag, SetToBag, \sqsubseteq
<1>2. CASE b = EmptyBag
  BY <1>1, <1>2
<1>3. CASE b # EmptyBag
  <2>1. PICK m : b = Whole(m)
    BY <1>3 DEF Image
  <2> DEFINE L == {Header} \cup {Line(m, i) : i \in DOMAIN m}
  <2>2. b = [l \in L |-> 1]
    BY <2>1 DEF Whole, SetToBag
  <2> HIDE DEF L
  <2>3. b \sqsubseteq b
    BY <2>2 DEF \sqsubseteq
  <2> QED
    BY <1>1, <2>3
<1> QED
  BY <1>2, <1>3

(***************************************************************************)
(* The operations on the session in hand                                   *)
(***************************************************************************)

\* An entry more leaves memory and file in agreement, and only adds to the file.
LEMMA AddFits ==
  ASSUME NEW s, Fits(s), NEW kind, NEW ref, NEW name
  PROVE  /\ Fits(Add(s, kind, ref, name))
         /\ Image(s.out, s.next)
         /\ s.out \sqsubseteq Add(s, kind, ref, name).out
         /\ Add(s, kind, ref, name).next = s.next + 1
<1> DEFINE n == s.next
           e == [kind |-> kind, parent |-> s.leaf, ref |-> ref, name |-> name]
           m == [i \in DOMAIN s.mem \cup {n} |-> IF i = n THEN e ELSE s.mem[i]]
           a == Add(s, kind, ref, name)
<1>1. /\ n \in Nat \ {0} /\ Tree(s.mem, n) /\ s.flushed \in BOOLEAN
      /\ s.out = IF s.flushed THEN Whole(s.mem) ELSE EmptyBag
      /\ Answered(s.mem) => s.flushed
  BY DEF Fits
<1>2. n \notin DOMAIN s.mem
  BY <1>1 DEF Tree
<1>3. DOMAIN m = DOMAIN s.mem \cup {n} /\ \A i \in DOMAIN s.mem : m[i] = s.mem[i]
  BY <1>2
<1>4. /\ a.mem = m /\ a.next = n + 1 /\ a.flushed = (s.flushed \/ Answered(m))
      /\ a.out = Persisted(s, m)
  BY DEF Add
<1>5. Tree(m, n + 1)
  <2>1. m = [i \in DOMAIN m |-> m[i]]
    OBVIOUS
  <2>2. DOMAIN m \subseteq 1..((n + 1) - 1)
    BY <1>1, <1>3 DEF Tree
  <2> HIDE DEF m, n
  <2> QED
    BY <2>1, <2>2, Zenon DEF Tree
<1> HIDE DEF m, a
<1>6. /\ Whole(s.mem) (+) SetToBag({Line(m, n)}) = Whole(m)
      /\ Whole(s.mem) \sqsubseteq Whole(m)
  BY <1>1, <1>3, WholeGrows
<1>7. a.out = IF a.flushed THEN Whole(m) ELSE EmptyBag
  BY <1>1, <1>4, <1>6 DEF Persisted
<1>8. Image(s.out, n)
  BY <1>1 DEF Image
<1>9. s.out \sqsubseteq a.out
  <2>1. EmptyBag \sqsubseteq a.out
    BY <1>8, ImagesContain
  <2> QED
    BY <1>1, <1>4, <1>6, <1>7, <2>1
<1>10. a.flushed \in BOOLEAN /\ (Answered(a.mem) => a.flushed)
  BY <1>1, <1>4 DEF Answered
<1>11. a.next \in Nat \ {0}
  BY <1>1, <1>4
<1>12. Fits(a)
  BY <1>4, <1>5, <1>7, <1>10, <1>11 DEF Fits
<1> QED
  BY <1>4, <1>8, <1>9, <1>12 DEF a, n

LEMMA AddLabelFits ==
  ASSUME NEW s, Fits(s), NEW t, NEW n
  PROVE  Fits(AddLabel(s, t, n)) /\ s.out \sqsubseteq AddLabel(s, t, n).out
<1> DEFINE a == Add(s, "label", t, n)
           b == AddLabel(s, t, n)
<1>1. Fits(a) /\ s.out \sqsubseteq a.out
  BY AddFits
<1>2. b.mem = a.mem /\ b.next = a.next /\ b.flushed = a.flushed /\ b.out = a.out
  BY DEF AddLabel, Add
<1> HIDE DEF a, b
<1>3. Fits(b)
  BY <1>1, <1>2 DEF Fits
<1> QED
  BY <1>1, <1>2, <1>3 DEF b

\* Rewriting a file that is there changes nothing.
LEMMA FlushFits ==
  ASSUME NEW s, Fits(s),
         s = [mem |-> s.mem, leaf |-> s.leaf, labels |-> s.labels, flushed |-> s.flushed,
              out |-> s.out, next |-> s.next]
  PROVE  Fits(Flush(s)) /\ s.out \sqsubseteq Flush(s).out
<1> DEFINE b == Flush(s)
<1>1. b.mem = s.mem /\ b.next = s.next /\ b.flushed = TRUE /\ b.out = Whole(s.mem)
  BY DEF Flush
<1>2. Image(s.out, s.next) /\ Image(Whole(s.mem), s.next)
  BY DEF Fits, Image
<1>3. s.out \sqsubseteq Whole(s.mem)
  BY <1>2, ImagesContain DEF Fits
<1> HIDE DEF b
<1>4. Fits(b)
  BY <1>1 DEF Fits
<1> QED
  BY <1>1, <1>3, <1>4 DEF b

(***************************************************************************)
(* Steps                                                                   *)
(***************************************************************************)

HistoryStep == \A f \in Sessions : disk[f] \sqsubseteq disk'[f]

LEMMA ImageLater ==
  ASSUME NEW n \in Nat, NEW k \in Nat, n <= k, NEW b, Image(b, n)
  PROVE  Image(b, k)
<1>1. \A m : Tree(m, n) => Tree(m, k)
  <2> SUFFICES ASSUME NEW m, Tree(m, n)
               PROVE  Tree(m, k)
    OBVIOUS
  <2>1. DOMAIN m \subseteq 1..(k - 1)
    BY DEF Tree
  <2> QED
    BY <2>1 DEF Tree
<1> QED
  BY <1>1 DEF Image

LEMMA ImagesInOrder ==
  ASSUME NEW n, NEW b, NEW c, NEW d, Image(b, n), b \sqsubseteq c, c \sqsubseteq d,
         NEW k, Image(c, k), NEW l, Image(d, l)
  PROVE  b \sqsubseteq d
<1>1. \A x, j : Image(x, j) => \A i \in DOMAIN x : x[i] = 1
  <2> SUFFICES ASSUME NEW x, NEW j, Image(x, j), NEW i \in DOMAIN x
               PROVE  x[i] = 1
    OBVIOUS
  <2>1. CASE x = EmptyBag
    BY <2>1 DEF EmptyBag, SetToBag
  <2>2. CASE x # EmptyBag
    BY <2>2 DEF Image, Whole, SetToBag
  <2> QED
    BY <2>1, <2>2
<1>2. DOMAIN b \subseteq DOMAIN d
  BY DEF \sqsubseteq
<1> QED
  BY <1>1, <1>2 DEF \sqsubseteq

\* A step of the session in hand.
LEMMA BecomeStep ==
  ASSUME FileInv, NEW s, Fits(s), s.next >= next, disk[cur] \sqsubseteq s.out,
         Become(s), cur' = cur
  PROVE  FileInv' /\ HistoryStep
<1>1. next \in Nat /\ s.next \in Nat
  BY DEF FileInv, Fits, Now
<1>2. /\ disk' = [disk EXCEPT ![cur] = s.out] /\ mem' = s.mem
      /\ flushed' = s.flushed /\ next' = s.next
  BY DEF Become
<1>3. cur \in Sessions /\ disk = [f \in Sessions |-> disk[f]] /\ \A f \in Sessions : Image(disk[f], next)
  BY DEF FileInv
<1>4. disk'[cur] = s.out /\ \A f \in Sessions \ {cur} : disk'[f] = disk[f]
  BY <1>2, <1>3
<1>5. Fits(Now)'
  BY <1>2, <1>4 DEF Fits, Now
<1>6. \A f \in Sessions : Image(disk'[f], s.next)
  <2>1. Image(s.out, s.next)
    BY DEF Fits, Image
  <2> QED
    BY <1>1, <1>3, <1>4, <2>1, ImageLater
<1>7. disk' = [f \in Sessions |-> disk'[f]]
  BY <1>2, <1>3
<1>8. FileInv'
  BY <1>2, <1>3, <1>5, <1>6, <1>7 DEF FileInv
<1>9. HistoryStep
  BY <1>3, <1>4, ImagesContain DEF HistoryStep
<1> QED
  BY <1>8, <1>9

\* Another session is taken in hand; a file is at most written for the first time.
LEMMA ReplaceStep ==
  ASSUME FileInv, NEW m, NEW g \in Sessions, NEW fl \in BOOLEAN, NEW k \in Nat, next <= k,
         Tree(m, k), Answered(m) => fl,
         Replace(m, g, fl), next' = k,
         IF fl THEN disk[g] \in {EmptyBag, Whole(m)} ELSE disk[g] = EmptyBag,
         disk' = IF fl THEN [disk EXCEPT ![g] = Whole(m)] ELSE disk
  PROVE  FileInv' /\ HistoryStep
<1>1. next \in Nat \ {0} /\ k \in Nat \ {0}
  BY DEF FileInv, Fits, Now
<1>2. disk = [f \in Sessions |-> disk[f]] /\ \A f \in Sessions : Image(disk[f], next)
  BY DEF FileInv
<1>3. mem' = m /\ cur' = g /\ flushed' = fl
  BY DEF Replace
<1>4. /\ disk'[g] = IF fl THEN Whole(m) ELSE EmptyBag
      /\ \A f \in Sessions \ {g} : disk'[f] = disk[f]
      /\ disk' = [f \in Sessions |-> disk'[f]]
  BY <1>2
<1>5. Image(disk'[g], k)
  BY <1>4 DEF Image
<1>6. \A f \in Sessions : Image(disk'[f], k)
  BY <1>1, <1>2, <1>4, <1>5, ImageLater
<1>7. Fits(Now)'
  BY <1>1, <1>3, <1>4 DEF Fits, Now
<1>8. FileInv'
  BY <1>3, <1>4, <1>6, <1>7 DEF FileInv
<1>9. disk[g] \sqsubseteq disk'[g]
  BY <1>2, <1>4, <1>5, ImagesContain
<1>10. HistoryStep
  BY <1>2, <1>4, <1>9, ImagesContain DEF HistoryStep
<1> QED
  BY <1>8, <1>10

LEMMA NowFits ==
  ASSUME FileInv
  PROVE  Fits(Now) /\ Now.out = disk[cur] /\ Now.next = next /\ next \in Nat \ {0}
BY DEF FileInv, Fits, Now

LEMMA InitFiles ==
  Init => FileInv
<1> SUFFICES ASSUME Init
             PROVE  FileInv
  OBVIOUS
<1>1. Tree(NoEntries, 1) /\ ~Answered(NoEntries)
  <2>1. DOMAIN NoEntries = {} /\ NoEntries = [i \in DOMAIN NoEntries |-> NoEntries[i]]
    BY DEF NoEntries
  <2> QED
    BY <2>1 DEF Tree, Answered, OfKind
<1>2. Fits(Now)
  <2>1. Now.mem = NoEntries /\ Now.flushed = FALSE /\ Now.out = EmptyBag /\ Now.next = 1
    BY DEF Init, Now
  <2>2. Tree(Now.mem, Now.next) /\ ~Answered(Now.mem)
    BY <1>1, <2>1, Zenon
  <2>3. 1 \in Nat \ {0} /\ FALSE \in BOOLEAN
    OBVIOUS
  <2>4. Now.out = IF Now.flushed THEN Whole(Now.mem) ELSE EmptyBag
    BY <2>1, Zenon
  <2> QED
    BY <2>1, <2>2, <2>3, <2>4, Zenon DEF Fits
<1>3. \A f \in Sessions : Image(disk[f], next)
  BY DEF Init, Image
<1> QED
  BY <1>2, <1>3 DEF Init, FileInv

LEMMA AppendStep ==
  ASSUME FileInv, NEW kind, Append(kind)
  PROVE  FileInv' /\ HistoryStep
<1>1. Fits(Now) /\ Now.out = disk[cur] /\ Now.next = next /\ next \in Nat
  BY NowFits
<1> DEFINE a == Add(Now, kind, Root, NoName)
<1>2. Fits(a) /\ disk[cur] \sqsubseteq a.out /\ a.next = next + 1
  BY <1>1, AddFits
<1>3. Become(a) /\ cur' = cur
  BY DEF Append
<1> HIDE DEF a
<1> QED
  BY <1>1, <1>2, <1>3, BecomeStep

LEMMA AppendAtOnceStep ==
  ASSUME FileInv, NEW kind, AppendAtOnce(kind)
  PROVE  FileInv' /\ HistoryStep
<1>1. Fits(Now) /\ Now.out = disk[cur] /\ Now.next = next /\ next \in Nat
  BY NowFits
<1> DEFINE a == Add(Now, kind, Root, NoName)
           b == Flush(a)
<1>2. Fits(a) /\ disk[cur] \sqsubseteq a.out /\ a.next = next + 1
  BY <1>1, AddFits
<1>3. a = [mem |-> a.mem, leaf |-> a.leaf, labels |-> a.labels, flushed |-> a.flushed,
           out |-> a.out, next |-> a.next]
  BY DEF Add
<1>4. Become(b) /\ cur' = cur
  BY DEF AppendAtOnce
<1>5. Fits(b) /\ a.out \sqsubseteq b.out
  <2> HIDE DEF a
  <2> QED
    BY <1>2, <1>3, FlushFits
<1>6. b.next = a.next
  BY DEF Flush
<1> HIDE DEF a, b
<1>7. Image(disk[cur], next) /\ Image(a.out, a.next) /\ Image(b.out, b.next)
  BY <1>1, <1>2, <1>5 DEF Fits, Image
<1>8. disk[cur] \sqsubseteq b.out
  BY <1>2, <1>5, <1>7, ImagesInOrder
<1> QED
  BY <1>1, <1>2, <1>4, <1>5, <1>6, <1>8, BecomeStep

LEMMA BookmarkStep ==
  ASSUME FileInv, NEW t, NEW n, Bookmark(t, n)
  PROVE  FileInv' /\ HistoryStep
<1>1. Fits(Now) /\ Now.out = disk[cur] /\ Now.next = next /\ next \in Nat
  BY NowFits
<1> DEFINE a == AddLabel(Now, t, n)
<1>2. Fits(a) /\ disk[cur] \sqsubseteq a.out
  BY <1>1, AddLabelFits
<1>3. a.next = next + 1
  BY <1>1 DEF AddLabel, Add
<1>4. Become(a) /\ cur' = cur
  BY DEF Bookmark
<1> HIDE DEF a
<1> QED
  BY <1>1, <1>2, <1>3, <1>4, BecomeStep

LEMMA NavigateStep ==
  ASSUME FileInv, NEW t, NEW summarize \in BOOLEAN, NEW n, Navigate(t, summarize, n)
  PROVE  FileInv' /\ HistoryStep
<1> DEFINE to    == IF mem[t].kind = "user" THEN mem[t].parent ELSE t
           moved == [Now EXCEPT !.leaf = to]
           told  == Add(moved, "summary", Root, NoName)
           both  == AddLabel(told, told.leaf, n)
           named == AddLabel(moved, t, n)
<1>1. Fits(Now) /\ Now.out = disk[cur] /\ Now.next = next /\ next \in Nat
  BY NowFits
<1>2. moved.mem = Now.mem /\ moved.out = Now.out /\ moved.next = Now.next /\ moved.flushed = Now.flushed
  BY DEF Now
<1>3. \/ Become(both)
      \/ Become(told)
      \/ Become(named)
      \/ Become(moved)
  BY DEF Navigate
<1>4. cur' = cur
  BY DEF Navigate
<1>5. both.next = told.next + 1 /\ named.next = moved.next + 1
  BY DEF AddLabel, Add
<1> HIDE DEF to, moved
<1>6. Fits(moved)
  BY <1>1, <1>2 DEF Fits
<1>7. Fits(told) /\ moved.out \sqsubseteq told.out /\ told.next = moved.next + 1
  BY <1>6, AddFits
<1> HIDE DEF told
<1>8. Fits(both) /\ told.out \sqsubseteq both.out
  BY <1>7, AddLabelFits
<1>9. Fits(named) /\ moved.out \sqsubseteq named.out
  BY <1>6, AddLabelFits
<1> HIDE DEF both, named
<1>10. /\ Image(moved.out, moved.next) /\ Image(told.out, told.next) /\ Image(both.out, both.next)
  BY <1>6, <1>7, <1>8 DEF Fits, Image
<1>11. moved.out \sqsubseteq both.out /\ moved.out \sqsubseteq moved.out
  BY <1>7, <1>8, <1>10, ImagesInOrder, ImagesContain
<1>12. CASE Become(both)
  BY <1>1, <1>2, <1>4, <1>5, <1>7, <1>8, <1>11, <1>12, BecomeStep
<1>13. CASE Become(told)
  BY <1>1, <1>2, <1>4, <1>7, <1>13, BecomeStep
<1>14. CASE Become(named)
  BY <1>1, <1>2, <1>4, <1>5, <1>9, <1>14, BecomeStep
<1>15. CASE Become(moved)
  BY <1>1, <1>2, <1>4, <1>6, <1>11, <1>15, BecomeStep
<1> QED
  BY <1>3, <1>12, <1>13, <1>14, <1>15

LEMMA CompactionStep ==
  ASSUME FileInv, StartCompaction \/ EndCompaction \/ FailCompaction
  PROVE  FileInv' /\ HistoryStep
<1>1. CASE StartCompaction \/ FailCompaction
  <2>1. UNCHANGED <<mem, leaf, labels, flushed, cur, disk, next>>
    BY <1>1 DEF StartCompaction, FailCompaction
  <2>2. FileInv'
    BY <2>1 DEF FileInv, Fits, Now, Image, Tree, Answered, OfKind
  <2>3. HistoryStep
    BY <2>1, ImagesContain DEF FileInv, HistoryStep
  <2> QED
    BY <2>2, <2>3
<1>2. CASE EndCompaction
  <2>1. Fits(Now) /\ Now.out = disk[cur] /\ Now.next = next /\ next \in Nat
    BY NowFits
  <2> DEFINE a == Add(Now, "compaction", job, NoName)
  <2>2. Fits(a) /\ disk[cur] \sqsubseteq a.out /\ a.next = next + 1
    BY <2>1, AddFits
  <2>3. Become(a) /\ cur' = cur
    BY <1>2 DEF EndCompaction
  <2> HIDE DEF a
  <2> QED
    BY <2>1, <2>2, <2>3, BecomeStep
<1> QED
  BY <1>1, <1>2

LEMMA OpenStep ==
  ASSUME FileInv, NEW f \in Sessions, Open(f)
  PROVE  FileInv' /\ HistoryStep
<1> DEFINE m == Loaded(disk[f])
<1>1. next \in Nat \ {0} /\ disk = [g \in Sessions |-> disk[g]] /\ Image(disk[f], next) /\ disk[f] # EmptyBag
  BY NowFits DEF FileInv, Open
<1>2. Tree(m, next) /\ disk[f] = Whole(m)
  BY <1>1, LoadedImage
<1>3. Replace(m, f, TRUE) /\ disk' = disk /\ next' = next
  BY DEF Open
<1> HIDE DEF m
<1>4. disk' = IF TRUE THEN [disk EXCEPT ![f] = Whole(m)] ELSE disk
  BY <1>1, <1>2, <1>3
<1>5. IF TRUE THEN disk[f] \in {EmptyBag, Whole(m)} ELSE disk[f] = EmptyBag
  BY <1>2
<1>6. next \in Nat /\ next <= next /\ (Answered(m) => TRUE) /\ TRUE \in BOOLEAN
  BY <1>1
<1> QED
  BY <1>2, <1>3, <1>4, <1>5, <1>6, ReplaceStep

LEMMA NewSessionStep ==
  ASSUME FileInv, NEW f \in Sessions, NEW immediately \in BOOLEAN, NewSession(f, immediately)
  PROVE  FileInv' /\ HistoryStep
<1>1. next \in Nat \ {0}
  BY NowFits
<1>2. Tree(NoEntries, next) /\ ~Answered(NoEntries)
  <2>1. DOMAIN NoEntries = {} /\ NoEntries = [i \in DOMAIN NoEntries |-> NoEntries[i]]
    BY DEF NoEntries
  <2> QED
    BY <2>1 DEF Tree, Answered, OfKind
<1> QED
  BY <1>1, <1>2, ReplaceStep DEF NewSession

LEMMA CopyStep ==
  ASSUME FileInv, NEW f \in Sessions, NEW g \in Sessions, CopySession(f, g)
  PROVE  FileInv' /\ HistoryStep
<1> DEFINE m == Loaded(disk[f])
<1>1. next \in Nat \ {0} /\ Image(disk[f], next) /\ disk[f] # EmptyBag /\ disk[g] = EmptyBag
  BY NowFits DEF FileInv, CopySession
<1>2. Tree(m, next)
  BY <1>1, LoadedImage
<1>3. Replace(m, g, TRUE) /\ disk' = [disk EXCEPT ![g] = Whole(m)] /\ next' = next
  BY DEF CopySession
<1> HIDE DEF m
<1>4. disk' = IF TRUE THEN [disk EXCEPT ![g] = Whole(m)] ELSE disk
  BY <1>3
<1>5. IF TRUE THEN disk[g] \in {EmptyBag, Whole(m)} ELSE disk[g] = EmptyBag
  BY <1>1
<1>6. next \in Nat /\ next <= next /\ (Answered(m) => TRUE) /\ TRUE \in BOOLEAN
  BY <1>1
<1> QED
  BY <1>2, <1>3, <1>4, <1>5, <1>6, ReplaceStep

\* What createBranchedSession makes of a path is a tree of old entries and labels
\* with new numbers.
LEMMA BranchIsATree ==
  ASSUME next \in Nat \ {0}, NEW m, Tree(m, next), NEW target
  PROVE  /\ Cardinality(Marked(m, target)) \in Nat
         /\ Tree(Branched(m, target), next + Cardinality(Marked(m, target)))
<1> DEFINE marked == Marked(m, target)
           kept   == Kept(m, target)
           n      == Cardinality(marked)
           b      == Branched(m, target)
<1>1. kept \subseteq 1..(next - 1) /\ marked \subseteq kept
  BY DEF Marked, Kept, Path, Tree
<1>2. IsFiniteSet(marked)
  <2>1. IsFiniteSet(1..(next - 1))
    BY FS_Interval
  <2> QED
    BY <1>1, <2>1, FS_Subset
<1>3. n \in Nat
  BY <1>2, FS_CardinalityType
<1>4. ASSUME NEW t \in marked
      PROVE  Cardinality({u \in marked : u < t}) \in 0..(n - 1)
  <2> DEFINE below == {u \in marked : u < t}
  <2>1. below \subseteq marked /\ t \notin below
    BY <1>1
  <2>2. IsFiniteSet(below) /\ Cardinality(below) <= n /\ Cardinality(below) # n
    BY <1>2, <2>1, FS_Subset
  <2>3. Cardinality(below) \in Nat
    BY <2>2, FS_CardinalityType
  <2> QED
    BY <1>3, <2>2, <2>3
<1> DEFINE new == {next + Cardinality({u \in marked : u < t}) : t \in marked}
<1>5. b = [i \in DOMAIN b |-> b[i]] /\ DOMAIN b = kept \cup new
  BY DEF Branched
<1>6. new \subseteq 1..((next + n) - 1)
  <2> SUFFICES ASSUME NEW t \in marked
               PROVE  next + Cardinality({u \in marked : u < t}) \in 1..((next + n) - 1)
    OBVIOUS
  <2> DEFINE k == Cardinality({u \in marked : u < t})
  <2>1. k \in 0..(n - 1)
    BY <1>4
  <2> HIDE DEF k, n
  <2>2. next + k \in 1..((next + n) - 1)
    BY <1>3, <2>1
  <2> QED
    BY <2>2 DEF k
<1> HIDE DEF marked, kept, new, b
<1>7. DOMAIN b \subseteq 1..((next + n) - 1)
  BY <1>1, <1>3, <1>5, <1>6
<1> HIDE DEF n
<1>8. Tree(b, next + n)
  BY <1>5, <1>7, Zenon DEF Tree
<1> QED
  BY <1>3, <1>8 DEF n, b, marked

LEMMA ForkStep ==
  ASSUME FileInv, NEW f \in Sessions, NEW t, NEW position, ForkBranch(f, t, position)
  PROVE  FileInv' /\ HistoryStep
<1> DEFINE m == Loaded(disk[cur])
           target == ForkTarget(t, position)
           b  == Branched(m, target)
           n  == Cardinality(Marked(m, target))
           fl == Answered(b)
<1>1. next \in Nat \ {0} /\ Image(disk[cur], next) /\ disk[cur] # EmptyBag /\ disk[f] = EmptyBag
  BY NowFits DEF FileInv, ForkBranch
<1>2. Tree(m, next)
  BY <1>1, LoadedImage
<1>3. n \in Nat /\ Tree(b, next + n)
  BY <1>1, <1>2, BranchIsATree
<1>4. /\ Replace(b, f, fl) /\ next' = next + n
      /\ disk' = IF fl THEN [disk EXCEPT ![f] = Whole(b)] ELSE disk
  BY DEF ForkBranch
<1>5. fl \in BOOLEAN
  BY DEF Answered
<1> HIDE DEF m, target, b, n
<1>6. IF fl THEN disk[f] \in {EmptyBag, Whole(b)} ELSE disk[f] = EmptyBag
  BY <1>1
<1>7. next + n \in Nat /\ next <= next + n /\ (Answered(b) => fl)
  BY <1>1, <1>3
<1> HIDE DEF fl
<1> QED
  BY <1>3, <1>4, <1>5, <1>6, <1>7, ReplaceStep

(***************************************************************************)
(* What the files hold                                                     *)
(***************************************************************************)

LEMMA FilesStep ==
  ASSUME FileInv, Next
  PROVE  FileInv' /\ HistoryStep
<1>1. CASE \E kind \in {"user", "assistant", "note"} : Append(kind)
  BY <1>1, AppendStep
<1>2. CASE \E kind \in {"user", "note"} : AppendAtOnce(kind)
  BY <1>2, AppendAtOnceStep
<1>3. CASE \E t \in Ids, n \in Names \cup {NoName} : Bookmark(t, n)
  BY <1>3, BookmarkStep
<1>4. CASE \E t \in DOMAIN mem, summarize \in BOOLEAN, n \in Names \cup {NoName} : Navigate(t, summarize, n)
  BY <1>4, NavigateStep
<1>5. CASE StartCompaction \/ EndCompaction \/ FailCompaction
  BY <1>5, CompactionStep
<1>6. CASE \E f \in Sessions : Open(f)
  BY <1>6, OpenStep
<1>7. CASE \E f \in Sessions, immediately \in BOOLEAN : NewSession(f, immediately)
  BY <1>7, NewSessionStep
<1>8. CASE \E f \in Sessions, t \in DOMAIN mem, position \in {"before", "at"} : ForkBranch(f, t, position)
  BY <1>8, ForkStep
<1>9. CASE \E f \in Sessions, t \in DOMAIN mem : ForkEmpty(f, t)
  BY <1>9, NewSessionStep DEF ForkEmpty
<1>10. CASE \E f, g \in Sessions : CopySession(f, g)
  BY <1>10, CopyStep
<1> QED
  BY <1>1, <1>2, <1>3, <1>4, <1>5, <1>6, <1>7, <1>8, <1>9, <1>10 DEF Next

LEMMA FilesIdle ==
  ASSUME FileInv, UNCHANGED vars
  PROVE  FileInv' /\ HistoryStep
<1>1. UNCHANGED <<mem, leaf, labels, flushed, cur, disk, next>>
  BY DEF vars
<1>2. FileInv'
  BY <1>1 DEF FileInv, Fits, Now, Image, Tree, Answered, OfKind
<1>3. HistoryStep
  BY <1>1, ImagesContain DEF FileInv, HistoryStep
<1> QED
  BY <1>2, <1>3

\* However writing is deferred, forced and repeated, a session file is missing or holds
\* the header and every entry exactly once, and one with an answer is not missing.
THEOREM FilesAreExact == Spec => []FilesAreCopies
<1>1. FileInv => FilesAreCopies
  <2> SUFFICES ASSUME FileInv
               PROVE  FilesAreCopies
    OBVIOUS
  <2>1. disk[cur] = (IF flushed THEN Whole(mem) ELSE EmptyBag) /\ (Answered(mem) => flushed)
    BY DEF FileInv, Fits, Now
  <2>2. \A f \in Sessions : disk[f] # EmptyBag => disk[f] = Whole(Loaded(disk[f]))
    BY NowFits, LoadedImage DEF FileInv
  <2> QED
    BY <2>1, <2>2 DEF FilesAreCopies
<1>2. FileInv /\ [Next]_vars => FileInv'
  BY FilesStep, FilesIdle
<1> QED
  BY InitFiles, <1>1, <1>2, PTL DEF Spec

\* No step, in this session or another, takes a line out of a session file.
THEOREM HistoryIsKept == Spec => HistoryKept
<1>1. FileInv /\ [Next]_vars => FileInv'
  BY FilesStep, FilesIdle
<1>2. FileInv /\ [Next]_vars => [HistoryStep]_vars
  BY FilesStep
<1> QED
  BY InitFiles, <1>1, <1>2, PTL DEF Spec, HistoryKept, HistoryStep

(***************************************************************************)
(* Numbers                                                                 *)
(***************************************************************************)

\* Among some naturals there is a smallest.
LEMMA NatMin ==
  ASSUME NEW S \in SUBSET Nat, S # {}
  PROVE  \E m \in S : \A j \in S : m <= j
<1> DEFINE less == OpToRel(<, Nat)
<1>1. IsWellFoundedOn(less, Nat)
  BY NatLessThanWellFounded
<1>2. less = {pair \in Nat \X Nat : pair[1] < pair[2]}
  BY DEF OpToRel
<1> HIDE DEF less
<1>3. PICK m \in S : \A j \in S : ~(<<j, m>> \in less)
  BY <1>1, WFMin
<1>4. \A j \in S : <<j, m>> \in less <=> j < m
  BY <1>2
<1>5. m \in Nat /\ \A j \in S : j \in Nat /\ ~(j < m)
  BY <1>3, <1>4
<1> QED
  BY <1>5

LEMMA MinIs ==
  ASSUME NEW S \in SUBSET Nat, S # {}
  PROVE  Min(S) \in S /\ \A j \in S : Min(S) <= j
<1>1. \E m \in S : \A j \in S : m =< j
  BY NatMin
<1> QED
  BY <1>1 DEF Min

LEMMA MaxIs ==
  ASSUME NEW n \in Nat, NEW S \in SUBSET (0..n), S # {}
  PROVE  Max(S) \in S /\ \A j \in S : j <= Max(S)
<1> DEFINE above == {k \in Nat : \A j \in S : j <= k}
<1>1. n \in above
  OBVIOUS
<1>2. PICK m \in above : \A j \in above : m <= j
  BY <1>1, NatMin
<1>3. m \in S
  <2> SUFFICES ASSUME m \notin S
               PROVE  FALSE
    OBVIOUS
  <2>1. m \in Nat /\ \A j \in S : j \in Nat /\ j <= m /\ j # m
    BY <1>2
  <2>2. m # 0
    <3>1. PICK s \in S : TRUE
      OBVIOUS
    <3>2. s \in Nat /\ s <= m /\ s # m
      BY <2>1
    <3> QED
      BY <3>2
  <2>3. m - 1 \in above
    <3>1. m - 1 \in Nat /\ \A j \in S : j <= m - 1
      BY <2>1, <2>2
    <3> QED
      BY <3>1
  <2> QED
    BY <1>2, <2>1, <2>3
<1>4. \A j \in S : j \in Nat /\ m \in Nat /\ j <= m
  BY <1>2
<1>5. \A j \in S : m >= j
  BY <1>4
<1>6. Max(S) \in S /\ \A j \in S : Max(S) >= j
  BY <1>3, <1>5 DEF Max
<1>7. Max(S) \in Nat
  BY <1>4, <1>6
<1> QED
  BY <1>4, <1>6, <1>7

LEMMA LatestIs ==
  ASSUME NEW n \in Nat, NEW S \in SUBSET (1..n)
  PROVE  /\ S = {} => Latest(S) = Root
         /\ S # {} => Latest(S) \in S /\ Latest(S) # Root /\ \A j \in S : j <= Latest(S)
<1>1. S \in SUBSET (0..n) /\ 0 \notin S
  OBVIOUS
<1>2. CASE S = {}
  BY <1>2 DEF Latest
<1>3. CASE S # {}
  <2>1. Max(S) \in S /\ \A j \in S : j <= Max(S)
    BY <1>1, <1>3, MaxIs
  <2>2. Latest(S) = Max(S)
    BY <1>3 DEF Latest
  <2> QED
    BY <1>1, <1>3, <2>1, <2>2 DEF Root
<1> QED
  BY <1>2, <1>3

\* What the latest of a set is does not depend on how it was found.
LEMMA LatestFound ==
  ASSUME NEW n \in Nat, NEW S \in SUBSET (1..n), NEW x \in S, \A j \in S : j <= x
  PROVE  Latest(S) = x
<1>1. Latest(S) \in S /\ \A j \in S : j <= Latest(S)
  <2>1. S # {}
    OBVIOUS
  <2> QED
    BY <2>1, LatestIs
<1>2. \A j \in S : j \in Nat
  OBVIOUS
<1>3. Latest(S) \in Nat /\ x \in Nat /\ x <= Latest(S) /\ Latest(S) <= x
  BY <1>1, <1>2
<1> QED
  BY <1>3

(***************************************************************************)
(* Sound trees                                                             *)
(***************************************************************************)

\* Parents and the targets of labels are there, and nothing refers to what came later.
Sound(m) ==
  \A i \in DOMAIN m :
    /\ m[i] \in Entries
    /\ m[i].parent \in {Root} \cup {j \in DOMAIN m : j < i}
    /\ m[i].ref < i
    /\ m[i].kind = "label" => m[i].ref \in DOMAIN m

\* up[j] holds the entries of the map m on the way from j to the root, for every j of S.
IsUp(m, S, up) == up = [j \in S |-> IF j \in DOMAIN m THEN {j} \cup up[m[j].parent] ELSE {}]

\* The recursion along the parents ends: Path is defined.
LEMMA UpIsDefined ==
  ASSUME NEW m, NEW n \in Nat, DOMAIN m \subseteq 1..n,
         \A i \in DOMAIN m : m[i].parent \in 0..(i - 1)
  PROVE  \E up : IsUp(m, 0..n, up)
<1> DEFINE Upto(k) == \E up : IsUp(m, 0..k, up)
           bad == {k \in Nat : ~Upto(k)}
<1>1. Upto(0)
  <2> DEFINE up == [j \in 0..0 |-> {}]
  <2>1. \A j \in 0..0 : j \notin DOMAIN m
    OBVIOUS
  <2>2. IsUp(m, 0..0, up)
    BY <2>1 DEF IsUp
  <2> QED
    BY <2>2
<1>2. ASSUME NEW k \in Nat, Upto(k)
      PROVE  Upto(k + 1)
  <2>1. PICK up : IsUp(m, 0..k, up)
    BY <1>2
  <2> DEFINE top  == IF k + 1 \in DOMAIN m THEN {k + 1} \cup up[m[k + 1].parent] ELSE {}
             more == [j \in 0..(k + 1) |-> IF j = k + 1 THEN top ELSE up[j]]
  <2>2. \A j \in 0..k : up[j] = IF j \in DOMAIN m THEN {j} \cup up[m[j].parent] ELSE {}
    BY <2>1 DEF IsUp
  <2>3. \A j \in 0..k : j \in 0..(k + 1) /\ j # k + 1
    OBVIOUS
  <2>4. \A j \in 0..k : more[j] = up[j]
    BY <2>3
  <2>5. more[k + 1] = top
    OBVIOUS
  <2>6. \A j \in 0..(k + 1) : j = k + 1 \/ j \in 0..k
    OBVIOUS
  <2>7. \A j \in DOMAIN m : j \in 0..(k + 1) => m[j].parent \in 0..k
    <3>1. \A j \in DOMAIN m : j \in 0..(k + 1) => 0..(j - 1) \subseteq 0..k
      OBVIOUS
    <3> QED
      BY <3>1
  <2> HIDE DEF more
  <2>8. \A j \in 0..(k + 1) : more[j] = IF j \in DOMAIN m THEN {j} \cup more[m[j].parent] ELSE {}
    <3> TAKE j \in 0..(k + 1)
    <3>1. CASE j = k + 1
      BY <2>4, <2>5, <2>7, <3>1
    <3>2. CASE j \in 0..k
      BY <2>2, <2>3, <2>4, <2>7, <3>2
    <3> QED
      BY <2>6, <3>1, <3>2
  <2>9. more = [j \in 0..(k + 1) |-> more[j]]
    BY DEF more
  <2>10. IsUp(m, 0..(k + 1), more)
    BY <2>8, <2>9 DEF IsUp
  <2> QED
    BY <2>10
<1> HIDE DEF Upto
<1>3. bad = {}
  <2> SUFFICES ASSUME bad # {}
               PROVE  FALSE
    OBVIOUS
  <2>1. PICK k \in bad : \A j \in bad : k <= j
    BY NatMin
  <2>2. k \in Nat /\ ~Upto(k) /\ k # 0
    BY <1>1, <2>1
  <2>3. k - 1 \in Nat /\ k - 1 \notin bad
    BY <2>1, <2>2
  <2>4. Upto((k - 1) + 1)
    BY <1>2, <2>3
  <2>5. (k - 1) + 1 = k
    BY <2>2
  <2> QED
    BY <2>2, <2>4, <2>5
<1>4. Upto(n)
  BY <1>3
<1> QED
  BY <1>4 DEF Upto

\* The path to an entry is the entry and the path to its parent.
LEMMA PathIs ==
  ASSUME NEW m, Sound(m), DOMAIN m \subseteq Ids
  PROVE  /\ Path(m, Root) = {}
         /\ \A i \in DOMAIN m : Path(m, i) = {i} \cup Path(m, m[i].parent)
<1> DEFINE nodes == Ids \cup {Root}
           up == CHOOSE u : u = [j \in nodes |-> IF j \in DOMAIN m THEN {j} \cup u[m[j].parent] ELSE {}]
<1>1. \A i : Path(m, i) = {j \in DOMAIN m : j \in up[i]}
  BY DEF Path
<1>2. nodes = 0..MaxEntries /\ DOMAIN m \subseteq 1..MaxEntries /\ MaxEntries \in Nat /\ Root = 0
  BY TreeAssumption DEF Ids, Root
<1>3. \A i \in DOMAIN m : m[i].parent \in 0..(i - 1)
  <2> TAKE i \in DOMAIN m
  <2>1. m[i].parent \in {Root} \cup {j \in DOMAIN m : j < i}
    BY DEF Sound
  <2> QED
    BY <1>2, <2>1
<1>4. \E u : u = [j \in nodes |-> IF j \in DOMAIN m THEN {j} \cup u[m[j].parent] ELSE {}]
  <2>1. \E u : IsUp(m, 0..MaxEntries, u)
    <3>1. MaxEntries \in Nat /\ DOMAIN m \subseteq 1..MaxEntries
      BY <1>2
    <3> HIDE DEF nodes, up
    <3> QED
      BY <1>3, <3>1, UpIsDefined
  <2> HIDE DEF nodes
  <2>2. \E u : IsUp(m, nodes, u)
    BY <1>2, <2>1
  <2> QED
    BY <2>2 DEF IsUp
<1>5. up = [j \in nodes |-> IF j \in DOMAIN m THEN {j} \cup up[m[j].parent] ELSE {}]
  BY <1>4
<1> HIDE DEF up, nodes
<1>6. \A j \in nodes : up[j] = IF j \in DOMAIN m THEN {j} \cup up[m[j].parent] ELSE {}
  BY <1>5
<1>7. Root \in nodes /\ Root \notin DOMAIN m /\ DOMAIN m \subseteq nodes
  BY <1>2
<1>8. Path(m, Root) = {}
  BY <1>1, <1>6, <1>7
<1>9. \A i \in DOMAIN m : Path(m, i) = {i} \cup Path(m, m[i].parent)
  <2> TAKE i \in DOMAIN m
  <2> DEFINE p == m[i].parent
  <2>1. up[i] = {i} \cup up[p]
    BY <1>6, <1>7
  <2> HIDE DEF p
  <2>2. Path(m, i) = {j \in DOMAIN m : j \in up[i]} /\ Path(m, p) = {j \in DOMAIN m : j \in up[p]}
    BY <1>1
  <2>3. Path(m, i) = {i} \cup Path(m, p)
    BY <2>1, <2>2
  <2> QED
    BY <2>3 DEF p
<1> QED
  BY <1>8, <1>9

\* A path goes down from its entry, and from each entry it meets the rest of it is
\* the path to that entry.
LEMMA PathBelow ==
  ASSUME NEW m, Sound(m), DOMAIN m \subseteq Ids, NEW i \in DOMAIN m \cup {Root}
  PROVE  /\ Path(m, i) \subseteq DOMAIN m
         /\ i # Root => i \in Path(m, i)
         /\ \A j \in Path(m, i) : j <= i /\ Path(m, j) = {k \in Path(m, i) : k <= j}
<1> DEFINE Good(x) == /\ Path(m, x) \subseteq DOMAIN m
                      /\ x # Root => x \in Path(m, x)
                      /\ \A j \in Path(m, x) : j <= x /\ Path(m, j) = {k \in Path(m, x) : k <= j}
           bad == {x \in DOMAIN m \cup {Root} : ~Good(x)}
<1>1. DOMAIN m \subseteq Nat /\ Root \in Nat /\ Root \notin DOMAIN m
  BY TreeAssumption DEF Ids, Root
<1>2. Good(Root)
  BY PathIs
<1>3. ASSUME NEW x \in DOMAIN m, Good(m[x].parent)
      PROVE  Good(x)
  <2> DEFINE up == m[x].parent
             P  == Path(m, up)
             Q  == Path(m, x)
  <2>1. up \in {Root} \cup {j \in DOMAIN m : j < x} /\ Q = {x} \cup P
    BY PathIs DEF Sound
  <2>2. P \subseteq DOMAIN m /\ \A j \in P : j <= up /\ Path(m, j) = {k \in P : k <= j}
    BY <1>3
  <2>3. x \in Nat /\ up \in Nat
    BY <1>1, <2>1
  <2> HIDE DEF up, P, Good
  <2>4. \A j \in P : j < x
    <3> TAKE j \in P
    <3>1. j \in DOMAIN m /\ j \in Nat /\ j <= up
      BY <1>1, <2>2
    <3>2. up # Root
      BY <1>1, <3>1 DEF Root
    <3>3. up < x
      BY <2>1, <3>2
    <3> QED
      BY <2>3, <3>1, <3>3
  <2>5. P = Path(m, up)
    BY DEF P
  <2> HIDE DEF Q
  <2>6. Path(m, x) = Q
    BY DEF Q
  <2>7. Q = {k \in Q : k <= x}
    BY <2>1, <2>2, <2>4, <2>3, <1>1
  <2>8. ASSUME NEW j \in P
        PROVE  {k \in P : k <= j} = {k \in Q : k <= j}
    <3>1. j \in Nat /\ j < x
      BY <1>1, <2>2, <2>4
    <3>2. ~(x <= j)
      BY <2>3, <3>1
    <3> QED
      BY <2>1, <3>2
  <2>9. \A j \in Q : j <= x /\ Path(m, j) = {k \in Q : k <= j}
    <3> TAKE j \in Q
    <3>1. CASE j = x
      BY <2>3, <2>6, <2>7, <3>1
    <3>2. CASE j \in P
      <4>1. Path(m, j) = {k \in P : k <= j}
        BY <2>2, <3>2
      <4>2. j \in Nat /\ j < x
        BY <1>1, <2>2, <2>4, <3>2
      <4>3. j <= x
        BY <2>3, <4>2
      <4> QED
        BY <2>8, <3>2, <4>1, <4>3
    <3> QED
      BY <2>1, <3>1, <3>2
  <2>10. Q \subseteq DOMAIN m /\ x \in Q
    BY <2>1, <2>2
  <2> QED
    BY <2>6, <2>9, <2>10 DEF Good
<1> HIDE DEF Good
<1>4. bad = {}
  <2> SUFFICES ASSUME bad # {}
               PROVE  FALSE
    OBVIOUS
  <2>1. bad \in SUBSET Nat
    BY <1>1
  <2>2. PICK x \in bad : \A y \in bad : x <= y
    BY <2>1, NatMin
  <2>3. x \in DOMAIN m /\ ~Good(x)
    BY <1>2, <2>2
  <2>4. m[x].parent \in {Root} \cup {j \in DOMAIN m : j < x}
    BY <2>3 DEF Sound
  <2>5. ~(x <= m[x].parent) \/ m[x].parent = Root
    BY <1>1, <2>3, <2>4
  <2>6. m[x].parent \notin bad
    BY <1>2, <2>2, <2>5
  <2>7. Good(m[x].parent)
    BY <2>4, <2>6
  <2> QED
    BY <1>3, <2>3, <2>7
<1>5. Good(i)
  BY <1>4
<1> QED
  BY <1>5 DEF Good

\* A tree that grows keeps the paths it had.
LEMMA PathsStay ==
  ASSUME NEW m, Sound(m), DOMAIN m \subseteq Ids, NEW m2, Sound(m2), DOMAIN m2 \subseteq Ids,
         DOMAIN m \subseteq DOMAIN m2, \A i \in DOMAIN m : m2[i].parent = m[i].parent,
         NEW i \in DOMAIN m \cup {Root}
  PROVE  Path(m2, i) = Path(m, i)
<1> DEFINE bad == {x \in DOMAIN m \cup {Root} : Path(m2, x) # Path(m, x)}
<1>1. DOMAIN m \subseteq Nat /\ Root \in Nat /\ Root \notin DOMAIN m
  BY TreeAssumption DEF Ids, Root
<1>2. bad = {}
  <2> SUFFICES ASSUME bad # {}
               PROVE  FALSE
    OBVIOUS
  <2>1. bad \in SUBSET Nat
    BY <1>1
  <2>2. PICK x \in bad : \A y \in bad : x <= y
    BY <2>1, NatMin
  <2>3. Path(m2, Root) = {} /\ Path(m, Root) = {}
    BY PathIs
  <2>4. x \in DOMAIN m
    BY <2>2, <2>3
  <2>5. Path(m, x) = {x} \cup Path(m, m[x].parent)
    BY <2>4, PathIs
  <2>6. Path(m2, x) = {x} \cup Path(m2, m[x].parent)
    BY <2>4, PathIs
  <2>7. m[x].parent \in {Root} \cup {j \in DOMAIN m : j < x}
    BY <2>4 DEF Sound
  <2>8. m[x].parent \notin bad
    BY <1>1, <2>2, <2>3, <2>4, <2>7
  <2>9. Path(m2, m[x].parent) = Path(m, m[x].parent)
    BY <2>7, <2>8
  <2> QED
    BY <2>2, <2>5, <2>6, <2>9
<1> QED
  BY <1>2

(***************************************************************************)
(* Labels                                                                  *)
(***************************************************************************)

LabelsOf(m, t)  == {i \in OfKind(m, DOMAIN m, {"label"}) : m[i].ref = t}
LastLabel(m, t) == Latest(LabelsOf(m, t))
Named(m)        == {t \in DOMAIN m : LastLabel(m, t) # Root /\ m[LastLabel(m, t)].name # NoName}

LEMMA LabelsAre ==
  ASSUME NEW m
  PROVE  Labels(m) = [t \in Named(m) |-> m[LastLabel(m, t)].name]
BY DEF Labels, Named, LastLabel, LabelsOf

LEMMA LastLabelIs ==
  ASSUME NEW m, Sound(m), DOMAIN m \subseteq Ids, NEW t
  PROVE  /\ LabelsOf(m, t) \in SUBSET (1..MaxEntries)
         /\ LabelsOf(m, t) \subseteq DOMAIN m
         /\ LastLabel(m, t) # Root => LastLabel(m, t) \in LabelsOf(m, t)
<1>1. LabelsOf(m, t) \subseteq DOMAIN m /\ LabelsOf(m, t) \in SUBSET (1..MaxEntries)
  BY DEF LabelsOf, OfKind, Ids
<1>2. LabelsOf(m, t) = {} => LastLabel(m, t) = Root
  BY <1>1, LatestIs, TreeAssumption DEF LastLabel
<1>3. LabelsOf(m, t) # {} => LastLabel(m, t) \in LabelsOf(m, t)
  BY <1>1, LatestIs, TreeAssumption DEF LastLabel
<1> QED
  BY <1>1, <1>2, <1>3

\* Bookmarks are on entries that are there, and have a name.
LEMMA LabelsAreNames ==
  ASSUME NEW m, Sound(m), DOMAIN m \subseteq Ids
  PROVE  DOMAIN Labels(m) \subseteq DOMAIN m /\ \A t \in DOMAIN Labels(m) : Labels(m)[t] \in Names
<1>1. DOMAIN Labels(m) = Named(m) /\ \A t \in Named(m) : Labels(m)[t] = m[LastLabel(m, t)].name
  BY LabelsAre
<1>2. \A t \in Named(m) : m[LastLabel(m, t)].name \in Names
  <2> TAKE t \in Named(m)
  <2>1. LastLabel(m, t) # Root /\ m[LastLabel(m, t)].name # NoName
    BY DEF Named
  <2>2. LastLabel(m, t) \in DOMAIN m
    BY <2>1, LastLabelIs
  <2>3. m[LastLabel(m, t)] \in Entries
    BY <2>2 DEF Sound
  <2> QED
    BY <2>1, <2>3 DEF Entries
<1>3. Named(m) \subseteq DOMAIN m
  BY DEF Named
<1> QED
  BY <1>1, <1>2, <1>3

\* The tree m with the entry e under the number n.
Grown(m, n, e) == [i \in DOMAIN m \cup {n} |-> IF i = n THEN e ELSE m[i]]

\* What an entry has to be for the tree to stay sound.
Fitting(m, n, e) ==
  /\ e \in Entries
  /\ e.parent \in DOMAIN m \cup {Root}
  /\ e.ref < n
  /\ e.kind = "label" => e.ref \in DOMAIN m

LEMMA GrownIsSound ==
  ASSUME NEW m, Sound(m), NEW n \in Ids, DOMAIN m \subseteq 1..(n - 1), NEW e, Fitting(m, n, e)
  PROVE  /\ Sound(Grown(m, n, e))
         /\ DOMAIN Grown(m, n, e) = DOMAIN m \cup {n}
         /\ Grown(m, n, e)[n] = e
         /\ \A i \in DOMAIN m : Grown(m, n, e)[i] = m[i] /\ i # n
<1> DEFINE g == Grown(m, n, e)
<1>1. \A i \in DOMAIN m : i \in Nat /\ i < n /\ i # n
  <2>1. n \in Nat
    BY TreeAssumption DEF Ids
  <2> QED
    BY <2>1
<1>2. DOMAIN g = DOMAIN m \cup {n} /\ g[n] = e /\ \A i \in DOMAIN m : g[i] = m[i] /\ i # n
  BY <1>1 DEF Grown
<1> HIDE DEF g
<1>3. Sound(g)
  <2> SUFFICES ASSUME NEW i \in DOMAIN g
               PROVE  /\ g[i] \in Entries
                      /\ g[i].parent \in {Root} \cup {j \in DOMAIN g : j < i}
                      /\ g[i].ref < i
                      /\ g[i].kind = "label" => g[i].ref \in DOMAIN g
    BY DEF Sound
  <2>1. CASE i = n
    BY <1>1, <1>2, <2>1 DEF Fitting
  <2>2. CASE i \in DOMAIN m
    <3>1. /\ m[i] \in Entries
          /\ m[i].parent \in {Root} \cup {j \in DOMAIN m : j < i}
          /\ m[i].ref < i
          /\ m[i].kind = "label" => m[i].ref \in DOMAIN m
      BY <2>2 DEF Sound
    <3> QED
      BY <1>2, <2>2, <3>1
  <2> QED
    BY <1>2, <2>1, <2>2
<1> QED
  BY <1>2, <1>3 DEF g

\* Adding to the map of bookmarks is what replaying the label entries would give.
LEMMA GrownLabels ==
  ASSUME NEW m, Sound(m), NEW n \in Ids, DOMAIN m \subseteq 1..(n - 1), NEW e, Fitting(m, n, e)
  PROVE  Labels(Grown(m, n, e)) = IF e.kind = "label" THEN Labelled(Labels(m), e.ref, e.name) ELSE Labels(m)
<1> DEFINE g == Grown(m, n, e)
<1>1. /\ Sound(g) /\ DOMAIN g = DOMAIN m \cup {n} /\ g[n] = e
      /\ \A i \in DOMAIN m : g[i] = m[i] /\ i # n
  <2> HIDE DEF g
  <2>1. g = Grown(m, n, e)
    BY DEF g
  <2>2. Sound(Grown(m, n, e))
    BY GrownIsSound
  <2>3. DOMAIN Grown(m, n, e) = DOMAIN m \cup {n}
    BY GrownIsSound
  <2>4. \A i \in DOMAIN m : i # n
    BY GrownIsSound
  <2>5. Grown(m, n, e)[n] = e
    BY DEF Grown
  <2>6. \A i \in DOMAIN m : Grown(m, n, e)[i] = m[i]
    BY <2>4 DEF Grown
  <2> QED
    BY <2>1, <2>2, <2>3, <2>4, <2>5, <2>6
<1>2. n \in Nat /\ DOMAIN m \subseteq Ids /\ DOMAIN g \subseteq Ids /\ MaxEntries \in Nat
  BY <1>1, TreeAssumption DEF Ids
<1>3. n \notin DOMAIN m
  BY <1>1
<1> HIDE DEF g
<1>4. \A t : LabelsOf(g, t) = LabelsOf(m, t) \cup (IF e.kind = "label" /\ e.ref = t THEN {n} ELSE {})
  BY <1>1, <1>3 DEF LabelsOf, OfKind
<1>5. \A t : ~(e.kind = "label" /\ e.ref = t) => LastLabel(g, t) = LastLabel(m, t)
  BY <1>4 DEF LastLabel
<1>6. ASSUME e.kind = "label"
      PROVE  LastLabel(g, e.ref) = n
  <2>1. LabelsOf(g, e.ref) \in SUBSET (1..MaxEntries) /\ n \in LabelsOf(g, e.ref)
    BY <1>1, <1>2, <1>4, <1>6, LastLabelIs
  <2>2. LabelsOf(m, e.ref) \subseteq 1..(n - 1)
    BY <1>2, LastLabelIs
  <2>3. \A j \in LabelsOf(g, e.ref) : j <= n
    BY <1>2, <1>4, <2>2
  <2> QED
    BY <1>2, <2>1, <2>3, LatestFound DEF LastLabel
<1>7. \A t : LastLabel(m, t) # Root => LastLabel(m, t) \in DOMAIN m /\ LastLabel(g, t) # Root
  <2> TAKE t
  <2>1. LastLabel(m, t) # Root => LastLabel(m, t) \in DOMAIN m
    BY <1>2, LastLabelIs
  <2>2. n # Root
    BY <1>2 DEF Ids, Root
  <2> QED
    BY <1>5, <1>6, <2>1, <2>2
<1>8. n \notin Named(g)
  <2>1. LabelsOf(g, n) = {}
    BY <1>1, <1>2 DEF LabelsOf, OfKind, Sound, Ids
  <2>2. LastLabel(g, n) = Root
    BY <2>1 DEF LastLabel, Latest
  <2> QED
    BY <2>2 DEF Named
<1>9. \A t : ~(e.kind = "label" /\ e.ref = t) =>
           /\ t \in Named(g) <=> t \in Named(m)
           /\ t \in Named(m) => g[LastLabel(g, t)].name = m[LastLabel(m, t)].name
  BY <1>1, <1>5, <1>7, <1>8, <1>3 DEF Named
<1>10. /\ Labels(m) = [t \in Named(m) |-> m[LastLabel(m, t)].name]
       /\ Labels(g) = [t \in Named(g) |-> g[LastLabel(g, t)].name]
  BY LabelsAre
<1>11. CASE e.kind # "label"
  <2>1. Named(g) = Named(m)
    BY <1>9, <1>11
  <2> QED
    BY <1>9, <1>10, <1>11, <2>1 DEF g
<1>12. CASE e.kind = "label"
  <2> DEFINE old == Labels(m)
             t0  == e.ref
  <2>1. t0 \in DOMAIN g /\ LastLabel(g, t0) = n /\ n # Root /\ g[LastLabel(g, t0)].name = e.name
    BY <1>1, <1>2, <1>6, <1>12 DEF Fitting, Ids, Root
  <2>2. t0 \in Named(g) <=> e.name # NoName
    BY <2>1 DEF Named
  <2>3. DOMAIN old = Named(m) /\ \A t \in Named(m) : old[t] = m[LastLabel(m, t)].name
    BY <1>10
  <2>4. Named(g) = IF e.name = NoName THEN DOMAIN old \ {t0} ELSE DOMAIN old \cup {t0}
    <3> HIDE DEF old
    <3> QED
      BY <1>9, <1>12, <2>2, <2>3
  <2>5. Labelled(old, t0, e.name) = [i \in Named(g) |-> IF i = t0 THEN e.name ELSE old[i]]
    BY <2>4 DEF Labelled
  <2> HIDE DEF old
  <2>6. \A i \in Named(g) : g[LastLabel(g, i)].name = IF i = t0 THEN e.name ELSE old[i]
    BY <1>9, <1>12, <2>1, <2>3
  <2>7. Labels(g) = Labelled(old, t0, e.name)
    BY <1>10, <2>5, <2>6
  <2> QED
    BY <1>12, <2>7 DEF g, old
<1> QED
  BY <1>11, <1>12

(***************************************************************************)
(* Counting: the numbers of the labels written behind a branch             *)
(***************************************************************************)

Below(S, t) == Cardinality({u \in S : u < t})

LEMMA BelowIs ==
  ASSUME NEW k \in Nat, NEW S \in SUBSET (1..k)
  PROVE  /\ IsFiniteSet(S) /\ Cardinality(S) \in Nat
         /\ \A t \in S : Below(S, t) \in 0..(Cardinality(S) - 1)
<1>1. IsFiniteSet(S)
  <2>1. IsFiniteSet(1..k)
    BY FS_Interval
  <2> QED
    BY <2>1, FS_Subset
<1>2. Cardinality(S) \in Nat
  BY <1>1, FS_CardinalityType
<1>3. ASSUME NEW t \in S
      PROVE  Below(S, t) \in 0..(Cardinality(S) - 1)
  <2> DEFINE below == {u \in S : u < t}
  <2>1. below \subseteq S /\ t \notin below
    OBVIOUS
  <2>2. IsFiniteSet(below) /\ Cardinality(below) <= Cardinality(S) /\ Cardinality(below) # Cardinality(S)
    BY <1>1, <2>1, FS_Subset
  <2>3. Cardinality(below) \in Nat
    BY <2>2, FS_CardinalityType
  <2>4. Below(S, t) = Cardinality(below)
    BY DEF Below
  <2> QED
    BY <1>2, <2>2, <2>3, <2>4
<1> QED
  BY <1>1, <1>2, <1>3

LEMMA BelowOrders ==
  ASSUME NEW k \in Nat, NEW S \in SUBSET (1..k), NEW t \in S, NEW u \in S, t # u
  PROVE  Below(S, t) # Below(S, u)
<1>1. ASSUME NEW x \in S, NEW y \in S, x < y
      PROVE  Below(S, x) # Below(S, y)
  <2> DEFINE low  == {v \in S : v < x}
             high == {v \in S : v < y}
  <2>1. low \subseteq high /\ low # high /\ high \subseteq S
    <3>1. \A v \in S : v \in Nat
      OBVIOUS
    <3>2. low \subseteq high
      <4>1. \A v \in S : v < x => v < y
        BY <1>1, <3>1
      <4> QED
        BY <4>1
    <3>3. x \in high /\ x \notin low
      BY <1>1, <3>1
    <3> QED
      BY <3>2, <3>3
  <2>2. IsFiniteSet(high)
    BY <2>1, BelowIs, FS_Subset
  <2> HIDE DEF low, high
  <2>3. Cardinality(low) # Cardinality(high)
    BY <2>1, <2>2, FS_Subset
  <2> QED
    BY <2>3 DEF Below, low, high
<1>2. t \in Nat /\ u \in Nat
  OBVIOUS
<1>3. t < u \/ u < t
  BY <1>2
<1> QED
  BY <1>1, <1>3

\* The counts leave no gap.
LEMMA BelowIsDense ==
  ASSUME NEW k \in Nat, NEW S \in SUBSET (1..k), NEW t \in S, Below(S, t) # 0
  PROVE  \E u \in S : Below(S, u) = Below(S, t) - 1
<1> DEFINE below == {v \in S : v < t}
<1>1. \A v \in S : v \in Nat
  OBVIOUS
<1>2. below \in SUBSET (0..k) /\ below \subseteq S
  <2>1. \A v \in S : v \in 0..k
    OBVIOUS
  <2> QED
    BY <2>1
<1>3. Below(S, t) = Cardinality(below)
  BY DEF Below
<1>4. below # {}
  BY <1>3, FS_EmptySet
<1> HIDE DEF below
<1>5. PICK x \in below : \A v \in below : v <= x
  BY <1>2, <1>4, MaxIs
<1> DEFINE lower == {v \in S : v < x}
<1>6. x \in S /\ x < t /\ below = lower \cup {x} /\ x \notin lower
  <2>1. x \in S /\ x < t /\ x \in Nat /\ t \in Nat
    BY <1>1, <1>2 DEF below
  <2>2. \A v \in S : v < t <=> v < x \/ v = x
    <3> TAKE v \in S
    <3>1. v < t => v <= x
      BY <1>5 DEF below
    <3> QED
      BY <1>1, <2>1, <3>1
  <2>3. \A v \in S : v \in below <=> v \in lower \cup {x}
    BY <2>2 DEF below
  <2>4. lower \subseteq S /\ x \notin lower
    BY <2>1
  <2>5. below = lower \cup {x}
    <3> HIDE DEF lower
    <3> QED
      BY <1>2, <2>1, <2>3, <2>4
  <2> QED
    BY <2>1, <2>4, <2>5
<1>7. IsFiniteSet(lower)
  <2>1. lower \subseteq S
    OBVIOUS
  <2> QED
    BY <2>1, BelowIs, FS_Subset
<1> HIDE DEF lower
<1>8. Cardinality(below) = Cardinality(lower) + 1 /\ Cardinality(lower) \in Nat
  BY <1>6, <1>7, FS_AddElement, FS_CardinalityType
<1>9. Below(S, x) = Cardinality(lower)
  BY DEF Below, lower
<1>10. Below(S, x) = Below(S, t) - 1
  BY <1>3, <1>8, <1>9
<1> QED
  BY <1>6, <1>10

(***************************************************************************)
(* A branch                                                                *)
(***************************************************************************)

\* The number of the label written for the entry t, and back.
Mark(m, target, t)   == next + Below(Marked(m, target), t)
Marks(m, target)     == {Mark(m, target, t) : t \in Marked(m, target)}
MarkOf(m, target, i) == CHOOSE t \in Marked(m, target) : Mark(m, target, t) = i

LEMMA BranchIs ==
  ASSUME NEW m, NEW target
  PROVE  Branched(m, target) =
           [i \in Kept(m, target) \cup Marks(m, target) |->
              IF i \in Kept(m, target) THEN [m[i] EXCEPT !.parent = Latest({j \in Kept(m, target) : j < i})]
              ELSE [kind |-> "label", parent |-> IF i = next THEN Latest(Kept(m, target)) ELSE i - 1,
                    ref |-> MarkOf(m, target, i), name |-> Labels(m)[MarkOf(m, target, i)]]]
BY DEF Branched, Marks, Mark, MarkOf, Below

LEMMA MarksAre ==
  ASSUME next \in Nat \ {0}, NEW m, DOMAIN m \subseteq 1..(next - 1), NEW target
  PROVE  /\ Kept(m, target) \subseteq 1..(next - 1) /\ Kept(m, target) \subseteq DOMAIN m
         /\ Marked(m, target) \subseteq Kept(m, target) \cap DOMAIN Labels(m)
         /\ Marks(m, target) \subseteq next..((next + Cardinality(Marked(m, target))) - 1)
         /\ \A t \in Marked(m, target) : MarkOf(m, target, Mark(m, target, t)) = t
         /\ \A i \in Marks(m, target) :
              /\ MarkOf(m, target, i) \in Marked(m, target)
              /\ Mark(m, target, MarkOf(m, target, i)) = i
              /\ i # next => i - 1 \in Marks(m, target)
<1> DEFINE kept   == Kept(m, target)
           marked == Marked(m, target)
           n      == Cardinality(marked)
           k      == next - 1
<1>1. kept \subseteq 1..k /\ kept \subseteq DOMAIN m /\ marked \subseteq kept \cap DOMAIN Labels(m)
  BY DEF Marked, Kept, Path
<1>2. k \in Nat /\ marked \in SUBSET (1..k)
  BY <1>1
<1> HIDE DEF k
<1>3. n \in Nat /\ \A t \in marked : Below(marked, t) \in 0..(n - 1)
  BY <1>2, BelowIs
<1>4. \A t \in marked : Mark(m, target, t) = next + Below(marked, t)
  BY DEF Mark
<1> HIDE DEF kept, marked, n
<1>5. \A t \in marked : Mark(m, target, t) \in next..((next + n) - 1)
  <2> TAKE t \in marked
  <2> DEFINE b == Below(marked, t)
  <2>1. b \in 0..(n - 1)
    BY <1>3
  <2> HIDE DEF b
  <2>2. next + b \in next..((next + n) - 1)
    BY <1>3, <2>1
  <2> QED
    BY <1>4, <2>2 DEF b
<1>6. ASSUME NEW t \in marked, NEW u \in marked, Mark(m, target, t) = Mark(m, target, u)
      PROVE  t = u
  <2>1. Below(marked, t) \in Nat /\ Below(marked, u) \in Nat
    BY <1>3
  <2>2. next + Below(marked, t) = next + Below(marked, u)
    BY <1>4, <1>6
  <2>3. Below(marked, t) = Below(marked, u)
    BY <2>1, <2>2
  <2> QED
    BY <1>2, <2>3, BelowOrders
<1>7. \A t \in marked : MarkOf(m, target, Mark(m, target, t)) = t
  <2> TAKE t \in marked
  <2>1. MarkOf(m, target, Mark(m, target, t)) \in marked
        /\ Mark(m, target, MarkOf(m, target, Mark(m, target, t))) = Mark(m, target, t)
    BY DEF MarkOf, marked
  <2> QED
    BY <1>6, <2>1
<1>8. ASSUME NEW i \in Marks(m, target)
      PROVE  /\ MarkOf(m, target, i) \in marked
             /\ Mark(m, target, MarkOf(m, target, i)) = i
             /\ i # next => i - 1 \in Marks(m, target)
  <2>1. PICK t \in marked : Mark(m, target, t) = i
    BY DEF Marks, marked
  <2>2. MarkOf(m, target, i) = t
    BY <1>7, <2>1
  <2>3. ASSUME i # next
        PROVE  i - 1 \in Marks(m, target)
    <3>1. Below(marked, t) \in Nat /\ i = next + Below(marked, t)
      BY <1>3, <1>4, <2>1
    <3>2. Below(marked, t) # 0
      BY <2>3, <3>1
    <3>3. PICK u \in marked : Below(marked, u) = Below(marked, t) - 1
      BY <1>2, <3>2, BelowIsDense
    <3>4. Mark(m, target, u) = next + Below(marked, u) /\ Below(marked, u) \in Nat
      BY <1>3, <1>4
    <3>5. Mark(m, target, u) = i - 1
      BY <3>1, <3>3, <3>4
    <3> QED
      BY <3>5 DEF Marks, marked
  <2> QED
    BY <2>1, <2>2, <2>3
<1>9. Marks(m, target) \subseteq next..((next + n) - 1)
  BY <1>5 DEF Marks, marked
<1>10. kept \subseteq 1..(next - 1)
  BY <1>1 DEF k
<1> QED
  BY <1>1, <1>7, <1>8, <1>9, <1>10 DEF kept, marked, n

\* Chaining the path anew and writing its labels behind it gives a sound tree.
LEMMA BranchIsSound ==
  ASSUME next \in Nat \ {0}, NEW m, Sound(m), DOMAIN m \subseteq 1..(next - 1), NEW target,
         next + Cardinality(Marked(m, target)) <= MaxEntries + 1
  PROVE  Sound(Branched(m, target))
<1> DEFINE kept   == Kept(m, target)
           marked == Marked(m, target)
           marks  == Marks(m, target)
           b      == Branched(m, target)
           of(i)  == MarkOf(m, target, i)
           before(i) == Latest({j \in kept : j < i})
           n      == Cardinality(marked)
<1>1. /\ kept \subseteq 1..(next - 1) /\ kept \subseteq DOMAIN m /\ marked \subseteq kept /\ marked \subseteq DOMAIN Labels(m)
      /\ marks \subseteq next..((next + n) - 1)
      /\ \A i \in marks : of(i) \in marked /\ (i # next => i - 1 \in marks)
  BY MarksAre
<1>2. /\ DOMAIN b = kept \cup marks
      /\ \A i \in kept : b[i] = [m[i] EXCEPT !.parent = before(i)]
      /\ \A i \in marks \ kept : b[i] = [kind |-> "label", parent |-> IF i = next THEN Latest(kept) ELSE i - 1,
                                  ref |-> of(i), name |-> Labels(m)[of(i)]]
  BY BranchIs
<1>3. n \in Nat /\ MaxEntries \in Nat
  <2>1. next - 1 \in Nat /\ marked \in SUBSET (1..(next - 1))
    BY <1>1
  <2> HIDE DEF marked
  <2>2. Cardinality(marked) \in Nat
    BY <2>1, BelowIs
  <2> QED
    BY <2>2, TreeAssumption
<1>4. \A i \in kept : i \in Nat /\ i < next /\ i \in Ids
  <2>1. \A i \in 1..(next - 1) : i \in Nat /\ i < next /\ i \in 1..MaxEntries
    BY <1>3
  <2> QED
    BY <1>1, <2>1 DEF Ids
<1>5. \A i \in marks : i \in Nat /\ next <= i /\ i \in Ids
  <2>1. \A i \in next..((next + n) - 1) : i \in Nat /\ next <= i /\ i \in 1..MaxEntries
    BY <1>3
  <2> QED
    BY <1>1, <2>1 DEF Ids
<1>6. \A i \in kept : m[i] \in Entries /\ m[i].kind # "label" /\ m[i].ref < i
  BY <1>1 DEF Sound, Kept
<1>7. \A i : before(i) \in {Root} \cup {j \in kept : j < i}
  <2> TAKE i
  <2> DEFINE S == {j \in kept : j < i}
  <2>1. S \in SUBSET (1..(next - 1)) /\ next - 1 \in Nat
    BY <1>1
  <2> HIDE DEF S, kept
  <2>2. Latest(S) = Root \/ Latest(S) \in S
    BY <2>1, LatestIs
  <2> QED
    BY <2>2 DEF S
<1>8. Latest(kept) \in {Root} \cup kept
  <2>1. next - 1 \in Nat
    OBVIOUS
  <2> QED
    BY <1>1, <2>1, LatestIs
<1>9. \A t \in marked : Labels(m)[t] \in Names
  <2>1. DOMAIN m \subseteq Ids
    <3>1. 1..(next - 1) \subseteq 1..MaxEntries
      BY <1>3
    <3> QED
      BY <3>1 DEF Ids
  <2> QED
    BY <1>1, <2>1, LabelsAreNames
<1> HIDE DEF kept, marked, marks, b, of, before, n
<1> SUFFICES ASSUME NEW i \in DOMAIN b
             PROVE  /\ b[i] \in Entries
                    /\ b[i].parent \in {Root} \cup {j \in DOMAIN b : j < i}
                    /\ b[i].ref < i
                    /\ b[i].kind = "label" => b[i].ref \in DOMAIN b
  BY DEF Sound, b
<1>10. CASE i \in kept
  <2>1. b[i] = [m[i] EXCEPT !.parent = before(i)] /\ m[i] \in Entries /\ m[i].kind # "label" /\ m[i].ref < i
    BY <1>2, <1>6, <1>10
  <2>2. before(i) \in {Root} \cup {j \in kept : j < i}
    BY <1>7
  <2>3. before(i) \in Ids \cup {Root} /\ before(i) \in {Root} \cup {j \in DOMAIN b : j < i}
    BY <1>2, <1>4, <2>2
  <2>4. b[i] \in Entries /\ b[i].parent = before(i) /\ b[i].kind = m[i].kind /\ b[i].ref = m[i].ref
    BY <2>1, <2>3 DEF Entries
  <2> QED
    BY <2>1, <2>3, <2>4
<1>11. CASE i \in marks
  <2> DEFINE up == IF i = next THEN Latest(kept) ELSE i - 1
  <2>1. i \in Nat /\ next <= i /\ i \notin kept
    BY <1>4, <1>5, <1>11
  <2>2. b[i] = [kind |-> "label", parent |-> up, ref |-> of(i), name |-> Labels(m)[of(i)]]
    BY <1>2, <1>11, <2>1
  <2>3. of(i) \in marked /\ of(i) \in kept /\ of(i) \in Ids /\ of(i) < i
    BY <1>1, <1>4, <1>11, <2>1
  <2>4. up \in {Root} \cup {j \in DOMAIN b : j < i} /\ up \in Ids \cup {Root}
    <3>1. CASE i = next
      BY <1>2, <1>4, <1>8, <2>1, <3>1
    <3>2. CASE i # next
      <4>1. i - 1 \in marks /\ i - 1 < i
        BY <1>1, <1>11, <2>1, <3>2
      <4> QED
        BY <1>2, <1>5, <3>2, <4>1
    <3> QED
      BY <3>1, <3>2
  <2> HIDE DEF up
  <2>5. b[i] \in Entries
    BY <1>9, <2>2, <2>3, <2>4 DEF Entries, Kinds, Metadata
  <2> QED
    BY <1>2, <2>2, <2>3, <2>4, <2>5
<1> QED
  BY <1>2, <1>10, <1>11

(***************************************************************************)
(* The session in hand stays sound                                         *)
(***************************************************************************)

\* A session record: a sound tree, a leaf in it, and the bookmarks a reload would find.
Healthy(s) ==
  /\ s.next \in 1..(MaxEntries + 1)
  /\ DOMAIN s.mem \subseteq 1..(s.next - 1)
  /\ Sound(s.mem)
  /\ s.leaf \in DOMAIN s.mem \cup {Root}
  /\ s.labels = Labels(s.mem)

LEMMA HealthyIds ==
  ASSUME NEW s, Healthy(s)
  PROVE  DOMAIN s.mem \subseteq Ids /\ s.next \in Nat \ {0} /\ MaxEntries \in Nat
<1>1. MaxEntries \in Nat /\ s.next \in Nat \ {0}
  BY TreeAssumption DEF Healthy
<1>2. 1..(s.next - 1) \subseteq 1..MaxEntries
  BY <1>1 DEF Healthy
<1> QED
  BY <1>1, <1>2 DEF Healthy, Ids

LEMMA AddIs ==
  ASSUME NEW s, NEW kind, NEW ref, NEW name
  PROVE  LET e == [kind |-> kind, parent |-> s.leaf, ref |-> ref, name |-> name]
             a == Add(s, kind, ref, name)
         IN  /\ a.mem = Grown(s.mem, s.next, e) /\ a.leaf = s.next
             /\ a.labels = s.labels /\ a.next = s.next + 1
BY DEF Add, Grown

\* One more entry that is no label.
LEMMA AddHealthy ==
  ASSUME NEW s, Healthy(s), s.next <= MaxEntries,
         NEW kind \in Kinds \ {"label"}, NEW ref \in Ids \cup {Root}, ref < s.next
  PROVE  /\ Healthy(Add(s, kind, ref, NoName))
         /\ Add(s, kind, ref, NoName).next = s.next + 1
         /\ Add(s, kind, ref, NoName).leaf = s.next
         /\ DOMAIN Add(s, kind, ref, NoName).mem = DOMAIN s.mem \cup {s.next}
<1> DEFINE e == [kind |-> kind, parent |-> s.leaf, ref |-> ref, name |-> NoName]
           a == Add(s, kind, ref, NoName)
           m == s.mem
           n == s.next
<1>1. a.mem = Grown(m, n, e) /\ a.leaf = n /\ a.labels = s.labels /\ a.next = n + 1
  BY AddIs
<1>2. /\ n \in Nat \ {0} /\ MaxEntries \in Nat /\ DOMAIN m \subseteq 1..(n - 1) /\ DOMAIN m \subseteq Ids
      /\ Sound(m) /\ s.leaf \in DOMAIN m \cup {Root} /\ s.labels = Labels(m)
  BY HealthyIds DEF Healthy
<1>3. e.kind = kind /\ e.parent = s.leaf /\ e.ref = ref /\ e.name = NoName
  OBVIOUS
<1>4. e \in Entries
  BY <1>2 DEF Entries
<1>5. Fitting(m, n, e) /\ e.kind # "label"
  <2> HIDE DEF e, m
  <2> QED
    BY <1>2, <1>3, <1>4 DEF Fitting
<1> HIDE DEF e, a, m
<1>6. n \in Ids
  BY <1>2 DEF Ids
<1>7. Sound(Grown(m, n, e)) /\ DOMAIN Grown(m, n, e) = DOMAIN m \cup {n}
  <2>1. Sound(Grown(m, n, e))
    BY <1>2, <1>5, <1>6, GrownIsSound
  <2>2. DOMAIN Grown(m, n, e) = DOMAIN m \cup {n}
    BY DEF Grown
  <2> QED
    BY <2>1, <2>2
<1>8. Labels(Grown(m, n, e)) = Labels(m)
  BY <1>2, <1>5, <1>6, GrownLabels
<1>9. DOMAIN m \cup {n} \subseteq 1..((n + 1) - 1) /\ n + 1 \in 1..(MaxEntries + 1)
  BY <1>2
<1> HIDE DEF n
<1>10. Healthy(a)
  BY <1>1, <1>2, <1>7, <1>8, <1>9 DEF Healthy
<1> QED
  BY <1>1, <1>7, <1>10 DEF a, m, n

\* A label.
LEMMA AddLabelHealthy ==
  ASSUME NEW s, Healthy(s), s.next <= MaxEntries,
         NEW t \in DOMAIN s.mem, NEW name \in Names \cup {NoName}
  PROVE  Healthy(AddLabel(s, t, name)) /\ AddLabel(s, t, name).next = s.next + 1
<1> DEFINE e == [kind |-> "label", parent |-> s.leaf, ref |-> t, name |-> name]
           b == Add(s, "label", t, name)
           a == AddLabel(s, t, name)
           m == s.mem
           n == s.next
<1>1. b.mem = Grown(m, n, e) /\ b.leaf = n /\ b.next = n + 1
  BY AddIs
<1>2. a.mem = b.mem /\ a.leaf = b.leaf /\ a.labels = Labelled(s.labels, t, name) /\ a.next = b.next
  BY DEF AddLabel, Add
<1>3. /\ n \in Nat \ {0} /\ MaxEntries \in Nat /\ DOMAIN m \subseteq 1..(n - 1) /\ DOMAIN m \subseteq Ids
      /\ Sound(m) /\ s.leaf \in DOMAIN m \cup {Root} /\ s.labels = Labels(m)
  BY HealthyIds DEF Healthy
<1>4. e.kind = "label" /\ e.parent = s.leaf /\ e.ref = t /\ e.name = name
  OBVIOUS
<1>5. e \in Entries
  BY <1>3 DEF Entries, Kinds, Metadata
<1>6. Fitting(m, n, e)
  <2>1. t \in DOMAIN m /\ t < n
    BY <1>3
  <2> HIDE DEF e, m
  <2> QED
    BY <1>3, <1>4, <1>5, <2>1 DEF Fitting
<1> HIDE DEF e, a, b, m
<1>7. n \in Ids
  BY <1>3 DEF Ids
<1>8. Sound(Grown(m, n, e)) /\ DOMAIN Grown(m, n, e) = DOMAIN m \cup {n}
  <2>1. Sound(Grown(m, n, e))
    BY <1>3, <1>6, <1>7, GrownIsSound
  <2>2. DOMAIN Grown(m, n, e) = DOMAIN m \cup {n}
    BY DEF Grown
  <2> QED
    BY <2>1, <2>2
<1>9. Labels(Grown(m, n, e)) = Labelled(Labels(m), t, name)
  BY <1>3, <1>4, <1>6, <1>7, GrownLabels
<1>10. DOMAIN m \cup {n} \subseteq 1..((n + 1) - 1) /\ n + 1 \in 1..(MaxEntries + 1)
  BY <1>3
<1> HIDE DEF n
<1>11. Healthy(a)
  BY <1>1, <1>2, <1>3, <1>8, <1>9, <1>10 DEF Healthy
<1> QED
  BY <1>1, <1>2, <1>11 DEF a, n

\* The inductive invariant of the tree: also what the other files hold is sound.
SoundInv ==
  /\ Healthy(Now)
  /\ \A f \in Sessions : disk[f] # EmptyBag => Sound(Loaded(disk[f]))
  /\ job \in Ids \cup {Root} /\ job < next

LEMMA NowIs ==
  /\ Now.mem = mem /\ Now.leaf = leaf /\ Now.labels = labels /\ Now.next = next
  /\ Now.flushed = flushed /\ Now.out = disk[cur]
BY DEF Now

\* Only the file in hand may change in a step, and it holds what the memory holds.
LEMMA SoundLater ==
  ASSUME SoundInv, FileInv', Healthy(Now)', (job \in Ids \cup {Root} /\ job < next)',
         \A f \in Sessions : f # cur' => disk'[f] = disk[f]
  PROVE  SoundInv'
<1>1. /\ cur' \in Sessions /\ next' \in Nat \ {0} /\ Tree(mem', next')
      /\ disk'[cur'] = IF flushed' THEN Whole(mem') ELSE EmptyBag
  BY DEF FileInv, Fits, Now
<1>2. disk'[cur'] # EmptyBag => Loaded(disk'[cur']) = mem'
  BY <1>1, LoadedWhole
<1>3. Sound(mem')
  BY DEF Healthy, Now
<1>4. \A f \in Sessions : disk'[f] # EmptyBag => Sound(Loaded(disk'[f]))
  <2> TAKE f \in Sessions
  <2>1. CASE f = cur'
    BY <1>2, <1>3, <2>1
  <2>2. CASE f # cur'
    BY <2>2 DEF SoundInv
  <2> QED
    BY <2>1, <2>2
<1> QED
  BY <1>4 DEF SoundInv

LEMMA SoundBecome ==
  ASSUME SoundInv, FileInv, FileInv', NEW s, Healthy(s), Become(s), s.next >= next, cur' = cur, job' \in {job, Root}
  PROVE  SoundInv'
<1>1. /\ mem' = s.mem /\ leaf' = s.leaf /\ labels' = s.labels /\ next' = s.next
      /\ disk' = [disk EXCEPT ![cur] = s.out]
  BY DEF Become
<1>2. Healthy(Now)'
  BY <1>1 DEF Healthy, Now
<1>3. \A f \in Sessions : f # cur' => disk'[f] = disk[f]
  BY <1>1 DEF FileInv
<1>4. (job \in Ids \cup {Root} /\ job < next)'
  <2>1. \A x \in Ids \cup {Root} : x \in Nat
    BY TreeAssumption DEF Ids, Root
  <2>2. job \in Nat /\ Root = 0 /\ next \in Nat \ {0} /\ s.next \in Nat \ {0} /\ job < next /\ job \in Ids \cup {Root}
    BY <2>1, HealthyIds, NowIs DEF SoundInv, Root
  <2> QED
    BY <1>1, <2>2
<1> QED
  BY <1>2, <1>3, <1>4, SoundLater

LEMMA SoundReplace ==
  ASSUME SoundInv, FileInv', NEW m, NEW g, NEW fl, Replace(m, g, fl), Sound(m),
         next' \in 1..(MaxEntries + 1), DOMAIN m \subseteq 1..(next' - 1),
         \A f \in Sessions : f # g => disk'[f] = disk[f]
  PROVE  SoundInv'
<1>1. mem' = m /\ leaf' = Latest(DOMAIN m) /\ labels' = Labels(m) /\ cur' = g /\ job' = Root
  BY DEF Replace
<1>2. Latest(DOMAIN m) \in DOMAIN m \cup {Root}
  <2>1. \A x \in 1..(MaxEntries + 1) : x - 1 \in Nat
    BY TreeAssumption
  <2>2. next' - 1 \in Nat
    BY <2>1
  <2> QED
    BY <2>2, LatestIs
<1>3. Healthy(Now)'
  BY <1>1, <1>2 DEF Healthy, Now
<1>4. \A x \in 1..(MaxEntries + 1) : Root < x
  BY TreeAssumption DEF Root
<1> QED
  BY <1>1, <1>3, <1>4, SoundLater

\* A compaction begins to keep at an entry of the path it has read.
LEMMA FirstKeptOnPath ==
  ASSUME DOMAIN mem \subseteq Nat, NEW p, p \subseteq DOMAIN mem
  PROVE  FirstKept(p) \subseteq p
<1> DEFINE c     == Latest(OfKind(mem, p, {"compaction"}))
           range == IF c # Root /\ mem[c].ref \in p THEN From(p, mem[c].ref) ELSE {i \in p : i > c}
           start(i) == {j \in range : j <= i /\ \A k \in range : j <= k /\ k < i => mem[k].kind \in Metadata}
<1>1. FirstKept(p) \subseteq {Min(start(j)) : j \in OfKind(mem, range, Messages)}
  BY DEF FirstKept
<1>2. range \subseteq p
  BY DEF From
<1>3. range \subseteq Nat
  BY <1>2
<1> HIDE DEF range, c
<1>4. ASSUME NEW j \in OfKind(mem, range, Messages)
      PROVE  Min(start(j)) \in p
  <2>1. j \in range
    BY DEF OfKind
  <2>2. j <= j /\ \A k \in range : ~(j <= k /\ k < j)
    BY <1>3, <2>1
  <2>3. j \in start(j) /\ start(j) \subseteq range
    BY <2>1, <2>2
  <2> HIDE DEF start
  <2>4. Min(start(j)) \in start(j)
    BY <1>3, <2>3, MinIs
  <2> QED
    BY <1>2, <2>3, <2>4
<1> HIDE DEF start
<1> QED
  BY <1>1, <1>4

LEMMA NavigateHealthy ==
  ASSUME SoundInv, NEW t \in DOMAIN mem, NEW summarize \in BOOLEAN, NEW n \in Names \cup {NoName},
         Navigate(t, summarize, n)
  PROVE  \E s : Healthy(s) /\ Become(s) /\ s.next >= next
<1> DEFINE to    == IF mem[t].kind = "user" THEN mem[t].parent ELSE t
           moved == [Now EXCEPT !.leaf = to]
           told  == Add(moved, "summary", Root, NoName)
           both  == AddLabel(told, told.leaf, n)
           named == AddLabel(moved, t, n)
<1>1. /\ moved.mem = mem /\ moved.leaf = to /\ moved.labels = labels /\ moved.next = next
  BY DEF Now
<1>2. \/ Become(both)
      \/ Become(told)
      \/ Become(named)
      \/ Become(moved)
  BY DEF Navigate
<1>3. next + 1 <= MaxEntries /\ next \in Nat \ {0} /\ MaxEntries \in Nat
  <2>1. next \in Nat \ {0} /\ MaxEntries \in Nat /\ next + 2 <= MaxEntries + 1
    BY HealthyIds, NowIs DEF Navigate, Room, SoundInv
  <2> QED
    BY <2>1
<1>4. to \in DOMAIN mem \cup {Root}
  BY NowIs DEF SoundInv, Healthy, Sound
<1> HIDE DEF to, moved
<1>5. Healthy(moved)
  BY <1>1, <1>4, NowIs DEF SoundInv, Healthy
<1>6. moved.next <= MaxEntries /\ "summary" \in Kinds \ {"label"} /\ Root \in Ids \cup {Root} /\ Root < moved.next
  <2>1. moved.next <= MaxEntries /\ Root < moved.next
    BY <1>1, <1>3 DEF Root
  <2>2. "summary" \in Kinds \ {"label"}
    BY DEF Kinds, Messages
  <2> QED
    BY <2>1, <2>2
<1>7. Healthy(told) /\ told.next = next + 1 /\ told.leaf \in DOMAIN told.mem
  <2>1. /\ Healthy(told)
        /\ told.next = moved.next + 1
        /\ told.leaf = moved.next
        /\ DOMAIN told.mem = DOMAIN moved.mem \cup {moved.next}
    BY <1>5, <1>6, AddHealthy
  <2> HIDE DEF told
  <2> QED
    BY <1>1, <2>1
<1>8. Healthy(named) /\ named.next = next + 1
  <2>1. t \in DOMAIN moved.mem
    BY <1>1
  <2> QED
    BY <1>1, <1>5, <1>6, <2>1, AddLabelHealthy
<1> HIDE DEF told, named
<1>9. Healthy(both) /\ both.next = (next + 1) + 1
  <2>1. told.next <= MaxEntries
    BY <1>3, <1>7
  <2> QED
    BY <1>7, <2>1, AddLabelHealthy
<1> HIDE DEF both
<1>10. next >= next /\ next + 1 >= next /\ (next + 1) + 1 >= next
  BY <1>3
<1> QED
  BY <1>1, <1>2, <1>5, <1>7, <1>8, <1>9, <1>10

LEMMA SoundWriting ==
  ASSUME SoundInv, FileInv, FileInv',
         \/ \E kind \in {"user", "assistant", "note"} : Append(kind)
         \/ \E kind \in {"user", "note"} : AppendAtOnce(kind)
         \/ \E t \in Ids, n \in Names \cup {NoName} : Bookmark(t, n)
         \/ \E t \in DOMAIN mem, summarize \in BOOLEAN, n \in Names \cup {NoName} : Navigate(t, summarize, n)
         \/ EndCompaction
  PROVE  SoundInv'
<1>1. \A n \in Nat : n + 1 <= MaxEntries + 1 => n <= MaxEntries
  BY TreeAssumption
<1>2. Healthy(Now) /\ Now.next = next /\ next \in Nat /\ next + 1 >= next
  BY NowIs, HealthyIds DEF SoundInv
<1>3. Room(1) => Now.next <= MaxEntries
  BY <1>1, <1>2 DEF Room
<1>4. {"user", "assistant", "note", "compaction"} \subseteq Kinds \ {"label"}
  BY DEF Kinds, Messages, Metadata
<1>5. job \in Ids \cup {Root} /\ job < next /\ Root \in Ids \cup {Root} /\ Root < next
  BY HealthyIds, NowIs DEF SoundInv, Root
<1>6. CASE \E kind \in {"user", "assistant", "note"} : Append(kind)
  <2>1. PICK kind \in {"user", "assistant", "note"} : Append(kind)
    BY <1>6
  <2>2. Room(1) /\ Become(Add(Now, kind, Root, NoName)) /\ cur' = cur /\ job' = job
    BY <2>1 DEF Append
  <2>3. Healthy(Add(Now, kind, Root, NoName)) /\ Add(Now, kind, Root, NoName).next = next + 1
    BY <1>2, <1>3, <1>4, <1>5, <2>2, AddHealthy
  <2> QED
    BY <1>2, <2>2, <2>3, SoundBecome
<1>7. CASE \E kind \in {"user", "note"} : AppendAtOnce(kind)
  <2>1. PICK kind \in {"user", "note"} : AppendAtOnce(kind)
    BY <1>7
  <2> DEFINE a == Add(Now, kind, Root, NoName)
  <2>2. Room(1) /\ Become(Flush(a)) /\ cur' = cur /\ job' = job
    BY <2>1 DEF AppendAtOnce
  <2>3. Healthy(a) /\ a.next = next + 1
    BY <1>2, <1>3, <1>4, <1>5, <2>2, AddHealthy
  <2>4. Flush(a).mem = a.mem /\ Flush(a).leaf = a.leaf /\ Flush(a).labels = a.labels /\ Flush(a).next = a.next
    BY DEF Flush, Add
  <2> HIDE DEF a
  <2>5. Healthy(Flush(a))
    BY <2>3, <2>4 DEF Healthy
  <2> QED
    BY <1>2, <2>2, <2>3, <2>4, <2>5, SoundBecome
<1>8. CASE \E t \in Ids, n \in Names \cup {NoName} : Bookmark(t, n)
  <2>1. PICK t \in Ids, n \in Names \cup {NoName} : Bookmark(t, n)
    BY <1>8
  <2>2. Room(1) /\ t \in DOMAIN mem /\ Become(AddLabel(Now, t, n)) /\ cur' = cur /\ job' = job
    BY <2>1 DEF Bookmark
  <2>3. t \in DOMAIN Now.mem
    BY <2>2, NowIs
  <2>4. Healthy(AddLabel(Now, t, n)) /\ AddLabel(Now, t, n).next = next + 1
    BY <1>2, <1>3, <2>2, <2>3, AddLabelHealthy
  <2> QED
    BY <1>2, <2>2, <2>4, SoundBecome
<1>9. CASE \E t \in DOMAIN mem, summarize \in BOOLEAN, n \in Names \cup {NoName} : Navigate(t, summarize, n)
  <2>1. PICK t \in DOMAIN mem, summarize \in BOOLEAN, n \in Names \cup {NoName} : Navigate(t, summarize, n)
    BY <1>9
  <2>2. PICK s : Healthy(s) /\ Become(s) /\ s.next >= next
    BY <2>1, NavigateHealthy
  <2>3. cur' = cur /\ job' = job
    BY <2>1 DEF Navigate
  <2> QED
    BY <2>2, <2>3, SoundBecome
<1>10. CASE EndCompaction
  <2>1. Room(1) /\ Become(Add(Now, "compaction", job, NoName)) /\ cur' = cur /\ job' = Root
    BY <1>10 DEF EndCompaction
  <2>2. Healthy(Add(Now, "compaction", job, NoName)) /\ Add(Now, "compaction", job, NoName).next = next + 1
    BY <1>2, <1>3, <1>4, <1>5, <2>1, AddHealthy
  <2> QED
    BY <1>2, <2>1, <2>2, SoundBecome
<1> QED
  BY <1>6, <1>7, <1>8, <1>9, <1>10

\* What is read from a file is a sound tree of entries created so far.
LEMMA LoadedIsSound ==
  ASSUME SoundInv, FileInv, NEW f \in Sessions, disk[f] # EmptyBag
  PROVE  Sound(Loaded(disk[f])) /\ DOMAIN Loaded(disk[f]) \subseteq 1..(next - 1) /\ next \in 1..(MaxEntries + 1)
<1>1. Tree(Loaded(disk[f]), next)
  BY NowFits, LoadedImage DEF FileInv
<1> QED
  BY <1>1, NowIs DEF SoundInv, Healthy, Tree

LEMMA SoundReading ==
  ASSUME SoundInv, FileInv, FileInv',
         \/ \E f \in Sessions : Open(f)
         \/ \E f \in Sessions, immediately \in BOOLEAN : NewSession(f, immediately)
         \/ \E f \in Sessions, t \in DOMAIN mem : ForkEmpty(f, t)
         \/ \E f, g \in Sessions : CopySession(f, g)
  PROVE  SoundInv'
<1>1. next \in 1..(MaxEntries + 1)
  BY NowIs DEF SoundInv, Healthy
<1>2. disk = [f \in Sessions |-> disk[f]]
  BY DEF FileInv
<1>3. CASE \E f \in Sessions : Open(f)
  <2>1. PICK f \in Sessions : Open(f)
    BY <1>3
  <2>2. disk[f] # EmptyBag /\ Replace(Loaded(disk[f]), f, TRUE) /\ disk' = disk /\ next' = next
    BY <2>1 DEF Open
  <2>3. Sound(Loaded(disk[f])) /\ DOMAIN Loaded(disk[f]) \subseteq 1..(next' - 1) /\ next' \in 1..(MaxEntries + 1)
    BY <2>2, LoadedIsSound
  <2> QED
    BY <2>2, <2>3, SoundReplace
<1>4. ASSUME NEW f \in Sessions, NEW immediately \in BOOLEAN, NewSession(f, immediately)
      PROVE  SoundInv'
  <2>1. Replace(NoEntries, f, immediately) /\ next' = next /\ \A g \in Sessions : g # f => disk'[g] = disk[g]
    BY <1>2, <1>4 DEF NewSession
  <2>2. DOMAIN NoEntries = {}
    BY DEF NoEntries
  <2>3. Sound(NoEntries) /\ DOMAIN NoEntries \subseteq 1..(next' - 1)
    BY <2>2 DEF Sound
  <2> QED
    BY <1>1, <2>1, <2>3, SoundReplace
<1>5. CASE \E f \in Sessions, t \in DOMAIN mem : ForkEmpty(f, t)
  BY <1>4, <1>5 DEF ForkEmpty
<1>6. CASE \E f, g \in Sessions : CopySession(f, g)
  <2>1. PICK f \in Sessions, g \in Sessions : CopySession(f, g)
    BY <1>6
  <2>2. /\ disk[f] # EmptyBag /\ Replace(Loaded(disk[f]), g, TRUE) /\ next' = next
        /\ \A h \in Sessions : h # g => disk'[h] = disk[h]
    BY <1>2, <2>1 DEF CopySession
  <2>3. Sound(Loaded(disk[f])) /\ DOMAIN Loaded(disk[f]) \subseteq 1..(next' - 1) /\ next' \in 1..(MaxEntries + 1)
    BY <2>2, LoadedIsSound
  <2> QED
    BY <2>2, <2>3, SoundReplace
<1> QED
  BY <1>3, <1>4, <1>5, <1>6

LEMMA SoundFork ==
  ASSUME SoundInv, FileInv, FileInv', NEW f \in Sessions, NEW t \in DOMAIN mem, NEW position,
         ForkBranch(f, t, position)
  PROVE  SoundInv'
<1> DEFINE m == Loaded(disk[cur])
           target == ForkTarget(t, position)
           b  == Branched(m, target)
           n  == Cardinality(Marked(m, target))
<1>1. /\ disk[cur] # EmptyBag /\ Room(n) /\ Replace(b, f, Answered(b)) /\ next' = next + n
      /\ disk' = IF Answered(b) THEN [disk EXCEPT ![f] = Whole(b)] ELSE disk
  BY DEF ForkBranch
<1>2. cur \in Sessions /\ disk = [g \in Sessions |-> disk[g]]
  BY DEF FileInv
<1>3. Sound(m) /\ DOMAIN m \subseteq 1..(next - 1) /\ next \in 1..(MaxEntries + 1) /\ next \in Nat \ {0}
  BY <1>1, <1>2, LoadedIsSound, NowFits
<1>4. next + n <= MaxEntries + 1
  BY <1>1 DEF Room
<1>5. Tree(m, next)
  BY <1>1, <1>2, NowFits, LoadedImage DEF FileInv
<1> HIDE DEF m, target
<1>6. n \in Nat /\ Tree(b, next + n)
  BY <1>3, <1>5, BranchIsATree
<1>7. Sound(b)
  BY <1>3, <1>4, BranchIsSound
<1>8. DOMAIN b \subseteq 1..(next' - 1)
  BY <1>1, <1>6 DEF Tree
<1> HIDE DEF b, n
<1>9. next' \in 1..(MaxEntries + 1)
  BY <1>1, <1>3, <1>4, <1>6, TreeAssumption
<1>10. \A g \in Sessions : g # f => disk'[g] = disk[g]
  BY <1>1, <1>2
<1> QED
  BY <1>1, <1>7, <1>8, <1>9, <1>10, SoundReplace

LEMMA SoundCompaction ==
  ASSUME SoundInv, FileInv', StartCompaction \/ FailCompaction
  PROVE  SoundInv'
<1>1. mem' = mem /\ leaf' = leaf /\ labels' = labels /\ next' = next /\ disk' = disk
  BY DEF StartCompaction, FailCompaction
<1>2. job' \in Ids \cup {Root} /\ job' < next
  <2>1. CASE StartCompaction
    <3>1. DOMAIN mem \subseteq Ids
      BY HealthyIds, NowIs DEF SoundInv
    <3>2. DOMAIN mem \subseteq Nat
      BY <3>1 DEF Ids
    <3>3. Path(mem, leaf) \subseteq DOMAIN mem
      BY DEF Path
    <3>4. job' \in Path(mem, leaf)
      BY <2>1, <3>2, <3>3, FirstKeptOnPath DEF StartCompaction
    <3>5. next \in Nat /\ DOMAIN mem \subseteq 1..(next - 1)
      BY HealthyIds, NowIs DEF SoundInv, Healthy
    <3>6. \A x \in 1..(next - 1) : x < next
      BY <3>5
    <3> QED
      BY <3>1, <3>3, <3>4, <3>5, <3>6
  <2>2. CASE FailCompaction
    BY <2>2, HealthyIds, NowIs DEF FailCompaction, SoundInv, Root
  <2> QED
    BY <2>1, <2>2
<1>3. Healthy(Now)'
  BY <1>1 DEF SoundInv, Healthy, Now
<1> QED
  BY <1>1, <1>2, <1>3, SoundLater

LEMMA SoundInit ==
  Init => SoundInv
<1> SUFFICES ASSUME Init
             PROVE  SoundInv
  OBVIOUS
<1>1. mem = NoEntries /\ DOMAIN NoEntries = {} /\ leaf = Root /\ labels = NoEntries /\ next = 1 /\ job = Root /\ Root < 1
  BY DEF Init, NoEntries, Root
<1>2. Sound(NoEntries)
  BY <1>1 DEF Sound
<1>3. Labels(NoEntries) = NoEntries
  <2>1. Named(NoEntries) = {}
    BY <1>1 DEF Named
  <2> QED
    BY <2>1, LabelsAre DEF NoEntries
<1>4. 1 \in 1..(MaxEntries + 1)
  BY TreeAssumption
<1>5. Healthy(Now)
  BY <1>1, <1>2, <1>3, <1>4, NowIs DEF Healthy
<1>6. \A f \in Sessions : disk[f] = EmptyBag
  BY DEF Init
<1> QED
  BY <1>1, <1>5, <1>6 DEF SoundInv

LEMMA SoundStep ==
  ASSUME SoundInv, FileInv, [Next]_vars
  PROVE  SoundInv'
<1>1. FileInv'
  BY FilesStep, FilesIdle
<1>2. CASE UNCHANGED vars
  BY <1>2 DEF vars, SoundInv, Healthy, Now
<1>3. CASE Next
  <2>1. CASE \E f \in Sessions, t \in DOMAIN mem, position \in {"before", "at"} : ForkBranch(f, t, position)
    BY <1>1, <2>1, SoundFork
  <2>2. CASE StartCompaction \/ FailCompaction
    BY <1>1, <2>2, SoundCompaction
  <2> QED
    BY <1>1, <1>3, <2>1, <2>2, SoundWriting, SoundReading DEF Next
<1> QED
  BY <1>2, <1>3

\* Memory and files are well formed whatever users do: the leaf and the bookmarks are
\* entries of the tree in hand, also after a fork has renumbered the labels.
THEOREM Typed == Spec => []TypeOK
<1>1. FileInv /\ SoundInv => TypeOK
  <2> SUFFICES ASSUME FileInv, SoundInv
               PROVE  TypeOK
    OBVIOUS
  <2>1. /\ DOMAIN mem \subseteq Ids /\ Sound(mem) /\ leaf \in DOMAIN mem \cup {Root} /\ labels = Labels(mem)
        /\ next \in 1..(MaxEntries + 1)
    BY HealthyIds, NowIs DEF SoundInv, Healthy
  <2>2. \A i \in DOMAIN mem : mem[i] \in Entries
    BY <2>1 DEF Sound
  <2>3. DOMAIN labels \subseteq DOMAIN mem /\ \A t \in DOMAIN labels : labels[t] \in Names
    BY <2>1, LabelsAreNames
  <2>4. flushed \in BOOLEAN /\ cur \in Sessions /\ DOMAIN disk = Sessions
    BY DEF FileInv, Fits, Now
  <2> QED
    BY <2>1, <2>2, <2>3, <2>4 DEF TypeOK, SoundInv
<1>2. FileInv /\ [Next]_vars => FileInv'
  BY FilesStep, FilesIdle
<1>3. FileInv /\ SoundInv /\ [Next]_vars => SoundInv'
  BY SoundStep
<1> QED
  BY InitFiles, SoundInit, <1>1, <1>2, <1>3, PTL DEF Spec

(***************************************************************************)
(* What compactions keep                                                   *)
(*                                                                         *)
(* A compaction promises to keep the entries from its "ref" on: they must  *)
(* lie on its path.  It was read on the path to the leaf when the summary  *)
(* was asked for, so the leaf must not have moved elsewhere until it came, *)
(* and a fork must not have left that entry out.                           *)
(***************************************************************************)

OrderRespected == Env \cap {"forkKept", "moveWhileCompacting"} = {}

Keeps(m) == \A c \in OfKind(m, DOMAIN m, {"compaction"}) : m[c].ref \in Path(m, c)

\* The same for a session record, and for the compaction that keeps from j on.
Holds(s, j) ==
  /\ Keeps(s.mem)
  /\ j # Root => j \in Path(s.mem, s.leaf)

LEMMA GrownPaths ==
  ASSUME NEW m, Sound(m), NEW n \in Ids, DOMAIN m \subseteq 1..(n - 1), NEW e, Fitting(m, n, e)
  PROVE  /\ \A i \in DOMAIN m \cup {Root} : Path(Grown(m, n, e), i) = Path(m, i)
         /\ Path(Grown(m, n, e), n) = {n} \cup Path(m, e.parent)
<1> DEFINE g == Grown(m, n, e)
<1>1. Sound(g)
  BY GrownIsSound
<1>2. \A i \in DOMAIN m : i # n
  BY TreeAssumption DEF Ids
<1>3. DOMAIN g = DOMAIN m \cup {n} /\ g[n] = e /\ \A i \in DOMAIN m : g[i] = m[i]
  BY <1>2 DEF Grown
<1>4. DOMAIN m \subseteq Ids /\ DOMAIN g \subseteq Ids
  BY <1>3, TreeAssumption DEF Ids
<1> HIDE DEF g
<1>5. \A i \in DOMAIN m \cup {Root} : Path(g, i) = Path(m, i)
  BY <1>1, <1>3, <1>4, PathsStay
<1>6. Path(g, n) = {n} \cup Path(g, e.parent)
  BY <1>1, <1>3, <1>4, PathIs
<1>7. Path(g, e.parent) = Path(m, e.parent)
  BY <1>5 DEF Fitting
<1> QED
  BY <1>5, <1>6, <1>7 DEF g

LEMMA GrownKeeps ==
  ASSUME NEW m, Sound(m), NEW n \in Ids, DOMAIN m \subseteq 1..(n - 1), NEW e, Fitting(m, n, e),
         Keeps(m), e.kind = "compaction" => e.ref \in Path(m, e.parent)
  PROVE  Keeps(Grown(m, n, e))
<1> DEFINE g == Grown(m, n, e)
<1>1. \A i \in DOMAIN m : i # n
  BY TreeAssumption DEF Ids
<1>2. DOMAIN g = DOMAIN m \cup {n} /\ g[n] = e /\ \A i \in DOMAIN m : g[i] = m[i]
  BY <1>1 DEF Grown
<1>3. (\A i \in DOMAIN m : Path(g, i) = Path(m, i)) /\ Path(g, n) = {n} \cup Path(m, e.parent)
  BY GrownPaths
<1> HIDE DEF g
<1>4. ASSUME NEW c \in DOMAIN g, g[c].kind = "compaction"
      PROVE  g[c].ref \in Path(g, c)
  <2>1. CASE c = n
    BY <1>2, <1>3, <1>4, <2>1
  <2>2. CASE c \in DOMAIN m
    <3>1. m[c].kind = "compaction" /\ g[c].ref = m[c].ref /\ Path(g, c) = Path(m, c)
      BY <1>2, <1>3, <1>4, <2>2
    <3>2. m[c].ref \in Path(m, c)
      BY <2>2, <3>1 DEF Keeps, OfKind
    <3> QED
      BY <3>1, <3>2
  <2> QED
    BY <1>2, <2>1, <2>2
<1>5. Keeps(g)
  BY <1>4 DEF Keeps, OfKind
<1> QED
  BY <1>5 DEF g

\* An entry more, with a label's number in the map of bookmarks or not.
LEMMA AddHolds ==
  ASSUME NEW s, Healthy(s), s.next <= MaxEntries, NEW j, Holds(s, j),
         NEW kind \in Kinds, NEW ref \in Ids \cup {Root}, ref < s.next, NEW name \in Names \cup {NoName},
         kind = "label" => ref \in DOMAIN s.mem,
         kind = "compaction" => ref \in Path(s.mem, s.leaf)
  PROVE  Holds(Add(s, kind, ref, name), j)
<1> DEFINE e == [kind |-> kind, parent |-> s.leaf, ref |-> ref, name |-> name]
           a == Add(s, kind, ref, name)
           m == s.mem
           n == s.next
<1>1. a.mem = Grown(m, n, e) /\ a.leaf = n
  BY AddIs
<1>2. /\ n \in Nat \ {0} /\ MaxEntries \in Nat /\ DOMAIN m \subseteq 1..(n - 1) /\ DOMAIN m \subseteq Ids
      /\ Sound(m) /\ s.leaf \in DOMAIN m \cup {Root}
  BY HealthyIds DEF Healthy
<1>3. e.kind = kind /\ e.parent = s.leaf /\ e.ref = ref /\ e.name = name
  OBVIOUS
<1>4. e \in Entries
  BY <1>2 DEF Entries
<1>5. Fitting(m, n, e)
  <2>1. ref < n /\ (kind = "label" => ref \in DOMAIN m)
    OBVIOUS
  <2> HIDE DEF e, m, n
  <2> QED
    BY <1>2, <1>3, <1>4, <2>1 DEF Fitting
<1>6. kind = "compaction" => ref \in Path(m, s.leaf)
  OBVIOUS
<1>7. Keeps(m) /\ (j # Root => j \in Path(m, s.leaf))
  BY DEF Holds
<1> HIDE DEF e, a, m
<1>8. n \in Ids
  BY <1>2 DEF Ids
<1> HIDE DEF n
<1>9. Keeps(Grown(m, n, e))
  BY <1>2, <1>3, <1>5, <1>6, <1>7, <1>8, GrownKeeps
<1>10. Path(Grown(m, n, e), n) = {n} \cup Path(m, e.parent)
  BY <1>2, <1>5, <1>8, GrownPaths
<1>11. Holds(a, j)
  BY <1>1, <1>3, <1>7, <1>9, <1>10 DEF Holds
<1> QED
  BY <1>11 DEF a

LEMMA AddLabelHolds ==
  ASSUME NEW s, Healthy(s), s.next <= MaxEntries, NEW j, Holds(s, j),
         NEW t \in DOMAIN s.mem, NEW name \in Names \cup {NoName}
  PROVE  Holds(AddLabel(s, t, name), j)
<1>1. t \in Ids \cup {Root} /\ t < s.next
  <2>1. DOMAIN s.mem \subseteq Ids /\ s.next \in Nat /\ DOMAIN s.mem \subseteq 1..(s.next - 1)
    BY HealthyIds DEF Healthy
  <2>2. \A x \in 1..(s.next - 1) : x < s.next
    BY <2>1
  <2> QED
    BY <2>1, <2>2
<1>2. "label" \in Kinds
  BY DEF Kinds, Metadata
<1>3. Holds(Add(s, "label", t, name), j)
  BY <1>1, <1>2, AddHolds
<1>4. AddLabel(s, t, name).mem = Add(s, "label", t, name).mem /\ AddLabel(s, t, name).leaf = Add(s, "label", t, name).leaf
  BY DEF AddLabel, Add
<1> QED
  BY <1>3, <1>4 DEF Holds

\* The inductive invariant of the compactions.
KeepInv ==
  /\ Holds(Now, job)
  /\ \A f \in Sessions : disk[f] # EmptyBag => Keeps(Loaded(disk[f]))

LEMMA KeepLater ==
  ASSUME KeepInv, FileInv', Holds(Now, job)', \A f \in Sessions : f # cur' => disk'[f] = disk[f]
  PROVE  KeepInv'
<1>1. /\ cur' \in Sessions /\ next' \in Nat \ {0} /\ Tree(mem', next')
      /\ disk'[cur'] = IF flushed' THEN Whole(mem') ELSE EmptyBag
  BY DEF FileInv, Fits, Now
<1>2. disk'[cur'] # EmptyBag => Loaded(disk'[cur']) = mem'
  BY <1>1, LoadedWhole
<1>3. Keeps(mem')
  BY DEF Holds, Now
<1>4. \A f \in Sessions : disk'[f] # EmptyBag => Keeps(Loaded(disk'[f]))
  <2> TAKE f \in Sessions
  <2>1. CASE f = cur'
    BY <1>2, <1>3, <2>1
  <2>2. CASE f # cur'
    BY <2>2 DEF KeepInv
  <2> QED
    BY <2>1, <2>2
<1> QED
  BY <1>4 DEF KeepInv

LEMMA KeepBecome ==
  ASSUME KeepInv, FileInv, FileInv', NEW s, Holds(s, job'), Become(s), cur' = cur
  PROVE  KeepInv'
<1>1. mem' = s.mem /\ leaf' = s.leaf /\ disk' = [disk EXCEPT ![cur] = s.out]
  BY DEF Become
<1>2. Holds(Now, job)'
  BY <1>1 DEF Holds, Now
<1>3. \A f \in Sessions : f # cur' => disk'[f] = disk[f]
  BY <1>1 DEF FileInv
<1> QED
  BY <1>2, <1>3, KeepLater

LEMMA KeepReplace ==
  ASSUME KeepInv, FileInv', NEW m, NEW g, NEW fl, Replace(m, g, fl), Keeps(m),
         \A f \in Sessions : f # g => disk'[f] = disk[f]
  PROVE  KeepInv'
<1>1. mem' = m /\ cur' = g /\ job' = Root
  BY DEF Replace
<1>2. Holds(Now, job)'
  BY <1>1 DEF Holds, Now
<1> QED
  BY <1>1, <1>2, KeepLater

\* Users do not move in the tree while a compaction is under way.
LEMMA NavigateHolds ==
  ASSUME OrderRespected, SoundInv, KeepInv, NEW t \in DOMAIN mem, NEW summarize \in BOOLEAN,
         NEW n \in Names \cup {NoName}, Navigate(t, summarize, n)
  PROVE  \E s : Holds(s, job') /\ Become(s)
<1> DEFINE to    == IF mem[t].kind = "user" THEN mem[t].parent ELSE t
           moved == [Now EXCEPT !.leaf = to]
           told  == Add(moved, "summary", Root, NoName)
           both  == AddLabel(told, told.leaf, n)
           named == AddLabel(moved, t, n)
<1>1. /\ moved.mem = mem /\ moved.leaf = to /\ moved.labels = labels /\ moved.next = next
  BY DEF Now
<1>2. \/ Become(both)
      \/ Become(told)
      \/ Become(named)
      \/ Become(moved)
  BY DEF Navigate
<1>3. next + 1 <= MaxEntries /\ next \in Nat \ {0} /\ MaxEntries \in Nat
  <2>1. next \in Nat \ {0} /\ MaxEntries \in Nat /\ next + 2 <= MaxEntries + 1
    BY HealthyIds, NowIs DEF Navigate, Room, SoundInv
  <2> QED
    BY <2>1
<1>4. to \in DOMAIN mem \cup {Root}
  BY NowIs DEF SoundInv, Healthy, Sound
<1>5. job' = Root
  BY DEF Navigate, OrderRespected
<1> HIDE DEF to, moved
<1>6. Healthy(moved) /\ Holds(moved, Root)
  BY <1>1, <1>4, NowIs DEF SoundInv, Healthy, KeepInv, Holds
<1>7. moved.next <= MaxEntries /\ "summary" \in Kinds \ {"label", "compaction"} /\ Root \in Ids \cup {Root} /\ Root < moved.next
  <2>1. moved.next <= MaxEntries /\ Root < moved.next
    BY <1>1, <1>3 DEF Root
  <2>2. "summary" \in Kinds \ {"label", "compaction"}
    BY DEF Kinds, Messages
  <2> QED
    BY <2>1, <2>2
<1>8. Healthy(told) /\ told.next = next + 1 /\ told.leaf \in DOMAIN told.mem
  <2>1. /\ Healthy(told)
        /\ told.next = moved.next + 1
        /\ told.leaf = moved.next
        /\ DOMAIN told.mem = DOMAIN moved.mem \cup {moved.next}
    BY <1>6, <1>7, AddHealthy
  <2> HIDE DEF told
  <2> QED
    BY <1>1, <2>1
<1>9. Holds(told, Root)
  BY <1>6, <1>7, AddHolds
<1>10. Holds(named, Root)
  <2>1. t \in DOMAIN moved.mem
    BY <1>1
  <2> QED
    BY <1>6, <1>7, <2>1, AddLabelHolds
<1> HIDE DEF told, named
<1>11. Holds(both, Root)
  <2>1. told.next <= MaxEntries
    BY <1>3, <1>8
  <2> QED
    BY <1>8, <1>9, <2>1, AddLabelHolds
<1> HIDE DEF both
<1> QED
  BY <1>2, <1>5, <1>6, <1>9, <1>10, <1>11

LEMMA KeepWriting ==
  ASSUME OrderRespected, SoundInv, KeepInv, FileInv, FileInv',
         \/ \E kind \in {"user", "assistant", "note"} : Append(kind)
         \/ \E kind \in {"user", "note"} : AppendAtOnce(kind)
         \/ \E t \in Ids, n \in Names \cup {NoName} : Bookmark(t, n)
         \/ \E t \in DOMAIN mem, summarize \in BOOLEAN, n \in Names \cup {NoName} : Navigate(t, summarize, n)
         \/ EndCompaction
  PROVE  KeepInv'
<1>1. \A n \in Nat : n + 1 <= MaxEntries + 1 => n <= MaxEntries
  BY TreeAssumption
<1>2. Healthy(Now) /\ Holds(Now, job) /\ Now.next = next /\ next \in Nat
  BY NowIs, HealthyIds DEF SoundInv, KeepInv
<1>3. Room(1) => Now.next <= MaxEntries
  BY <1>1, <1>2 DEF Room
<1>4. {"user", "assistant", "note"} \subseteq Kinds \ {"label", "compaction"} /\ "compaction" \in Kinds \ {"label"}
  BY DEF Kinds, Messages, Metadata
<1>5. /\ job \in Ids \cup {Root} /\ job < Now.next /\ Root \in Ids \cup {Root} /\ Root < Now.next
      /\ NoName \in Names \cup {NoName}
  BY <1>2, HealthyIds, NowIs DEF SoundInv, Root
<1>6. \A kind \in {"user", "assistant", "note"} : Room(1) => Holds(Add(Now, kind, Root, NoName), job)
  BY <1>2, <1>3, <1>4, <1>5, AddHolds
<1>7. CASE \E kind \in {"user", "assistant", "note"} : Append(kind)
  <2>1. PICK kind \in {"user", "assistant", "note"} : Append(kind)
    BY <1>7
  <2>2. Room(1) /\ Become(Add(Now, kind, Root, NoName)) /\ cur' = cur /\ job' = job
    BY <2>1 DEF Append
  <2>3. Holds(Add(Now, kind, Root, NoName), job')
    BY <1>6, <2>2
  <2> QED
    BY <2>2, <2>3, KeepBecome
<1>8. CASE \E kind \in {"user", "note"} : AppendAtOnce(kind)
  <2>1. PICK kind \in {"user", "note"} : AppendAtOnce(kind)
    BY <1>8
  <2> DEFINE a == Add(Now, kind, Root, NoName)
  <2>2. Room(1) /\ Become(Flush(a)) /\ cur' = cur /\ job' = job
    BY <2>1 DEF AppendAtOnce
  <2>3. Holds(a, job')
    BY <1>6, <2>2
  <2>4. Flush(a).mem = a.mem /\ Flush(a).leaf = a.leaf
    BY DEF Flush, Add
  <2> HIDE DEF a
  <2>5. Holds(Flush(a), job')
    BY <2>3, <2>4 DEF Holds
  <2> QED
    BY <2>2, <2>5, KeepBecome
<1>9. CASE \E t \in Ids, n \in Names \cup {NoName} : Bookmark(t, n)
  <2>1. PICK t \in Ids, n \in Names \cup {NoName} : Bookmark(t, n)
    BY <1>9
  <2>2. Room(1) /\ t \in DOMAIN mem /\ Become(AddLabel(Now, t, n)) /\ cur' = cur /\ job' = job
    BY <2>1 DEF Bookmark
  <2>3. t \in DOMAIN Now.mem
    BY <2>2, NowIs
  <2>4. Holds(AddLabel(Now, t, n), job')
    BY <1>2, <1>3, <2>2, <2>3, AddLabelHolds
  <2> QED
    BY <2>2, <2>4, KeepBecome
<1>10. CASE \E t \in DOMAIN mem, summarize \in BOOLEAN, n \in Names \cup {NoName} : Navigate(t, summarize, n)
  <2>1. PICK t \in DOMAIN mem, summarize \in BOOLEAN, n \in Names \cup {NoName} : Navigate(t, summarize, n)
    BY <1>10
  <2>2. PICK s : Holds(s, job') /\ Become(s)
    BY <2>1, NavigateHolds
  <2>3. cur' = cur
    BY <2>1 DEF Navigate
  <2> QED
    BY <2>2, <2>3, KeepBecome
<1>11. CASE EndCompaction
  <2>1. job # Root /\ Room(1) /\ Become(Add(Now, "compaction", job, NoName)) /\ cur' = cur /\ job' = Root
    BY <1>11 DEF EndCompaction
  <2>2. job \in Path(Now.mem, Now.leaf) /\ Holds(Now, Root)
    BY <1>2, <2>1 DEF Holds
  <2>3. Holds(Add(Now, "compaction", job, NoName), job')
    BY <1>2, <1>3, <1>4, <1>5, <2>1, <2>2, AddHolds
  <2> QED
    BY <2>1, <2>3, KeepBecome
<1> QED
  BY <1>7, <1>8, <1>9, <1>10, <1>11

LEMMA KeepReading ==
  ASSUME KeepInv, FileInv, FileInv',
         \/ \E f \in Sessions : Open(f)
         \/ \E f \in Sessions, immediately \in BOOLEAN : NewSession(f, immediately)
         \/ \E f \in Sessions, t \in DOMAIN mem : ForkEmpty(f, t)
         \/ \E f, g \in Sessions : CopySession(f, g)
  PROVE  KeepInv'
<1>1. disk = [f \in Sessions |-> disk[f]]
  BY DEF FileInv
<1>2. CASE \E f \in Sessions : Open(f)
  <2>1. PICK f \in Sessions : Open(f)
    BY <1>2
  <2>2. disk[f] # EmptyBag /\ Replace(Loaded(disk[f]), f, TRUE) /\ disk' = disk
    BY <2>1 DEF Open
  <2> QED
    BY <2>2, KeepReplace DEF KeepInv
<1>3. ASSUME NEW f \in Sessions, NEW immediately \in BOOLEAN, NewSession(f, immediately)
      PROVE  KeepInv'
  <2>1. Replace(NoEntries, f, immediately) /\ \A g \in Sessions : g # f => disk'[g] = disk[g]
    BY <1>1, <1>3 DEF NewSession
  <2>2. DOMAIN NoEntries = {}
    BY DEF NoEntries
  <2>3. Keeps(NoEntries)
    BY <2>2 DEF Keeps, OfKind
  <2> QED
    BY <2>1, <2>3, KeepReplace
<1>4. CASE \E f \in Sessions, t \in DOMAIN mem : ForkEmpty(f, t)
  BY <1>3, <1>4 DEF ForkEmpty
<1>5. CASE \E f, g \in Sessions : CopySession(f, g)
  <2>1. PICK f \in Sessions, g \in Sessions : CopySession(f, g)
    BY <1>5
  <2>2. /\ disk[f] # EmptyBag /\ Replace(Loaded(disk[f]), g, TRUE)
        /\ \A h \in Sessions : h # g => disk'[h] = disk[h]
    BY <1>1, <2>1 DEF CopySession
  <2>3. Keeps(Loaded(disk[f]))
    BY <2>2 DEF KeepInv
  <2> QED
    BY <2>2, <2>3, KeepReplace
<1> QED
  BY <1>2, <1>3, <1>4, <1>5

LEMMA KeepCompaction ==
  ASSUME SoundInv, KeepInv, FileInv', StartCompaction \/ FailCompaction
  PROVE  KeepInv'
<1>1. mem' = mem /\ leaf' = leaf /\ disk' = disk
  BY DEF StartCompaction, FailCompaction
<1>2. job' # Root => job' \in Path(mem, leaf)
  <2>1. CASE StartCompaction
    <3>1. DOMAIN mem \subseteq Nat
      BY HealthyIds, NowIs DEF SoundInv, Ids
    <3>2. Path(mem, leaf) \subseteq DOMAIN mem
      BY DEF Path
    <3> QED
      BY <2>1, <3>1, <3>2, FirstKeptOnPath DEF StartCompaction
  <2>2. CASE FailCompaction
    BY <2>2 DEF FailCompaction
  <2> QED
    BY <2>1, <2>2
<1>3. Holds(Now, job)'
  BY <1>1, <1>2, NowIs DEF KeepInv, Holds, Now
<1> QED
  BY <1>1, <1>3, KeepLater

(***************************************************************************)
(* A branch is a chain                                                     *)
(***************************************************************************)

LEMMA ChainPath ==
  ASSUME NEW b, Sound(b), DOMAIN b \subseteq Ids,
         \A i \in DOMAIN b : b[i].parent = Latest({j \in DOMAIN b : j < i}),
         NEW i \in DOMAIN b
  PROVE  Path(b, i) = {j \in DOMAIN b : j <= i}
<1> DEFINE bad == {x \in DOMAIN b : Path(b, x) # {j \in DOMAIN b : j <= x}}
<1>1. DOMAIN b \in SUBSET Nat /\ DOMAIN b \in SUBSET (1..MaxEntries) /\ MaxEntries \in Nat
  BY TreeAssumption DEF Ids
<1>2. bad = {}
  <2> SUFFICES ASSUME bad # {}
               PROVE  FALSE
    OBVIOUS
  <2>1. PICK x \in bad : \A y \in bad : x <= y
    BY <1>1, NatMin
  <2> DEFINE S == {j \in DOMAIN b : j < x}
             p == Latest(S)
  <2>2. x \in DOMAIN b /\ Path(b, x) # {j \in DOMAIN b : j <= x} /\ b[x].parent = p
    BY <2>1
  <2>3. Path(b, x) = {x} \cup Path(b, p)
    BY <2>2, PathIs
  <2>4. S \in SUBSET (1..MaxEntries)
    BY <1>1
  <2>5. {j \in DOMAIN b : j <= x} = {x} \cup S
    BY <1>1, <2>2
  <2>6. CASE S = {}
    <3>1. p = Root
      BY <1>1, <2>4, <2>6, LatestIs
    <3>2. Path(b, p) = {}
      BY <3>1, PathIs
    <3> QED
      BY <2>2, <2>3, <2>5, <2>6, <3>2
  <2>7. CASE S # {}
    <3> HIDE DEF S
    <3>1. p \in S /\ \A j \in S : j <= p
      BY <1>1, <2>4, <2>7, LatestIs
    <3> HIDE DEF p
    <3>2. p \in DOMAIN b /\ p < x /\ p \in Nat /\ x \in Nat
      BY <1>1, <2>2, <3>1 DEF S
    <3>3. p \notin bad
      BY <2>1, <3>2
    <3>4. Path(b, p) = {j \in DOMAIN b : j <= p}
      BY <3>2, <3>3
    <3>5. {j \in DOMAIN b : j <= p} = S
      <4>1. \A j \in DOMAIN b : j <= p => j < x
        BY <1>1, <3>2
      <4> QED
        BY <3>1, <4>1 DEF S
    <3> QED
      BY <2>2, <2>3, <2>5, <3>4, <3>5
  <2> QED
    BY <2>6, <2>7
<1> QED
  BY <1>2

\* The whole branch lies on the path to its last entry.
LEMMA BranchIsAChain ==
  ASSUME next \in Nat \ {0}, NEW m, Sound(m), DOMAIN m \subseteq 1..(next - 1), NEW target,
         next + Cardinality(Marked(m, target)) <= MaxEntries + 1
  PROVE  /\ DOMAIN Branched(m, target) \subseteq Ids
         /\ \A i \in DOMAIN Branched(m, target) :
              Path(Branched(m, target), i) = {j \in DOMAIN Branched(m, target) : j <= i}
         /\ Path(Branched(m, target), Latest(DOMAIN Branched(m, target))) = DOMAIN Branched(m, target)
<1> DEFINE kept   == Kept(m, target)
           marked == Marked(m, target)
           marks  == Marks(m, target)
           b      == Branched(m, target)
           n      == Cardinality(marked)
<1>1. /\ kept \subseteq 1..(next - 1) /\ marked \subseteq kept
      /\ marks \subseteq next..((next + n) - 1)
      /\ \A i \in marks : i # next => i - 1 \in marks
  BY MarksAre
<1>2. /\ DOMAIN b = kept \cup marks
      /\ \A i \in kept : b[i] = [m[i] EXCEPT !.parent = Latest({j \in kept : j < i})]
      /\ \A i \in marks \ kept : b[i].parent = IF i = next THEN Latest(kept) ELSE i - 1
  BY BranchIs
<1>3. n \in Nat /\ MaxEntries \in Nat
  <2>1. next - 1 \in Nat /\ marked \in SUBSET (1..(next - 1))
    BY <1>1
  <2> HIDE DEF marked
  <2>2. Cardinality(marked) \in Nat
    BY <2>1, BelowIs
  <2> QED
    BY <2>2, TreeAssumption
<1>4. \A i \in kept : i \in Nat /\ i < next /\ i \in Ids
  <2>1. \A i \in 1..(next - 1) : i \in Nat /\ i < next /\ i \in 1..MaxEntries
    BY <1>3
  <2> QED
    BY <1>1, <2>1 DEF Ids
<1>5. \A i \in marks : i \in Nat /\ next <= i /\ i \in Ids
  <2>1. \A i \in next..((next + n) - 1) : i \in Nat /\ next <= i /\ i \in 1..MaxEntries
    BY <1>3
  <2> QED
    BY <1>1, <2>1 DEF Ids
<1>6. \A i \in kept : b[i].parent = Latest({j \in kept : j < i})
  <2> TAKE i \in kept
  <2>1. m[i] \in Entries
    BY DEF Kept, Path, Sound
  <2>2. \A x : [m[i] EXCEPT !.parent = x].parent = x
    BY <2>1 DEF Entries
  <2> QED
    BY <1>2, <2>2
<1>7. Sound(b)
  BY BranchIsSound
<1> HIDE DEF kept, marked, marks, b, n
<1>8. DOMAIN b \subseteq Ids /\ DOMAIN b \in SUBSET (1..MaxEntries)
  BY <1>2, <1>4, <1>5 DEF Ids
<1>9. ASSUME NEW i \in DOMAIN b
      PROVE  b[i].parent = Latest({j \in DOMAIN b : j < i})
  <2>1. CASE i \in kept
    <3>1. \A j \in marks : ~(j < i)
      BY <1>4, <1>5, <2>1
    <3>2. {j \in DOMAIN b : j < i} = {j \in kept : j < i}
      BY <1>2, <3>1
    <3> QED
      BY <1>6, <2>1, <3>2
  <2>2. CASE i \in marks /\ i = next
    <3>1. \A j \in marks : ~(j < i)
      BY <1>5, <2>2
    <3>2. {j \in DOMAIN b : j < i} = kept
      BY <1>2, <1>4, <2>2, <3>1
    <3>3. i \notin kept
      BY <1>4, <2>2
    <3> QED
      BY <1>2, <2>2, <3>2, <3>3
  <2>3. CASE i \in marks /\ i # next
    <3> DEFINE S == {j \in DOMAIN b : j < i}
    <3>1. i - 1 \in marks /\ i \in Nat /\ i \notin kept
      BY <1>1, <1>4, <1>5, <2>3
    <3>2. i - 1 \in S /\ S \in SUBSET (1..MaxEntries)
      BY <1>2, <1>8, <3>1
    <3>3. \A j \in S : j <= i - 1
      <4>1. \A j \in 1..MaxEntries : j < i => j <= i - 1
        BY <3>1
      <4> QED
        BY <1>8, <4>1
    <3> HIDE DEF S
    <3>4. Latest(S) = i - 1
      BY <1>3, <3>2, <3>3, LatestFound
    <3>5. b[i].parent = i - 1
      BY <1>2, <2>3, <3>1
    <3> QED
      BY <3>4, <3>5 DEF S
  <2> QED
    BY <1>2, <2>1, <2>2, <2>3
<1>10. \A i \in DOMAIN b : Path(b, i) = {j \in DOMAIN b : j <= i}
  BY <1>7, <1>8, <1>9, ChainPath
<1>11. Path(b, Latest(DOMAIN b)) = DOMAIN b
  <2>1. CASE DOMAIN b = {}
    <3>1. Latest(DOMAIN b) = Root
      BY <1>3, <1>8, <2>1, LatestIs
    <3> QED
      BY <1>7, <1>8, <2>1, <3>1, PathIs
  <2>2. CASE DOMAIN b # {}
    <3>1. Latest(DOMAIN b) \in DOMAIN b /\ \A j \in DOMAIN b : j <= Latest(DOMAIN b)
      BY <1>3, <1>8, <2>2, LatestIs
    <3> QED
      BY <1>10, <3>1
  <2> QED
    BY <2>1, <2>2
<1> QED
  BY <1>8, <1>10, <1>11 DEF b

\* Which entries a branch b of the tree m has, and what they are.
BranchOf(m, target, b) ==
  /\ DOMAIN b = Kept(m, target) \cup Marks(m, target)
  /\ \A i \in Kept(m, target) :
       /\ i \in DOMAIN m /\ i \in Nat /\ i < next
       /\ b[i].kind = m[i].kind /\ b[i].ref = m[i].ref
       /\ m[i].kind # "label" /\ i \in Path(m, target)
  /\ \A i \in Marks(m, target) :
       /\ i \in Nat /\ next <= i /\ i \notin Kept(m, target)
       /\ b[i].kind = "label"
       /\ b[i].ref = MarkOf(m, target, i)
       /\ b[i].name = Labels(m)[MarkOf(m, target, i)]

LEMMA BranchEntries ==
  ASSUME next \in Nat \ {0}, NEW m, Sound(m), DOMAIN m \subseteq 1..(next - 1), NEW target
  PROVE  BranchOf(m, target, Branched(m, target))
<1> DEFINE kept   == Kept(m, target)
           marked == Marked(m, target)
           marks  == Marks(m, target)
           b      == Branched(m, target)
           n      == Cardinality(marked)
           of(i)  == MarkOf(m, target, i)
<1>1. kept \subseteq 1..(next - 1) /\ kept \subseteq DOMAIN m /\ marked \subseteq kept /\ marks \subseteq next..((next + n) - 1)
  BY MarksAre
<1>2. /\ DOMAIN b = kept \cup marks
      /\ \A i \in kept : b[i] = [m[i] EXCEPT !.parent = Latest({j \in kept : j < i})]
      /\ \A i \in marks \ kept : b[i].kind = "label" /\ b[i].ref = of(i) /\ b[i].name = Labels(m)[of(i)]
  BY BranchIs
<1>3. n \in Nat
  <2>1. next - 1 \in Nat /\ marked \in SUBSET (1..(next - 1))
    BY <1>1
  <2> HIDE DEF marked
  <2> QED
    BY <2>1, BelowIs
<1>4. \A i \in kept : m[i] \in Entries /\ m[i].kind # "label" /\ i \in Path(m, target)
  BY <1>1 DEF Sound, Kept
<1>5. \A i \in kept : b[i].kind = m[i].kind /\ b[i].ref = m[i].ref
  BY <1>2, <1>4 DEF Entries
<1> HIDE DEF kept, marked, marks, b, n, of
<1>6. \A i \in kept : i \in Nat /\ i < next
  BY <1>1
<1>7. \A i \in marks : i \in Nat /\ next <= i
  BY <1>1, <1>3
<1>8. \A i \in marks : i \notin kept
  BY <1>6, <1>7
<1>9. BranchOf(m, target, b)
  BY <1>1, <1>2, <1>4, <1>5, <1>6, <1>7, <1>8 DEF BranchOf, kept, marks, of
<1> QED
  BY <1>9 DEF b

\* No compaction of the path begins to keep at a label.
FirstsStay(m, target) == \A c \in OfKind(m, Path(m, target), {"compaction"}) : m[m[c].ref].kind # "label"

LEMMA BranchKeeps ==
  ASSUME next \in Nat \ {0}, NEW m, Sound(m), DOMAIN m \subseteq 1..(next - 1), DOMAIN m \subseteq Ids,
         NEW target \in DOMAIN m, next + Cardinality(Marked(m, target)) <= MaxEntries + 1,
         Keeps(m), FirstsStay(m, target)
  PROVE  Keeps(Branched(m, target))
<1> DEFINE b == Branched(m, target)
           kept == Kept(m, target)
<1>1. /\ DOMAIN b = kept \cup Marks(m, target)
      /\ \A i \in kept :
           /\ i \in DOMAIN m /\ i \in Nat /\ b[i].kind = m[i].kind /\ b[i].ref = m[i].ref
           /\ i \in Path(m, target)
      /\ \A i \in Marks(m, target) : b[i].kind = "label"
  <2>1. BranchOf(m, target, b)
    BY BranchEntries
  <2> HIDE DEF b
  <2> QED
    BY <2>1 DEF BranchOf
<1>2. \A i \in DOMAIN b : Path(b, i) = {j \in DOMAIN b : j <= i}
  BY BranchIsAChain
<1>3. kept = {i \in Path(m, target) : m[i].kind # "label"}
  BY DEF Kept
<1> HIDE DEF b, kept
<1> SUFFICES ASSUME NEW c \in DOMAIN b, b[c].kind = "compaction"
             PROVE  b[c].ref \in Path(b, c)
  BY DEF Keeps, OfKind, b
<1>4. c \in kept /\ m[c].kind = "compaction" /\ b[c].ref = m[c].ref /\ c \in DOMAIN m /\ c \in Path(m, target)
  BY <1>1
<1>5. m[c].ref \in Path(m, c)
  BY <1>4 DEF Keeps, OfKind
<1>6. Path(m, c) = {k \in Path(m, target) : k <= c}
  BY <1>4, PathBelow
<1>7. m[m[c].ref].kind # "label"
  BY <1>4 DEF FirstsStay, OfKind
<1>8. m[c].ref \in kept /\ m[c].ref <= c
  BY <1>3, <1>5, <1>6, <1>7
<1> QED
  BY <1>1, <1>2, <1>4, <1>8

\* The model is shown the same.
LEMMA BranchContext ==
  ASSUME next \in Nat \ {0}, NEW m, Sound(m), DOMAIN m \subseteq 1..(next - 1), DOMAIN m \subseteq Ids,
         NEW target \in DOMAIN m, next + Cardinality(Marked(m, target)) <= MaxEntries + 1,
         FirstsStay(m, target)
  PROVE  Context(Branched(m, target), Latest(DOMAIN Branched(m, target))) = Context(m, target)
<1> DEFINE b == Branched(m, target)
           kept == Kept(m, target)
           marks == Marks(m, target)
           p == Path(m, target)
           q == DOMAIN b
           c == Latest(OfKind(m, p, {"compaction"}))
           top == Latest(q)
<1>1. /\ q = kept \cup marks
      /\ \A i \in kept : i \in DOMAIN m /\ i \in Nat /\ i < next /\ b[i].kind = m[i].kind /\ b[i].ref = m[i].ref
      /\ \A i \in marks : i \in Nat /\ next <= i /\ b[i].kind = "label"
  <2>1. BranchOf(m, target, b)
    BY BranchEntries
  <2> HIDE DEF b
  <2> QED
    BY <2>1 DEF BranchOf
<1>2. Path(b, top) = q
  BY BranchIsAChain
<1>3. kept = {i \in p : m[i].kind # "label"}
  BY DEF Kept
<1>4. p \subseteq DOMAIN m
  BY DEF Path
<1>5. DOMAIN m \subseteq Nat /\ DOMAIN m \in SUBSET (1..MaxEntries) /\ MaxEntries \in Nat
  BY TreeAssumption DEF Ids
<1> HIDE DEF b, kept, marks, p
<1>6. OfKind(b, q, {"compaction"}) = OfKind(m, p, {"compaction"})
  BY <1>1, <1>3 DEF OfKind
<1>7. OfKind(b, q, Messages) = OfKind(m, p, Messages)
  BY <1>1, <1>3 DEF OfKind, Messages
<1> HIDE DEF q, top, c
<1>8. Context(b, top) = IF c = Root THEN OfKind(b, q, Messages)
                        ELSE OfKind(b, {c} \cup From(q, b[c].ref) \cup {j \in q : j > c}, Messages \cup {"compaction"})
  BY <1>2, <1>6 DEF Context, c
<1>9. Context(m, target) = IF c = Root THEN OfKind(m, p, Messages)
                           ELSE OfKind(m, {c} \cup From(p, m[c].ref) \cup {j \in p : j > c}, Messages \cup {"compaction"})
  BY DEF Context, c, p
<1>10. CASE c = Root
  BY <1>7, <1>8, <1>9, <1>10 DEF b, q, top
<1>11. CASE c # Root
  <2>1. OfKind(m, p, {"compaction"}) \in SUBSET (1..MaxEntries)
    BY <1>4, <1>5 DEF OfKind
  <2>2. c \in OfKind(m, p, {"compaction"})
    BY <1>5, <1>11, <2>1, LatestIs DEF c
  <2>3. c \in p /\ m[c].kind = "compaction" /\ c \in kept
    BY <1>3, <2>2 DEF OfKind
  <2> DEFINE r == m[c].ref
  <2>4. b[c].ref = r /\ r < c /\ m[c] \in Entries /\ c \in Nat /\ c < next
    BY <1>1, <1>4, <2>3 DEF Sound
  <2>5. r \in Nat /\ r < next
    BY <1>5, <2>4 DEF Entries, Ids, Root
  <2>6. m[r].kind # "label"
    BY <2>2 DEF FirstsStay, p
  <2> HIDE DEF r
  <2>7. r \in q <=> r \in p
    <3>1. r \notin marks
      BY <1>1, <2>5
    <3> QED
      BY <1>1, <1>3, <2>6, <3>1
  <2> DEFINE K  == Messages \cup {"compaction"}
             Q  == {c} \cup From(q, r) \cup {j \in q : j > c}
             P  == {c} \cup From(p, r) \cup {j \in p : j > c}
  <2>8. "label" \notin K
    BY DEF Messages
  <2>9. \A j \in q : j \in kept \/ b[j].kind = "label"
    BY <1>1
  <2>10. \A j \in kept : b[j].kind = m[j].kind /\ j \in p /\ j \in q
    BY <1>1, <1>3
  <2>11. Q \subseteq q /\ P \subseteq p
    BY <1>1, <2>3 DEF From
  <2>12. \A j \in kept : j \in Q <=> j \in P
    BY <2>7, <2>10 DEF From
  <2>13. \A j \in p : m[j].kind \in K => j \in kept
    BY <1>3, <2>8
  <2> HIDE DEF K, P, Q
  <2>14. OfKind(b, Q, K) \subseteq OfKind(m, P, K)
    BY <2>8, <2>9, <2>10, <2>11, <2>12 DEF OfKind
  <2>15. OfKind(m, P, K) \subseteq OfKind(b, Q, K)
    BY <2>10, <2>11, <2>12, <2>13 DEF OfKind
  <2>16. Context(b, top) = OfKind(b, Q, K)
    BY <1>8, <1>11, <2>4 DEF Q, K
  <2>17. Context(m, target) = OfKind(m, P, K)
    BY <1>9, <1>11 DEF P, K, r
  <2>18. OfKind(b, Q, K) = OfKind(m, P, K)
    BY <2>14, <2>15, Zenon
  <2>19. Context(b, top) = Context(m, target)
    BY <2>16, <2>17, <2>18
  <2> QED
    BY <2>19 DEF b, q, top
<1> QED
  BY <1>10, <1>11

\* The bookmarks of the path have been written anew.
LEMMA BranchLabels ==
  ASSUME next \in Nat \ {0}, NEW m, Sound(m), DOMAIN m \subseteq 1..(next - 1), DOMAIN m \subseteq Ids,
         NEW target \in DOMAIN m, next + Cardinality(Marked(m, target)) <= MaxEntries + 1,
         NEW t \in Marked(m, target)
  PROVE  t \in DOMAIN Labels(Branched(m, target)) /\ Labels(Branched(m, target))[t] = Labels(m)[t]
<1> DEFINE b == Branched(m, target)
           kept == Kept(m, target)
           marks == Marks(m, target)
           k == Mark(m, target, t)
<1>1. /\ DOMAIN b = kept \cup marks
      /\ \A i \in kept : b[i].kind = m[i].kind /\ m[i].kind # "label"
      /\ \A i \in marks : /\ b[i].kind = "label" /\ b[i].ref = MarkOf(m, target, i)
                          /\ b[i].name = Labels(m)[MarkOf(m, target, i)] /\ i \notin kept
  <2>1. BranchOf(m, target, b)
    BY BranchEntries
  <2> HIDE DEF b
  <2> QED
    BY <2>1 DEF BranchOf
<1>2. /\ t \in kept /\ t \in DOMAIN Labels(m) /\ MarkOf(m, target, k) = t
      /\ \A i \in marks : Mark(m, target, MarkOf(m, target, i)) = i
  BY MarksAre
<1>3. k \in marks
  BY DEF Marks
<1>4. DOMAIN b \subseteq Ids
  BY BranchIsAChain
<1>5. Labels(m)[t] \in Names
  BY <1>2, LabelsAreNames
<1> HIDE DEF b, kept, marks, k
<1>6. LabelsOf(b, t) = {k}
  <2>1. \A i \in DOMAIN b : b[i].kind = "label" => i \in marks
    BY <1>1
  <2>2. \A i \in marks : MarkOf(m, target, i) = t => i = k
    BY <1>2 DEF k
  <2> QED
    BY <1>1, <1>2, <1>3, <2>1, <2>2 DEF LabelsOf, OfKind
<1>7. LastLabel(b, t) = k /\ k # Root
  <2>1. {k} \in SUBSET (1..MaxEntries) /\ MaxEntries \in Nat
    BY <1>1, <1>3, <1>4, TreeAssumption DEF Ids
  <2>2. Latest({k}) \in {k} /\ Latest({k}) # Root
    BY <2>1, LatestIs
  <2> QED
    BY <1>6, <2>2 DEF LastLabel
<1>8. b[k].name = Labels(m)[t] /\ b[k].name # NoName
  BY <1>1, <1>2, <1>3, <1>5, TreeAssumption
<1>9. t \in Named(b)
  BY <1>1, <1>2, <1>7, <1>8 DEF Named
<1> QED
  BY <1>7, <1>8, <1>9, LabelsAre DEF b

(***************************************************************************)
(* Forks                                                                   *)
(***************************************************************************)

\* A fork reads a sound tree, the one in memory, and finds room for its labels.
LEMMA ForkReads ==
  ASSUME SoundInv, FileInv, NEW f, NEW t, NEW position, ForkBranch(f, t, position),
         NEW m, m = Loaded(disk[cur])
  PROVE  /\ cur \in Sessions /\ disk[cur] # EmptyBag /\ m = mem /\ labels = Labels(m)
         /\ next \in Nat \ {0} /\ Sound(m) /\ DOMAIN m \subseteq 1..(next - 1) /\ DOMAIN m \subseteq Ids
         /\ ForkTarget(t, position) \in DOMAIN m
         /\ next + Cardinality(Marked(m, ForkTarget(t, position))) <= MaxEntries + 1
         /\ "forkKept" \in Env \/ FirstsStay(m, ForkTarget(t, position))
         /\ mem' = Branched(m, ForkTarget(t, position))
         /\ leaf' = Latest(DOMAIN mem') /\ labels' = Labels(mem')
         /\ Replace(mem', f, Answered(mem'))
         /\ \A g \in Sessions : g # f => disk'[g] = disk[g]
<1>1. cur \in Sessions /\ disk[cur] # EmptyBag /\ disk = [g \in Sessions |-> disk[g]]
  BY DEF FileInv, ForkBranch
<1>2. m = mem
  <2>1. disk[cur] = Whole(mem) /\ Tree(mem, next) /\ next \in Nat \ {0}
    BY <1>1 DEF FileInv, Fits, Now
  <2> QED
    BY <2>1, LoadedWhole
<1>3. /\ next \in Nat \ {0} /\ Sound(m) /\ DOMAIN m \subseteq 1..(next - 1) /\ DOMAIN m \subseteq Ids
      /\ labels = Labels(m)
  BY <1>2, HealthyIds, NowIs DEF SoundInv, Healthy
<1>4. /\ ForkTarget(t, position) \in DOMAIN m
      /\ Room(Cardinality(Marked(m, ForkTarget(t, position))))
      /\ "forkKept" \in Env \/ FirstsStay(m, ForkTarget(t, position))
      /\ Replace(Branched(m, ForkTarget(t, position)), f, Answered(Branched(m, ForkTarget(t, position))))
  BY DEF ForkBranch, FirstsStay
<1>5. /\ mem' = Branched(m, ForkTarget(t, position))
      /\ leaf' = Latest(DOMAIN mem') /\ labels' = Labels(mem')
  BY <1>4 DEF Replace
<1>6. \A g \in Sessions : g # f => disk'[g] = disk[g]
  BY <1>1 DEF ForkBranch
<1> QED
  BY <1>1, <1>2, <1>3, <1>4, <1>5, <1>6 DEF Room

LEMMA KeepFork ==
  ASSUME OrderRespected, SoundInv, KeepInv, FileInv, FileInv', NEW f, NEW t, NEW position,
         ForkBranch(f, t, position)
  PROVE  KeepInv'
<1> DEFINE m == Loaded(disk[cur])
           target == ForkTarget(t, position)
<1>1. /\ cur \in Sessions /\ disk[cur] # EmptyBag
      /\ next \in Nat \ {0} /\ Sound(m) /\ DOMAIN m \subseteq 1..(next - 1) /\ DOMAIN m \subseteq Ids
      /\ target \in DOMAIN m
      /\ next + Cardinality(Marked(m, target)) <= MaxEntries + 1
      /\ "forkKept" \in Env \/ FirstsStay(m, target)
      /\ mem' = Branched(m, target)
      /\ Replace(mem', f, Answered(mem'))
      /\ \A g \in Sessions : g # f => disk'[g] = disk[g]
  BY ForkReads
<1>2. Keeps(m)
  BY <1>1 DEF KeepInv
<1>3. FirstsStay(m, target)
  BY <1>1 DEF OrderRespected
<1> HIDE DEF m, target
<1>4. Keeps(Branched(m, target))
  BY <1>1, <1>2, <1>3, BranchKeeps
<1> QED
  BY <1>1, <1>4, KeepReplace

LEMMA KeepStep ==
  ASSUME OrderRespected, SoundInv, KeepInv, FileInv, [Next]_vars
  PROVE  KeepInv'
<1>1. FileInv'
  BY FilesStep, FilesIdle
<1>2. CASE UNCHANGED vars
  BY <1>2 DEF vars, KeepInv, Holds, Now
<1>3. CASE Next
  <2>1. CASE \E f \in Sessions, t \in DOMAIN mem, position \in {"before", "at"} : ForkBranch(f, t, position)
    BY <1>1, <2>1, KeepFork
  <2>2. CASE StartCompaction \/ FailCompaction
    BY <1>1, <2>2, KeepCompaction
  <2> QED
    BY <1>1, <1>3, <2>1, <2>2, KeepWriting, KeepReading DEF Next
<1> QED
  BY <1>2, <1>3

LEMMA KeepInit ==
  Init => KeepInv
<1> SUFFICES ASSUME Init
             PROVE  KeepInv
  OBVIOUS
<1>1. mem = NoEntries /\ DOMAIN NoEntries = {} /\ job = Root /\ \A f \in Sessions : disk[f] = EmptyBag
  BY DEF Init, NoEntries
<1>2. Keeps(NoEntries)
  BY <1>1 DEF Keeps, OfKind
<1> QED
  BY <1>1, <1>2, NowIs DEF KeepInv, Holds

\* Unless users move while a compaction is under way, or fork where one begins to keep
\* at a label: parents come first, the bookmarks are those a reload would find, and what
\* a compaction promised to keep is on its path, after every branching and reloading.
THEOREM TreesAreSound == OrderRespected => (Spec => []TreeIsSound)
<1> SUFFICES ASSUME OrderRespected
             PROVE  Spec => []TreeIsSound
  OBVIOUS
<1>1. SoundInv /\ KeepInv => TreeIsSound
  BY NowIs DEF SoundInv, Healthy, Sound, KeepInv, Holds, Keeps, TreeIsSound
<1>2. FileInv /\ [Next]_vars => FileInv'
  BY FilesStep, FilesIdle
<1>3. FileInv /\ SoundInv /\ [Next]_vars => SoundInv'
  BY SoundStep
<1>4. FileInv /\ SoundInv /\ KeepInv /\ [Next]_vars => KeepInv'
  BY KeepStep
<1> QED
  BY InitFiles, SoundInit, KeepInit, <1>1, <1>2, <1>3, <1>4, PTL DEF Spec

ForkStays ==
  \A f \in Sessions, t \in DOMAIN mem, position \in {"before", "at"} :
    cur' = f /\ f # cur /\ ForkBranch(f, t, position) =>
      LET m      == Loaded(disk[cur])
          target == ForkTarget(t, position)
      IN  /\ Context(mem', leaf') = Context(m, target)
          /\ \A i \in Path(m, target) : m[i].kind # "label" /\ i \in DOMAIN labels
               => i \in DOMAIN labels' /\ labels'[i] = labels[i]

LEMMA ForkStaysStep ==
  ASSUME "forkKept" \notin Env, SoundInv, FileInv
  PROVE  ForkStays
<1> SUFFICES ASSUME NEW f \in Sessions, NEW t \in DOMAIN mem, NEW position \in {"before", "at"},
                    ForkBranch(f, t, position)
             PROVE  LET m      == Loaded(disk[cur])
                        target == ForkTarget(t, position)
                    IN  /\ Context(mem', leaf') = Context(m, target)
                        /\ \A i \in Path(m, target) : m[i].kind # "label" /\ i \in DOMAIN labels
                             => i \in DOMAIN labels' /\ labels'[i] = labels[i]
  BY DEF ForkStays
<1> DEFINE m == Loaded(disk[cur])
           target == ForkTarget(t, position)
<1>1. /\ next \in Nat \ {0} /\ Sound(m) /\ DOMAIN m \subseteq 1..(next - 1) /\ DOMAIN m \subseteq Ids
      /\ target \in DOMAIN m
      /\ next + Cardinality(Marked(m, target)) <= MaxEntries + 1
      /\ FirstsStay(m, target)
      /\ mem' = Branched(m, target)
      /\ leaf' = Latest(DOMAIN mem') /\ labels' = Labels(mem') /\ labels = Labels(m)
  BY ForkReads
<1> HIDE DEF m, target
<1>2. Context(mem', leaf') = Context(m, target)
  <2>1. Context(Branched(m, target), Latest(DOMAIN Branched(m, target))) = Context(m, target)
    BY <1>1, BranchContext
  <2> QED
    BY <1>1, <2>1
<1>3. ASSUME NEW i \in Path(m, target), m[i].kind # "label", i \in DOMAIN labels
      PROVE  i \in DOMAIN labels' /\ labels'[i] = labels[i]
  <2>1. i \in Marked(m, target)
    BY <1>1, <1>3 DEF Marked, Kept
  <2> DEFINE b == Branched(m, target)
  <2>2. i \in DOMAIN Labels(b) /\ Labels(b)[i] = Labels(m)[i]
    BY <1>1, <2>1, BranchLabels
  <2> QED
    BY <1>1, <2>2
<1> QED
  BY <1>2, <1>3 DEF m, target

\* A fork shows the model what the original showed it at that entry, and has the
\* bookmarks of that path, unless a compaction on it begins to keep at a label.
THEOREM ForksKeepTheirBranch == "forkKept" \notin Env => (Spec => ForkKeepsBranch)
<1> SUFFICES ASSUME "forkKept" \notin Env
             PROVE  Spec => ForkKeepsBranch
  OBVIOUS
<1>1. FileInv /\ [Next]_vars => FileInv'
  BY FilesStep, FilesIdle
<1>2. FileInv /\ SoundInv /\ [Next]_vars => SoundInv'
  BY SoundStep
<1>3. FileInv /\ SoundInv /\ [Next]_vars => [ForkStays]_vars
  BY ForkStaysStep
<1> QED
  BY InitFiles, SoundInit, <1>1, <1>2, <1>3, PTL DEF Spec, ForkKeepsBranch, ForkStays

=============================================================================
