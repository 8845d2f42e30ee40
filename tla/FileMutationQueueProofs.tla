----------------------- MODULE FileMutationQueueProofs ----------------------
(***************************************************************************)
(* That mutations of one key exclude one another, for any number of calls, *)
(* paths and links; and, if the links lead to files that exist, that those *)
(* of one file do, that they run in the order of their calls and that the  *)
(* queue implements AtomicFiles.                                           *)
(***************************************************************************)
EXTENDS FileMutationQueue, TLAPS

Registered(c) == Live(c) \/ pc[c] \in {"done", "gaveUp"}

\* A call that has looked its key up has one.
KeyInv == \A c \in Calls :
  pc[c] = "keyed" \/ Registered(c) => key[c] \in Paths

\* The key of a call is the file its path leads to.
FileInv == \A c \in Calls :
  pc[c] = "keyed" \/ Registered(c) => key[c] = FileOf[c]

\* What existed at the beginning is never removed.
ExistInv == \A f \in Existing : content[f] # Missing

\* Calls are numbered in the order they are made.
TicketInv ==
  /\ \A c \in Calls : (pc[c] = "new" <=> ticket[c] = 0) /\ ticket[c] <= clock
  /\ \A c, d \in Calls : c # d /\ ticket[c] = ticket[d] => ticket[c] = 0

\* They register in that order.
OrderInv ==
  /\ \A c \in Calls : pc[c] = "keyed" => FirstToRegister(c)
  /\ \A c, d \in Calls : Registering(c) /\ Registered(d) => ticket[d] < ticket[c]

\* The map holds the last call of each chain that is still at work.
TailInv == \A c \in Calls :
  Live(c) => /\ tail[key[c]] # NoCall
             /\ ticket[c] <= ticket[tail[key[c]]]

LastInv == \A p \in Paths : tail[p] # NoCall => Live(tail[p]) /\ key[tail[p]] = p

\* A call waits for a call of its own chain that is no older than any other before it.
ChainInv == \A c, d \in Calls :
  Live(c) /\ Live(d) /\ key[c] = key[d] /\ ticket[c] < ticket[d]
  => /\ before[d] # NoCall
     /\ Live(before[d]) /\ key[before[d]] = key[d]
     /\ ticket[c] <= ticket[before[d]]

\* A call at work has nothing left to wait for.
ActiveInv == \A c \in Calls : Active(c) => Released(c)

\* An edit has read a file that exists ...
EditInv == \A c \in Calls : pc[c] = "loaded" /\ ToolOf[c] = "edit" => base[c] # Missing

\* ... and what it has read is still what the file holds.
BaseInv == \A c \in Calls :
  pc[c] = "loaded" /\ ToolOf[c] = "edit" => base[c] = content[FileOf[c]]

\* Calls of one key run in the order they were made.
KeyOrder == \A c, d \in Calls :
  /\ Registered(c) /\ key[c] = key[d] /\ ticket[c] < ticket[d]
  /\ Active(d) \/ pc[d] \in {"done", "gaveUp"}
  => pc[c] \in Ended

QueueInv ==
  /\ TypeOK
  /\ KeyInv /\ ExistInv /\ EditInv
  /\ TicketInv /\ OrderInv
  /\ TailInv /\ LastInv /\ ChainInv /\ ActiveInv
  /\ KeyOrder

FullInv == QueueInv /\ FileInv /\ BaseInv

\* Two calls of one key are never both at work.
OneMutatorPerKey ==
  \A c, d \in Calls : c # d /\ key[c] = key[d] => ~(Active(c) /\ Active(d))

-----------------------------------------------------------------------------
LEMMA FilesArePaths == /\ Files \subseteq Paths
                       /\ FileOf \in [Calls -> Files]
  BY CallsAssumption, CanonAssumption DEF Files, FileOf

\* The key that FindKey gives is the file: only an existing file hides behind a link.
LEMMA KeyIsFile ==
  ASSUME LinksLeadToFiles, ExistInv, NEW p \in Paths PROVE KeyOf(p) = Canon[p]
  BY DEF LinksLeadToFiles, ExistInv, KeyOf

\* A call that is past currentQueue is the oldest of its chain at work.
LEMMA ActiveIsOldest ==
  ASSUME TypeOK, ChainInv, ActiveInv,
         NEW c \in Calls, NEW d \in Calls,
         Active(d), Live(c), key[c] = key[d]
  PROVE  ~(ticket[c] < ticket[d])
<1>1. Live(d)
  BY DEF Active, Live
<1>2. Released(d)
  BY DEF ActiveInv
<1> QED
  BY <1>1, <1>2 DEF ChainInv, Released, Live, Ended

LEMMA InvGivesOneMutatorPerKey == ASSUME QueueInv PROVE OneMutatorPerKey
<1> SUFFICES ASSUME NEW c \in Calls, NEW d \in Calls,
                    c # d, key[c] = key[d], Active(c), Active(d)
             PROVE  FALSE
  BY DEF OneMutatorPerKey
<1>1. Live(c) /\ Live(d)
  BY DEF Active, Live
<1>2. ticket[c] # ticket[d]
  BY DEF QueueInv, TicketInv, Active
<1>3. ~(ticket[c] < ticket[d]) /\ ~(ticket[d] < ticket[c])
  BY <1>1, ActiveIsOldest DEF QueueInv
<1> QED
  BY <1>2, <1>3 DEF QueueInv, TypeOK

\* Where the keys are files, so are the files' calls.
LEMMA InvGivesOneMutator == ASSUME QueueInv, FileInv PROVE OneMutator
<1>1. \A c \in Calls : Active(c) => key[c] = FileOf[c]
  BY DEF FileInv, Registered, Active, Live
<1> QED
  BY <1>1, InvGivesOneMutatorPerKey DEF OneMutatorPerKey, OneMutator

LEMMA InvGivesCallOrder == ASSUME QueueInv, FileInv PROVE InCallOrder
<1> SUFFICES ASSUME NEW c \in Calls, NEW d \in Calls, FileOf[c] = FileOf[d],
                    0 < ticket[c], ticket[c] < ticket[d],
                    Active(d) \/ pc[d] \in {"done", "gaveUp"}
             PROVE  pc[c] \in Ended
  BY DEF InCallOrder
<1>1. Registered(d)
  BY DEF Registered, Active, Live
<1>2. pc[c] # "new" /\ ~Registering(c)
  BY <1>1 DEF QueueInv, TicketInv, OrderInv, TypeOK
<1>3. Registered(c) \/ pc[c] = "failed"
  BY <1>2 DEF QueueInv, TypeOK, Stages, Ended, Registering, Registered, Live
<1>4. Registered(c) => key[c] = key[d]
  BY <1>1 DEF FileInv
<1> QED
  BY <1>3, <1>4 DEF QueueInv, KeyOrder, Ended

LEMMA InvGivesQueuesForgotten == ASSUME QueueInv PROVE QueuesForgotten
  BY DEF QueueInv, TailInv, LastInv, QueuesForgotten

-----------------------------------------------------------------------------
LEMMA InitInv == Init => FullInv
<1> SUFFICES ASSUME Init PROVE FullInv
  OBVIOUS
<1>1. TypeOK
  BY FilesArePaths DEF Init, TypeOK, Stages
<1>2. ExistInv
  BY CanonAssumption, CallsAssumption DEF Init, ExistInv, Missing
<1>3. \A c \in Calls : pc[c] = "new" /\ ticket[c] = 0
  BY DEF Init
<1>4. KeyInv /\ TicketInv /\ OrderInv /\ TailInv /\ ChainInv /\ ActiveInv /\ KeyOrder /\ BaseInv /\ EditInv
      /\ FileInv
  BY <1>1, <1>3 DEF Init, KeyInv, TicketInv, OrderInv, TailInv, ChainInv, ActiveInv, KeyOrder,
     BaseInv, EditInv, FileInv, Registered, Registering, Live, Active
<1>5. LastInv
  BY DEF Init, LastInv
<1> QED
  BY <1>1, <1>2, <1>4, <1>5 DEF FullInv, QueueInv

LEMMA CallKeeps == ASSUME QueueInv, NEW c \in Calls, Call(c) PROVE QueueInv'
<1> USE DEF QueueInv
<1>1. TypeOK'
  BY DEF Call, TypeOK, Stages
<1>2. /\ pc[c] = "new" /\ pc'[c] = "queued" /\ ticket'[c] = clock + 1 /\ clock' = clock + 1
      /\ \A d \in Calls : d # c => pc'[d] = pc[d] /\ ticket'[d] = ticket[d]
      /\ \A d \in Calls : ticket[d] \in Nat /\ ticket[d] <= clock
      /\ clock \in Nat
  BY DEF Call, TypeOK, TicketInv
<1>3. UNCHANGED <<key, before, tail, content, base>>
  BY DEF Call
<1>4. \A d \in Calls : Live(d)' <=> Live(d)
  BY <1>2 DEF Live
<1>5. \A d \in Calls : Live(d) => d # c
  BY <1>2 DEF Live
<1>6. KeyInv' /\ ExistInv' /\ EditInv'
  BY <1>2, <1>3, <1>4 DEF KeyInv, ExistInv, EditInv, Registered
<1>7. TicketInv'
  BY <1>2 DEF TicketInv
<1>8. OrderInv'
  BY <1>2, <1>4, <1>5 DEF OrderInv, FirstToRegister, Registering, Registered, TicketInv
<1>9. LastInv' /\ TailInv'
  <2>1. LastInv'
    BY <1>3, <1>4 DEF LastInv, TypeOK
  <2>2. TailInv'
    <3> SUFFICES ASSUME NEW d \in Calls, Live(d)
                 PROVE  tail[key[d]] # NoCall /\ ticket'[d] <= ticket'[tail[key[d]]]
      BY <1>3, <1>4 DEF TailInv
    <3>1. key[d] \in Paths
      BY FilesArePaths DEF KeyInv, Registered
    <3>2. tail[key[d]] \in Calls /\ Live(tail[key[d]])
      BY <3>1 DEF TailInv, LastInv, TypeOK
    <3> QED
      BY <1>2, <1>5, <3>2 DEF TailInv
  <2> QED
    BY <2>1, <2>2
<1>10. ChainInv'
  <2> SUFFICES ASSUME NEW d \in Calls, NEW e \in Calls,
                      Live(d), Live(e), key[d] = key[e], ticket[d] < ticket[e]
               PROVE  /\ before[e] # NoCall /\ Live(before[e])' /\ key[before[e]] = key[e]
                      /\ ticket'[d] <= ticket'[before[e]]
    BY <1>2, <1>3, <1>4, <1>5 DEF ChainInv
  <2>1. /\ before[e] \in Calls /\ Live(before[e]) /\ ticket[d] <= ticket[before[e]]
        /\ key[before[e]] = key[e]
    BY DEF ChainInv, TypeOK
  <2> QED
    BY <2>1, <1>2, <1>3, <1>4, <1>5 DEF ChainInv
<1>11. ActiveInv'
  BY <1>2, <1>3 DEF ActiveInv, Active, Released, TypeOK, Ended
<1>12. KeyOrder'
  BY <1>2, <1>3 DEF KeyOrder, Registered, Live, Active, Ended
<1> QED
  BY <1>1, <1>6, <1>7, <1>8, <1>9, <1>10, <1>11, <1>12

LEMMA FindKeyKeeps ==
  ASSUME QueueInv, NEW c \in Calls, FindKey(c) \/ RejectKey(c) PROVE QueueInv'
<1> USE DEF QueueInv
<1>1. /\ pc[c] = "queued" /\ FirstToRegister(c)
      /\ pc'[c] \in {"keyed", "failed"}
      /\ \A d \in Calls : d # c => pc'[d] = pc[d] /\ key'[d] = key[d]
      /\ pc'[c] = "keyed" => key'[c] \in Paths
  <2>1. KeyOf(PathOf[c]) \in Paths
    BY CallsAssumption, CanonAssumption DEF KeyOf
  <2> QED
    BY <2>1 DEF FindKey, RejectKey, TypeOK
<1>2. UNCHANGED <<clock, ticket, before, tail, content, base>>
  BY DEF FindKey, RejectKey
<1>3. TypeOK'
  <2>1. KeyOf(PathOf[c]) \in Paths
    BY CallsAssumption, CanonAssumption DEF KeyOf
  <2> QED
    BY <2>1 DEF FindKey, RejectKey, TypeOK, Stages, Ended
<1>4. /\ \A d \in Calls : Live(d)' <=> Live(d)
      /\ \A d \in Calls : Registered(d)' <=> Registered(d)
      /\ ~Live(c) /\ ~Registered(c)
      /\ \A d \in Calls : Registering(d)' => Registering(d)
  BY <1>1 DEF Live, Registered, Registering
<1>5. KeyInv' /\ ExistInv' /\ EditInv'
  BY <1>1, <1>2, <1>4 DEF KeyInv, ExistInv, EditInv
<1>6. TicketInv'
  BY <1>1, <1>2 DEF TicketInv
<1>7. OrderInv'
  <2>1. \A d \in Calls : pc'[d] = "keyed" => FirstToRegister(d)
    BY <1>1 DEF OrderInv
  <2>2. \A d \in Calls : FirstToRegister(d) => FirstToRegister(d)'
    BY <1>2, <1>4 DEF FirstToRegister
  <2> QED
    BY <2>1, <2>2, <1>2, <1>4 DEF OrderInv
<1>8. LastInv'
  BY <1>1, <1>2, <1>4 DEF LastInv, TypeOK
<1>9. TailInv'
  BY <1>1, <1>2, <1>4 DEF TailInv
<1>10. ChainInv'
  BY <1>1, <1>2, <1>4 DEF ChainInv, TypeOK
<1>11. ActiveInv'
  BY <1>1, <1>2 DEF ActiveInv, Active, Released, TypeOK, Ended
<1>12. KeyOrder'
  BY <1>1, <1>2, <1>4 DEF KeyOrder, Active, Ended
<1> QED
  BY <1>3, <1>5, <1>6, <1>7, <1>8, <1>9, <1>10, <1>11, <1>12

LEMMA RegisterKeeps == ASSUME QueueInv, NEW c \in Calls, Register(c) PROVE QueueInv'
<1> USE DEF QueueInv
<1> DEFINE k == key[c]
<1>1. pc[c] = "keyed" /\ pc'[c] = "waiting" /\ k \in Paths
  BY DEF Register, KeyInv, TypeOK
<1>2. UNCHANGED <<clock, ticket, key, content, base>>
  BY DEF Register
<1>3. \A d \in Calls : d # c => pc'[d] = pc[d] /\ before'[d] = before[d]
  BY DEF Register, TypeOK
<1>4. /\ tail'[k] = c /\ before'[c] = tail[k]
      /\ \A p \in Paths : p # k => tail'[p] = tail[p]
  BY <1>1 DEF Register, TypeOK
<1>5. TypeOK'
  BY <1>1 DEF Register, TypeOK, Stages
<1> HIDE DEF k
<1>6. /\ \A d \in Calls : d # c => (Live(d)' <=> Live(d))
      /\ \A d \in Calls : d # c => (Registered(d)' <=> Registered(d))
      /\ Live(c)' /\ ~Live(c) /\ ~Registered(c)
      /\ \A d \in Calls : Registering(d)' <=> Registering(d) /\ d # c
  BY <1>1, <1>3 DEF Live, Registered, Registering
<1>7. \A d \in Calls : Registered(d) \/ Live(d) => ticket[d] < ticket[c]
  BY <1>1 DEF OrderInv, Registering, Registered
<1>8. KeyInv' /\ ExistInv' /\ EditInv'
  BY <1>1, <1>2, <1>3, <1>6 DEF KeyInv, ExistInv, EditInv, k
<1>9. TicketInv'
  BY <1>1, <1>2, <1>3 DEF TicketInv
<1>10. OrderInv'
  <2>1. \A d \in Calls : pc'[d] = "keyed" => FirstToRegister(d)'
    BY <1>1, <1>2, <1>3, <1>6 DEF OrderInv, FirstToRegister
  <2>2. \A d \in Calls : Registering(d) /\ d # c => ticket[c] < ticket[d]
    <3>1. FirstToRegister(c)
      BY <1>1 DEF OrderInv
    <3>2. \A d \in Calls : Registering(d) /\ d # c => ticket[c] # ticket[d]
      BY <1>1 DEF TicketInv, Registering
    <3> QED
      BY <3>1, <3>2 DEF FirstToRegister, TypeOK
  <2> QED
    BY <2>1, <2>2, <1>2, <1>6 DEF OrderInv
<1>11. LastInv'
  BY <1>2, <1>4, <1>6 DEF LastInv, TypeOK, k
<1>12. TailInv'
  <2> SUFFICES ASSUME NEW d \in Calls, Live(d)'
               PROVE  tail'[key[d]] # NoCall /\ ticket[d] <= ticket[tail'[key[d]]]
    BY <1>2 DEF TailInv
  <2>1. key[d] \in Paths
    BY <1>1, <1>6, FilesArePaths DEF KeyInv, Registered, k
  <2>2. CASE key[d] = k
    BY <2>2, <1>4, <1>6, <1>7, CallsAssumption DEF TypeOK
  <2>3. CASE key[d] # k
    BY <2>1, <2>3, <1>4, <1>6 DEF TailInv, k
  <2> QED
    BY <2>2, <2>3
<1>13. ChainInv'
  <2> SUFFICES ASSUME NEW d \in Calls, NEW e \in Calls,
                      Live(d)', Live(e)', key[d] = key[e], ticket[d] < ticket[e]
               PROVE  /\ before'[e] # NoCall /\ Live(before[e])' /\ key[before'[e]] = key[e]
                      /\ ticket[d] <= ticket[before'[e]]
    BY <1>2 DEF ChainInv
  <2>1. d # c
    BY <1>6, <1>7 DEF TypeOK
  <2>2. Live(d)
    BY <2>1, <1>6
  <2>3. CASE e = c
    <3>1. key[d] = k
      BY <2>3 DEF k
    <3>2. /\ tail[k] \in Calls /\ ticket[d] <= ticket[tail[k]] /\ Live(tail[k]) /\ tail[k] # NoCall
          /\ key[tail[k]] = key[e]
      BY <2>2, <2>3, <3>1, <1>1 DEF TailInv, LastInv, TypeOK, k
    <3>3. before'[e] = tail[k] /\ tail[k] # c
      BY <2>3, <3>2, <1>4, <1>6
    <3> QED
      BY <3>2, <3>3, <1>6
  <2>4. CASE e # c
    <3>1. before'[e] = before[e] /\ Live(e)
      BY <2>4, <1>3, <1>6
    <3>2. /\ before[e] \in Calls /\ Live(before[e]) /\ ticket[d] <= ticket[before[e]]
          /\ before[e] # NoCall /\ key[before[e]] = key[e]
      BY <3>1, <2>2 DEF ChainInv, TypeOK
    <3>3. before[e] # c
      BY <3>2, <1>6
    <3> QED
      BY <3>1, <3>2, <3>3, <1>6
  <2> QED
    BY <2>3, <2>4
<1>14. ActiveInv'
  <2> SUFFICES ASSUME NEW d \in Calls, Active(d)' PROVE Released(d)'
    BY DEF ActiveInv
  <2>1. d # c /\ Active(d)
    BY <1>1, <1>3 DEF Active
  <2>2. Released(d) /\ before'[d] = before[d]
    BY <2>1, <1>3 DEF ActiveInv
  <2> QED
    BY <2>2, <1>1, <1>3 DEF Released, TypeOK, Ended
<1>15. KeyOrder'
  <2> SUFFICES ASSUME NEW b \in Calls, NEW d \in Calls, Registered(b)', key[b] = key[d],
                      ticket[b] < ticket[d], Active(d)' \/ pc'[d] \in {"done", "gaveUp"}
               PROVE  pc'[b] \in Ended
    BY <1>2 DEF KeyOrder
  <2>1. d # c /\ Registered(d) /\ pc'[d] = pc[d]
    BY <1>1, <1>3 DEF Active, Registered, Live
  <2>2. b # c
    BY <2>1, <1>7 DEF TypeOK
  <2> QED
    BY <2>1, <2>2, <1>3, <1>6 DEF KeyOrder, Active
<1> QED
  BY <1>5, <1>8, <1>9, <1>10, <1>11, <1>12, <1>13, <1>14, <1>15

LEMMA StartKeeps == ASSUME QueueInv, NEW c \in Calls, Start(c) PROVE QueueInv'
<1> USE DEF QueueInv
<1>1. /\ pc[c] = "waiting" /\ pc'[c] = "running" /\ Released(c)
      /\ \A d \in Calls : d # c => pc'[d] = pc[d]
  BY DEF Start, TypeOK
<1>2. UNCHANGED <<clock, ticket, key, before, tail, content, base>>
  BY DEF Start
<1>3. TypeOK'
  BY DEF Start, TypeOK, Stages
<1>4. /\ \A d \in Calls : (Live(d)' <=> Live(d))
      /\ \A d \in Calls : (Registered(d)' <=> Registered(d))
      /\ \A d \in Calls : (Registering(d)' <=> Registering(d))
      /\ \A d \in Calls : (pc'[d] = "keyed" <=> pc[d] = "keyed")
      /\ \A d \in Calls : (pc'[d] \in Ended <=> pc[d] \in Ended)
  BY <1>1 DEF Live, Registered, Registering, Ended
<1>5. KeyInv' /\ ExistInv' /\ EditInv'
  BY <1>1, <1>2, <1>4 DEF KeyInv, ExistInv, EditInv
<1>6. TicketInv'
  BY <1>1, <1>2 DEF TicketInv
<1>7. OrderInv'
  BY <1>2, <1>4 DEF OrderInv, FirstToRegister
<1>8. LastInv'
  BY <1>2, <1>4 DEF LastInv, TypeOK
<1>9. TailInv'
  BY <1>2, <1>4 DEF TailInv
<1>10. ChainInv'
  BY <1>2, <1>4 DEF ChainInv, TypeOK
<1>11. ActiveInv'
  BY <1>1, <1>2, <1>4 DEF ActiveInv, Active, Released, TypeOK
<1>12. KeyOrder'
  <2> SUFFICES ASSUME NEW b \in Calls, Registered(b), key[b] = key[c], ticket[b] < ticket[c]
               PROVE  pc[b] \in Ended
    BY <1>1, <1>2, <1>4 DEF KeyOrder, Active
  <2>3. ~Live(b)
    <3> SUFFICES ASSUME Live(b) PROVE FALSE
      OBVIOUS
    <3>1. Live(c)
      BY <1>1 DEF Live
    <3>2. before[c] \in Calls /\ Live(before[c])
      BY <3>1 DEF ChainInv, TypeOK
    <3> QED
      BY <3>2, <1>1, CallsAssumption DEF Released, Live, Ended
  <2> QED
    BY <2>3 DEF Registered, Ended
<1> QED
  BY <1>3, <1>5, <1>6, <1>7, <1>8, <1>9, <1>10, <1>11, <1>12

LEMMA ChangeKeeps ==
  ASSUME QueueInv, NEW c \in Calls, Load(c) \/ Store(c) PROVE QueueInv'
<1> USE DEF QueueInv
<1>1. /\ pc[c] \in {"running", "loaded"} /\ pc'[c] \in {"loaded", "stored"}
      /\ \A d \in Calls : d # c => pc'[d] = pc[d]
  BY DEF Load, Store, TypeOK
<1>2. UNCHANGED <<clock, ticket, key, before, tail>>
  BY DEF Load, Store
<1>3. FileOf[c] \in Files /\ content[FileOf[c]] \in (SUBSET Calls) \union {Missing}
  BY FilesArePaths DEF TypeOK
<1>4. TypeOK' /\ ExistInv' /\ EditInv'
  <2>1. CASE Load(c)
    BY <2>1, <1>1, <1>3 DEF Load, TypeOK, Stages, ExistInv, EditInv
  <2>2. CASE Store(c)
    <3> DEFINE text == IF ToolOf[c] = "write" THEN {c} ELSE base[c] \union {c}
    <3>1. /\ pc[c] = "loaded" /\ pc' = [pc EXCEPT ![c] = "stored"] /\ base' = base
          /\ content' = [content EXCEPT ![FileOf[c]] = text]
      BY <2>2 DEF Store
    <3>2. text # Missing /\ text \in SUBSET Calls
      <4>1. CASE ToolOf[c] = "write"
        BY <4>1, CallsAssumption DEF Missing
      <4>2. CASE ToolOf[c] # "write"
        <5>1. ToolOf[c] = "edit"
          BY <4>2, CallsAssumption
        <5>2. base[c] \in SUBSET Calls
          BY <5>1, <3>1 DEF EditInv, TypeOK
        <5> QED
          BY <4>2, <5>2, CallsAssumption DEF Missing
      <4> QED
        BY <4>1, <4>2
    <3> HIDE DEF text
    <3>3. TypeOK'
      BY <3>1, <3>2, <1>2, <1>3 DEF TypeOK, Stages
    <3>4. ExistInv'
      BY <3>1, <3>2, <1>3, CanonAssumption DEF ExistInv, TypeOK
    <3>5. EditInv'
      BY <3>1, <1>1 DEF EditInv
    <3> QED
      BY <3>3, <3>4, <3>5
  <2> QED
    BY <2>1, <2>2
<1>5. /\ \A d \in Calls : (Live(d)' <=> Live(d))
      /\ \A d \in Calls : (Active(d)' <=> Active(d))
      /\ \A d \in Calls : (Registered(d)' <=> Registered(d))
      /\ \A d \in Calls : (Registering(d)' <=> Registering(d))
      /\ \A d \in Calls : (pc'[d] = "keyed" <=> pc[d] = "keyed")
      /\ \A d \in Calls : (pc'[d] \in Ended <=> pc[d] \in Ended)
      /\ \A d \in Calls : (pc'[d] \in {"done", "gaveUp"} <=> pc[d] \in {"done", "gaveUp"})
      /\ \A d \in Calls : (pc'[d] = "new" <=> pc[d] = "new")
  BY <1>1 DEF Live, Active, Registered, Registering, Ended
<1>6. KeyInv'
  BY <1>2, <1>5 DEF KeyInv
<1>7. TicketInv'
  BY <1>2, <1>5 DEF TicketInv
<1>8. OrderInv'
  BY <1>2, <1>5 DEF OrderInv, FirstToRegister
<1>9. LastInv'
  BY <1>2, <1>5 DEF LastInv, TypeOK
<1>10. TailInv'
  BY <1>2, <1>5 DEF TailInv
<1>11. ChainInv'
  BY <1>2, <1>5 DEF ChainInv, TypeOK
<1>12. ActiveInv'
  BY <1>2, <1>5 DEF ActiveInv, Released, TypeOK
<1>13. KeyOrder'
  BY <1>2, <1>5 DEF KeyOrder
<1> QED
  BY <1>4, <1>6, <1>7, <1>8, <1>9, <1>10, <1>11, <1>12, <1>13

LEMMA FinishKeeps == ASSUME QueueInv, NEW c \in Calls, Finish(c) PROVE QueueInv'
<1> USE DEF QueueInv
<1> DEFINE k == key[c]
<1>1. /\ Active(c) /\ Live(c) /\ pc'[c] \in {"done", "gaveUp"}
      /\ \A d \in Calls : d # c => pc'[d] = pc[d]
      /\ k \in Paths
  BY FilesArePaths DEF Finish, TypeOK, Active, Live, KeyInv, Registered
<1>2. UNCHANGED <<clock, ticket, key, before, content, base>>
  BY DEF Finish
<1>3. /\ tail' \in [Paths -> Calls \union {NoCall}]
      /\ \A p \in Paths : p # k => tail'[p] = tail[p]
      /\ tail[k] = c => tail'[k] = NoCall
      /\ tail[k] # c => tail'[k] = tail[k]
  BY <1>1 DEF Finish, TypeOK
<1>4. TypeOK'
  BY <1>2, <1>3 DEF Finish, TypeOK, Stages, Ended
<1> HIDE DEF k
<1>5. /\ \A d \in Calls : Live(d)' <=> Live(d) /\ d # c
      /\ \A d \in Calls : Active(d)' <=> Active(d) /\ d # c
      /\ \A d \in Calls : Registered(d)' <=> Registered(d)
      /\ \A d \in Calls : Registering(d)' <=> Registering(d)
      /\ \A d \in Calls : pc[d] \in Ended => pc'[d] \in Ended
      /\ \A d \in Calls : pc'[d] \in {"keyed", "loaded", "new"} => pc'[d] = pc[d]
      /\ \A d \in Calls : pc[d] = "new" => pc'[d] = "new"
  BY <1>1 DEF Live, Active, Registered, Registering, Ended
\* Every other call of the chain is younger.
<1>6. \A d \in Calls : Live(d) /\ key[d] = k /\ d # c => ticket[c] < ticket[d]
  <2> SUFFICES ASSUME NEW d \in Calls, Live(d), key[d] = k, d # c PROVE ticket[c] < ticket[d]
    OBVIOUS
  <2>1. ~(ticket[d] < ticket[c])
    BY <1>1, ActiveIsOldest DEF k
  <2>2. ticket[d] # ticket[c]
    BY <1>1 DEF TicketInv, Live
  <2> QED
    BY <2>1, <2>2 DEF TypeOK
<1>7. KeyInv' /\ ExistInv' /\ EditInv'
  BY <1>2, <1>5 DEF KeyInv, ExistInv, EditInv
<1>8. TicketInv'
  BY <1>2, <1>5 DEF TicketInv
<1>9. OrderInv'
  BY <1>2, <1>5 DEF OrderInv, FirstToRegister
<1>10. LastInv'
  BY <1>2, <1>3, <1>5 DEF LastInv, TypeOK, k
<1>11. TailInv'
  <2> SUFFICES ASSUME NEW d \in Calls, Live(d), d # c
               PROVE  tail'[key[d]] # NoCall /\ ticket[d] <= ticket[tail'[key[d]]]
    BY <1>2, <1>5 DEF TailInv
  <2>1. key[d] \in Paths
    BY FilesArePaths DEF KeyInv, Registered
  <2>2. tail[key[d]] # NoCall /\ ticket[d] <= ticket[tail[key[d]]]
    BY DEF TailInv
  <2>3. CASE key[d] = k /\ tail[k] = c
    BY <2>2, <2>3, <1>6 DEF TypeOK
  <2> QED
    BY <2>1, <2>2, <2>3, <1>3
<1>12. ChainInv'
  <2> SUFFICES ASSUME NEW d \in Calls, NEW e \in Calls, Live(d), Live(e), d # c, e # c,
                      key[d] = key[e], ticket[d] < ticket[e]
               PROVE  /\ before[e] # NoCall /\ Live(before[e])' /\ key[before[e]] = key[e]
                      /\ ticket[d] <= ticket[before[e]]
    BY <1>2, <1>5 DEF ChainInv
  <2>1. /\ before[e] # NoCall /\ before[e] \in Calls /\ Live(before[e])
        /\ ticket[d] <= ticket[before[e]] /\ key[before[e]] = key[e]
    BY DEF ChainInv, TypeOK
  <2>2. before[e] # c
    <3> SUFFICES ASSUME before[e] = c PROVE FALSE
      OBVIOUS
    <3>1. CASE key[d] = k
      BY <3>1, <2>1, <1>6 DEF TypeOK
    <3>2. CASE key[d] # k
      BY <3>2, <2>1 DEF k
    <3> QED
      BY <3>1, <3>2
  <2> QED
    BY <2>1, <2>2, <1>2, <1>5
<1>13. ActiveInv'
  BY <1>2, <1>5 DEF ActiveInv, Released, TypeOK
<1>14. KeyOrder'
  BY <1>1, <1>2, <1>5 DEF KeyOrder
<1> QED
  BY <1>4, <1>7, <1>8, <1>9, <1>10, <1>11, <1>12, <1>13, <1>14

LEMMA QueueNext == QueueInv /\ [Next]_vars => QueueInv'
<1> SUFFICES ASSUME QueueInv, [Next]_vars PROVE QueueInv'
  OBVIOUS
<1>1. CASE UNCHANGED vars
  BY <1>1 DEF vars, QueueInv, TypeOK, KeyInv, ExistInv, EditInv, TicketInv, OrderInv, TailInv,
     LastInv, ChainInv, ActiveInv, KeyOrder, FirstToRegister, Registered, Registering, Live,
     Active, Released
<1>2. CASE Next
  BY <1>2, CallKeeps, FindKeyKeeps, RegisterKeeps, StartKeeps, ChangeKeeps, FinishKeeps DEF Next
<1> QED
  BY <1>1, <1>2

\* What an edit has read stays true because nobody else is at work on its file.
LEMMA BaseNext == FullInv /\ [Next]_vars => BaseInv'
<1> SUFFICES ASSUME FullInv, [Next]_vars, NEW e \in Calls, pc'[e] = "loaded", ToolOf[e] = "edit"
             PROVE  base'[e] = content'[FileOf[e]]
  BY DEF BaseInv
<1> USE DEF FullInv
<1>1. OneMutator /\ TypeOK
  BY InvGivesOneMutator DEF QueueInv
<1>2. CASE UNCHANGED vars
  BY <1>2 DEF vars, BaseInv
<1>3. ASSUME NEW c \in Calls, Load(c) PROVE base'[e] = content'[FileOf[e]]
  BY <1>1, <1>3 DEF Load, BaseInv, TypeOK
<1>4. ASSUME NEW c \in Calls, Store(c) PROVE base'[e] = content'[FileOf[e]]
  <2>1. pc[c] = "loaded" /\ c # e /\ pc[e] = "loaded" /\ base' = base
    BY <1>1, <1>4 DEF Store, TypeOK
  <2>2. FileOf[c] # FileOf[e]
    BY <2>1, <1>1 DEF OneMutator, Active
  <2>3. content'[FileOf[e]] = content[FileOf[e]]
    BY <2>2, <1>1, <1>4, FilesArePaths DEF Store, TypeOK
  <2> QED
    BY <2>1, <2>3 DEF BaseInv
<1>5. ASSUME NEW c \in Calls,
             Call(c) \/ FindKey(c) \/ RejectKey(c) \/ Register(c) \/ Start(c) \/ Finish(c)
      PROVE  base'[e] = content'[FileOf[e]]
  <2>1. pc[e] = "loaded" /\ UNCHANGED <<base, content>>
    BY <1>1, <1>5 DEF Call, FindKey, RejectKey, Register, Start, Finish, TypeOK
  <2> QED
    BY <2>1 DEF BaseInv
<1> QED
  BY <1>2, <1>3, <1>4, <1>5 DEF Next

\* A key is the file, for ever, if the links lead to files.
LEMMA FileNext == ASSUME LinksLeadToFiles PROVE FullInv /\ [Next]_vars => FileInv'
<1> SUFFICES ASSUME FullInv, [Next]_vars, NEW e \in Calls, (pc[e] = "keyed" \/ Registered(e))'
             PROVE  key'[e] = FileOf[e]
  BY DEF FileInv
<1> USE DEF FullInv, QueueInv
<1>1. CASE UNCHANGED vars
  BY <1>1 DEF vars, FileInv, Registered, Live
<1>2. ASSUME NEW c \in Calls, FindKey(c) PROVE key'[e] = FileOf[e]
  <2>1. KeyOf(PathOf[c]) = FileOf[c]
    BY CallsAssumption, KeyIsFile DEF FileOf
  <2>2. CASE e = c
    BY <1>2, <2>1, <2>2 DEF FindKey, TypeOK
  <2>3. CASE e # c
    BY <1>2, <2>3 DEF FindKey, TypeOK, FileInv, Registered, Live
  <2> QED
    BY <2>2, <2>3
<1>3. ASSUME NEW c \in Calls,
             \/ Call(c) \/ RejectKey(c) \/ Register(c) \/ Start(c)
             \/ Load(c) \/ Store(c) \/ Finish(c)
      PROVE  key'[e] = FileOf[e]
  <2>1. UNCHANGED key
    BY <1>3 DEF Call, RejectKey, Register, Start, Load, Store, Finish
  <2>2. pc[e] = "keyed" \/ Registered(e)
    BY <1>3 DEF Call, RejectKey, Register, Start, Load, Store, Finish, TypeOK, Registered, Live, Active
  <2> QED
    BY <2>1, <2>2 DEF FileInv
<1> QED
  BY <1>1, <1>2, <1>3 DEF Next

LEMMA QueueAlways == Spec => []QueueInv
<1>1. Init => QueueInv
  BY InitInv DEF FullInv
<1> QED
  BY <1>1, QueueNext, PTL DEF Spec

LEMMA InvAlways == ASSUME LinksLeadToFiles PROVE Spec => []FullInv
<1>1. FullInv /\ [Next]_vars => FullInv'
  BY QueueNext, FileNext, BaseNext DEF FullInv
<1> QED
  BY InitInv, <1>1, PTL DEF Spec

-----------------------------------------------------------------------------
\* Every variable keeps its type: in particular a registration never reads a queue that is
\* not there (line 36 of file-mutation-queue.ts).
THEOREM TypeCorrect == Spec => []TypeOK
<1>1. QueueInv => TypeOK
  BY DEF QueueInv
<1> QED
  BY <1>1, QueueAlways, PTL

\* The map of the queues holds exactly the chains that still have a call at work.
THEOREM NoQueueLeaks == Spec => []QueuesForgotten
<1>1. QueueInv => QueuesForgotten
  BY InvGivesQueuesForgotten
<1> QED
  BY <1>1, QueueAlways, PTL

\* The mutations that found the same key exclude one another, whatever number of calls,
\* links and missing files there is: what the queue promises without a condition.
THEOREM QueueExclusion == Spec => []OneMutatorPerKey
<1>1. QueueInv => OneMutatorPerKey
  BY InvGivesOneMutatorPerKey
<1> QED
  BY <1>1, QueueAlways, PTL

\* withFileMutationQueue serialises the mutations of one file, whatever number of calls and
\* links there is, if every link leads to a file that exists beforehand.  Without that one
\* file may have two keys and its mutations may overlap.
THEOREM MutualExclusion == ASSUME LinksLeadToFiles PROVE Spec => []OneMutator
<1>1. FullInv => OneMutator
  BY InvGivesOneMutator DEF FullInv
<1> QED
  BY <1>1, InvAlways, PTL

\* Calls on one file run in the order in which the tools were called, under the same
\* condition.
THEOREM CallOrder == ASSUME LinksLeadToFiles PROVE Spec => []InCallOrder
<1>1. FullInv => InCallOrder
  BY InvGivesCallOrder DEF FullInv
<1> QED
  BY <1>1, InvAlways, PTL

-----------------------------------------------------------------------------
(* The queue implements AtomicFiles. *)

LEMMA AtomicInit == Init => Atomic!Init
<1> SUFFICES ASSUME Init PROVE Atomic!Init
  OBVIOUS
<1>1. content \in [Files -> {Missing, {}}]
  BY DEF Init
<1>2. {c \in Calls : pc[c] \in {"stored", "done"}} = {}
  BY DEF Init
<1> QED
  BY <1>1, <1>2 DEF Atomic!Init

\* Only Store is a step of AtomicFiles; all others stutter.
LEMMA AtomicStep == FullInv /\ [Next]_vars => [Atomic!Next]_(Atomic!vars)
<1> SUFFICES ASSUME FullInv, [Next]_vars PROVE [Atomic!Next]_(Atomic!vars)
  OBVIOUS
<1> DEFINE applied == {c \in Calls : pc[c] \in {"stored", "done"}}
<1>1. TypeOK /\ BaseInv /\ EditInv
  BY DEF FullInv, QueueInv
<1>2. CASE UNCHANGED vars
  BY <1>2 DEF vars, Atomic!vars
<1>3. ASSUME NEW c \in Calls, Store(c) PROVE Atomic!Next
  <2>1. pc[c] = "loaded" /\ pc' = [pc EXCEPT ![c] = "stored"]
    BY <1>3 DEF Store
  <2>2. c \notin applied /\ applied' = applied \union {c}
    BY <2>1, <1>1 DEF TypeOK
  <2>3. CASE ToolOf[c] = "write"
    <3>1. content' = [content EXCEPT ![FileOf[c]] = {c}]
      BY <2>3, <1>3 DEF Store
    <3> QED
      BY <3>1, <2>2, <2>3 DEF Atomic!Next, Atomic!Write
  <2>4. CASE ToolOf[c] = "edit"
    <3>1. base[c] = content[FileOf[c]] /\ content[FileOf[c]] # Missing
      BY <2>1, <2>4, <1>1 DEF BaseInv, EditInv
    <3>2. content' = [content EXCEPT ![FileOf[c]] = base[c] \union {c}]
      BY <2>4, <1>3 DEF Store
    <3>3. content' = [content EXCEPT ![FileOf[c]] = @ \union {c}]
      BY <3>1, <3>2
    <3> QED
      BY <3>1, <3>3, <2>2, <2>4 DEF Atomic!Next, Atomic!Edit
  <2> QED
    BY <2>3, <2>4, CallsAssumption
<1>4. ASSUME NEW c \in Calls,
             \/ Call(c) \/ FindKey(c) \/ RejectKey(c) \/ Register(c)
             \/ Start(c) \/ Load(c) \/ Finish(c)
      PROVE  UNCHANGED <<content, applied>>
  <2>1. UNCHANGED content
    BY <1>4 DEF Call, FindKey, RejectKey, Register, Start, Load, Finish
  <2>2. \A d \in Calls : (pc'[d] \in {"stored", "done"} <=> pc[d] \in {"stored", "done"})
    BY <1>1, <1>4 DEF Call, FindKey, RejectKey, Register, Start, Load, Finish, Active, TypeOK
  <2> QED
    BY <2>1, <2>2
<1> QED
  BY <1>2, <1>3, <1>4 DEF Next, Atomic!vars

\* Parallel writes and edits have the effect of some sequence of atomic ones: no edit is
\* lost and none is applied to a text that has meanwhile been replaced, if every link leads
\* to a file that exists beforehand.
THEOREM ImplementsAtomicFiles == ASSUME LinksLeadToFiles PROVE Spec => AtomicChanges
<1> QED
  BY InvAlways, AtomicInit, AtomicStep, PTL DEF Spec, AtomicChanges, Atomic!Spec
=============================================================================
