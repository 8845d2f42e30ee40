------------------------- MODULE SettingsFileProofs -------------------------
(***************************************************************************)
(* That a write of the settings file changes only what its own manager has *)
(* set, as long as no two managers create the file at the same time, and   *)
(* that no change a manager shows is forgotten, as long as bursts of       *)
(* setters do not meet failing writes: for any number of managers, fields  *)
(* and setters.                                                            *)
(***************************************************************************)
EXTENDS SettingsFile, TLAPS

CreatedByOne == \A w \in Weathers : "createTogether" \notin w

\* Who has read the file holds it, and what it has read is still there.
ReadInv == \A m \in Managers : at[m] = "read" => lock = m /\ base[m] = data

\* A missing file holds nothing, and only one manager at a time is about to create it.
CreateInv ==
  /\ \A m \in Managers : at[m] = "missing" => ~exists
  /\ ~exists => data = Empty
  /\ ~exists => \A m, n \in Managers : m # n /\ at[m] # "idle" => at[n] = "idle"

\* What a manager has marked, or queued, it has set itself.
MarkedInv == \A m \in Managers : \A f \in marked[m] : mem[m][f][1] = m

QueuedInv == \A m \in Managers : \A i \in DOMAIN queue[m] :
  \A f \in queue[m][i].fields : queue[m][i].values[f][1] = m

\* A manager at work has something to write.
WorkInv == \A m \in Managers : at[m] # "idle" => queue[m] # <<>>

MergeInv == TypeOK /\ ReadInv /\ CreateInv /\ MarkedInv /\ QueuedInv /\ WorkInv

Writes == [fields : SUBSET Fields, values : Data]

(***************************************************************************)
(* Lemmas                                                                  *)
(***************************************************************************)

\* The type invariant before and after the first of the managers' actions: a setter
\* stores a value that nobody has set before.
LEMMA SetTyped ==
  ASSUME TypeOK, NEW m \in Managers, NEW f \in Fields, Set(m, f)
  PROVE  TypeOK'
<1> DEFINE values == [mem[m] EXCEPT ![f] = <<m, sets + 1>>]
           write  == Snapshot(Modified(m, f), values)
<1>1. sets \in Nat /\ sets + 1 \in 1..MaxSets
  BY SettingsAssumption DEF Set, TypeOK
<1>2. values \in Data
  BY <1>1 DEF TypeOK, Data, Values
<1>3. Modified(m, f) \in SUBSET Fields
  BY DEF TypeOK, Modified
<1>4. write \in Writes
  BY <1>2, <1>3 DEF Snapshot, Writes
<1>5. mem' \in [Managers -> Data] /\ marked' \in [Managers -> SUBSET Fields]
  BY <1>2 DEF Set, TypeOK
<1>6. queue' = queue \/ queue' = [queue EXCEPT ![m] = Append(queue[m], write)]
  BY DEF Set
<1> HIDE DEF write
<1>7. queue' \in [Managers -> Seq(Writes)]
  <2>1. queue \in [Managers -> Seq(Writes)]
    BY DEF TypeOK, Writes
  <2>2. Append(queue[m], write) \in Seq(Writes)
    BY <1>4, <2>1
  <2> QED BY <1>6, <2>1, <2>2
<1>8. sets' \in 0..MaxSets
  BY <1>1 DEF Set
<1> QED BY <1>5, <1>7, <1>8 DEF Set, TypeOK, Writes

\* The end of a write takes the first write from its manager's queue, and touches
\* nobody else's; a lock that somebody else holds stays held.
LEMMA DoneTyped ==
  ASSUME TypeOK, WorkInv, NEW m \in Managers, at[m] # "idle", Done(m)
  PROVE  /\ at' \in [Managers -> {"idle", "found", "missing", "read"}]
         /\ lock' \in Managers \cup {NoManager}
         /\ queue' \in [Managers -> Seq(Writes)]
         /\ waits' \in [Managers -> Nat]
         /\ at'[m] = "idle"
         /\ \A n \in Managers \ {m} : at'[n] = at[n] /\ queue'[n] = queue[n]
         /\ \A n \in Managers \ {m} : lock = n => lock' = n
         /\ \A i \in DOMAIN queue'[m] : i + 1 \in DOMAIN queue[m] /\ queue'[m][i] = queue[m][i + 1]
<1>1. queue[m] \in Seq(Writes) /\ queue[m] # <<>>
  BY DEF TypeOK, WorkInv, Writes
<1>2. Tail(queue[m]) \in Seq(Writes)
  BY <1>1
<1>3. queue' \in [Managers -> Seq(Writes)] /\ queue'[m] = Tail(queue[m])
  BY <1>2 DEF Done, TypeOK, Writes
<1>4. Awaited(waits[m]) \in Nat
  BY DEF TypeOK, Awaited
<1>5. waits' \in [Managers -> Nat]
  BY <1>4 DEF Done, TypeOK
<1>6. \A i \in DOMAIN Tail(queue[m]) : i + 1 \in DOMAIN queue[m] /\ Tail(queue[m])[i] = queue[m][i + 1]
  BY <1>1
<1> QED BY <1>3, <1>5, <1>6 DEF Done, TypeOK

\* What is stored is as good as what is merged.
LEMMA MergedTyped ==
  ASSUME NEW write \in Writes, NEW old \in Data
  PROVE  Merged(write, old) \in Data
BY DEF Merged, Writes, Data

\* Loading takes the file's content, or keeps what there was.
LEMMA LoadTyped ==
  ASSUME TypeOK, NEW m \in Managers, NEW old \in Data, Load(m) \/ LoadFails(m, old)
  PROVE  /\ mem' \in [Managers -> Data]
         /\ unread' \in [Managers -> BOOLEAN]
         /\ \A n \in Managers \ {m} : mem'[n] = mem[n]
BY DEF Load, LoadFails, TypeOK

(***************************************************************************)
(* The invariant                                                           *)
(***************************************************************************)

LEMMA MergeInit ==
  Init => MergeInv
<1> SUFFICES ASSUME Init PROVE MergeInv
  OBVIOUS
<1>1. Empty \in Data
  BY DEF Empty, Data, Values
<1>2. <<>> \in Seq(Writes)
  OBVIOUS
<1>3. TypeOK
  BY <1>1, <1>2, SettingsAssumption DEF Init, TypeOK, Writes, Values, NoReload
<1> QED BY <1>3 DEF Init, MergeInv, ReadInv, CreateInv, MarkedInv, QueuedInv, WorkInv

LEMMA SetKeeps ==
  ASSUME MergeInv, NEW m \in Managers, NEW f \in Fields, Set(m, f)
  PROVE  MergeInv'
<1> DEFINE values == [mem[m] EXCEPT ![f] = <<m, sets + 1>>]
           write  == Snapshot(Modified(m, f), values)
<1> USE DEF MergeInv
<1>1. TypeOK'
  BY SetTyped
<1>2. ReadInv' /\ CreateInv'
  BY DEF Set, ReadInv, CreateInv
<1>3. values[f][1] = m /\ \A g \in Fields \ {f} : values[g] = mem[m][g]
  BY DEF TypeOK, Data
<1>4. \A g \in Modified(m, f) : values[g][1] = m
  BY <1>3 DEF Modified, MarkedInv, TypeOK
<1>5. mem'[m] = values /\ marked'[m] = Modified(m, f)
  BY DEF Set, TypeOK, Modified
<1>6. \A n \in Managers \ {m} : mem'[n] = mem[n] /\ marked'[n] = marked[n] /\ queue'[n] = queue[n]
  BY DEF Set, TypeOK
<1>7. write.fields = Modified(m, f) /\ write.values = values
  BY DEF Snapshot
<1>8. queue' = queue \/ queue' = [queue EXCEPT ![m] = Append(queue[m], write)]
  BY DEF Set
<1> HIDE DEF values
<1>9. MarkedInv'
  <2>1. \A g \in marked'[m] : mem'[m][g][1] = m
    BY <1>4, <1>5
  <2>2. ASSUME NEW n \in Managers, n # m PROVE \A g \in marked'[n] : mem'[n][g][1] = n
    BY <1>6, <2>2 DEF MarkedInv
  <2> QED BY <2>1, <2>2 DEF MarkedInv
<1> HIDE DEF write
<1>10. queue'[m] = queue[m] \/ queue'[m] = Append(queue[m], write)
  BY <1>8 DEF TypeOK
<1>11. \A i \in DOMAIN queue'[m] : \A g \in queue'[m][i].fields : queue'[m][i].values[g][1] = m
  <2>1. CASE queue'[m] = queue[m]
    BY <2>1 DEF QueuedInv
  <2>2. CASE queue'[m] = Append(queue[m], write)
    <3> SUFFICES ASSUME NEW i \in DOMAIN queue'[m]
                 PROVE  \A g \in queue'[m][i].fields : queue'[m][i].values[g][1] = m
      OBVIOUS
    <3>0. queue[m] \in Seq(Writes)
      BY DEF TypeOK, Writes
    <3>1. \/ i \in DOMAIN queue[m] /\ queue'[m][i] = queue[m][i]
          \/ queue'[m][i] = write
      BY <2>2, <3>0
    <3>2. CASE i \in DOMAIN queue[m] /\ queue'[m][i] = queue[m][i]
      BY <3>2 DEF QueuedInv
    <3>3. CASE queue'[m][i] = write
      BY <3>3, <1>4, <1>7
    <3> QED BY <3>1, <3>2, <3>3
  <2> QED BY <1>10, <2>1, <2>2
<1>12. QueuedInv'
  BY <1>6, <1>11 DEF QueuedInv
<1>13. WorkInv'
  BY <1>6 DEF WorkInv, Set
<1> QED BY <1>1, <1>2, <1>9, <1>12, <1>13

\* The steps that end a write: they leave the queue and the lock to the others.
LEMMA DoneKeeps ==
  ASSUME MergeInv, NEW m \in Managers, at[m] # "idle", Done(m)
  PROVE  QueuedInv' /\ WorkInv'
<1> USE DEF MergeInv
<1>1. /\ at'[m] = "idle"
      /\ \A n \in Managers \ {m} : at'[n] = at[n] /\ queue'[n] = queue[n]
      /\ \A i \in DOMAIN queue'[m] : i + 1 \in DOMAIN queue[m] /\ queue'[m][i] = queue[m][i + 1]
  BY DoneTyped
<1>2. QueuedInv'
  BY <1>1 DEF QueuedInv
<1>3. WorkInv'
  BY <1>1 DEF WorkInv
<1> QED BY <1>2, <1>3

\* A write stores its manager's own values over what is in the file.
LEMMA StoreMerges ==
  ASSUME MergeInv, NEW m \in Managers, Store(m)
  PROVE  \A f \in Fields : data'[f] # data[f] => lock = m /\ data'[f][1] = m
<1> SUFFICES ASSUME NEW f \in Fields, data'[f] # data[f]
             PROVE  lock = m /\ data'[f][1] = m
  OBVIOUS
<1> USE DEF MergeInv
<1>1. lock = m /\ base[m] = data
  BY DEF Store, ReadInv
<1>2. queue[m] \in Seq(Writes) /\ queue[m] # <<>>
  BY DEF Store, TypeOK, WorkInv, Writes
<1>3. Head(queue[m]) = queue[m][1] /\ 1 \in DOMAIN queue[m]
  BY <1>2
<1>4. data' = Merged(queue[m][1], data)
  BY <1>1, <1>3 DEF Store
<1>5. data'[f] = IF f \in queue[m][1].fields THEN queue[m][1].values[f] ELSE data[f]
  BY <1>4 DEF Merged
<1> QED BY <1>1, <1>3, <1>5 DEF QueuedInv

LEMMA StoreKeeps ==
  ASSUME MergeInv, NEW m \in Managers, Store(m)
  PROVE  MergeInv'
<1> DEFINE new == Merged(Head(queue[m]), base[m])
<1> USE DEF MergeInv
<1>1. at[m] # "idle" /\ Done(m)
  BY DEF Store
<1>2. queue[m] \in Seq(Writes) /\ queue[m] # <<>>
  BY <1>1 DEF TypeOK, WorkInv, Writes
<1>3. Head(queue[m]) \in Writes /\ base[m] \in Data
  BY <1>2 DEF TypeOK
<1>4. new \in Data
  BY <1>3, MergedTyped
<1>5. /\ data' \in Data
      /\ written' \subseteq Values
      /\ marked' \in [Managers -> SUBSET Fields]
  BY <1>4 DEF Store, TypeOK, Data
<1>6. /\ at' \in [Managers -> {"idle", "found", "missing", "read"}]
      /\ lock' \in Managers \cup {NoManager}
      /\ queue' \in [Managers -> Seq(Writes)]
      /\ waits' \in [Managers -> Nat]
      /\ at'[m] = "idle"
      /\ \A n \in Managers \ {m} : at'[n] = at[n]
  BY <1>1, DoneTyped
<1>7. TypeOK'
  BY <1>5, <1>6 DEF Store, TypeOK, Writes
<1>8. \A n \in Managers \ {m} : at[n] # "read"
  BY DEF Store, ReadInv
<1>9. \A n \in Managers \ {m} : at[n] # "missing"
  BY DEF Store, CreateInv
<1>10. ReadInv'
  BY <1>6, <1>8 DEF ReadInv
<1>11. CreateInv'
  BY <1>6, <1>9 DEF CreateInv, Store
<1>12. MarkedInv'
  BY DEF MarkedInv, Store, TypeOK
<1> QED BY <1>1, <1>7, <1>10, <1>11, <1>12, DoneKeeps

LEMMA FailKeeps ==
  ASSUME MergeInv, NEW m \in Managers, Fail(m)
  PROVE  MergeInv'
<1> USE DEF MergeInv
<1>1. at[m] # "idle" /\ Done(m)
  BY DEF Fail
<1>2. /\ at' \in [Managers -> {"idle", "found", "missing", "read"}]
      /\ lock' \in Managers \cup {NoManager}
      /\ queue' \in [Managers -> Seq(Writes)]
      /\ waits' \in [Managers -> Nat]
      /\ at'[m] = "idle"
      /\ \A n \in Managers \ {m} : at'[n] = at[n]
      /\ \A n \in Managers \ {m} : lock = n => lock' = n
  BY <1>1, DoneTyped
<1>3. TypeOK'
  BY <1>2 DEF Fail, TypeOK, Writes
<1>4. ReadInv'
  BY <1>2 DEF ReadInv, Fail
<1>5. CreateInv'
  BY <1>2 DEF CreateInv, Fail
<1>6. MarkedInv'
  BY DEF MarkedInv, Fail
<1> QED BY <1>1, <1>3, <1>4, <1>5, <1>6, DoneKeeps

\* A manager looks for the file: who finds none is alone with it.
LEMMA LookKeeps ==
  ASSUME CreatedByOne, weather \in Weathers, MergeInv, NEW m \in Managers, Look(m)
  PROVE  MergeInv'
<1> USE DEF MergeInv
<1>1. exists \/ \A n \in Managers : at[n] = "idle"
  BY DEF Look, CreatedByOne
<1>2. /\ at' \in [Managers -> {"idle", "found", "missing", "read"}]
      /\ at'[m] = IF exists THEN "found" ELSE "missing"
      /\ \A n \in Managers \ {m} : at'[n] = at[n]
  BY DEF Look, TypeOK
<1>3. TypeOK'
  BY <1>2 DEF Look, TypeOK
<1>4. ReadInv'
  BY <1>2 DEF ReadInv, Look
<1>5. CreateInv'
  BY <1>1, <1>2 DEF CreateInv, Look
<1>6. MarkedInv' /\ QueuedInv'
  BY DEF MarkedInv, QueuedInv, Look
<1>7. WorkInv'
  BY <1>2 DEF WorkInv, Look
<1> QED BY <1>3, <1>4, <1>5, <1>6, <1>7

LEMMA AcquireKeeps ==
  ASSUME MergeInv, NEW m \in Managers, Acquire(m) \/ AcquireToCreate(m)
  PROVE  MergeInv'
<1> USE DEF MergeInv
<1>1. base' = [base EXCEPT ![m] = data]
  BY DEF Acquire, AcquireToCreate, CreateInv
<1>2. lock = NoManager /\ lock' = m
  BY DEF Acquire, AcquireToCreate
<1>3. \A n \in Managers : at[n] # "read"
  BY <1>2, SettingsAssumption DEF ReadInv
<1>4. /\ at' \in [Managers -> {"idle", "found", "missing", "read"}]
      /\ at'[m] = "read" /\ at[m] # "idle"
      /\ \A n \in Managers \ {m} : at'[n] = at[n]
  BY DEF Acquire, AcquireToCreate, TypeOK
<1>5. UNCHANGED <<weather, exists, data, mem, marked, unread, queue, waits, sets, written>>
  BY DEF Acquire, AcquireToCreate
<1>6. TypeOK'
  BY <1>1, <1>2, <1>4, <1>5 DEF TypeOK
<1>7. ReadInv'
  BY <1>1, <1>2, <1>3, <1>4, <1>5 DEF ReadInv, TypeOK
<1>8. CreateInv'
  BY <1>4, <1>5 DEF CreateInv
<1>9. MarkedInv' /\ QueuedInv'
  BY <1>5 DEF MarkedInv, QueuedInv
<1>10. WorkInv'
  BY <1>4, <1>5 DEF WorkInv
<1> QED BY <1>6, <1>7, <1>8, <1>9, <1>10

\* A manager that loads forgets what it had marked.
LEMMA LoadKeeps ==
  ASSUME MergeInv, NEW m \in Managers, Start(m) \/ Reload(m)
  PROVE  MergeInv'
<1> USE DEF MergeInv
<1>1. Empty \in Data /\ mem[m] \in Data
  BY DEF Empty, Data, Values, TypeOK
<1>2. /\ mem' \in [Managers -> Data]
      /\ unread' \in [Managers -> BOOLEAN]
      /\ \A n \in Managers \ {m} : mem'[n] = mem[n]
  BY <1>1, LoadTyped DEF Start, Reload
<1>3. /\ at[m] = "idle"
      /\ marked' = [marked EXCEPT ![m] = {}]
      /\ waits' = [waits EXCEPT ![m] = NoReload]
      /\ queue' = [queue EXCEPT ![m] = <<>>] \/ queue' = queue
      /\ UNCHANGED <<weather, exists, data, lock, at, base, sets, written>>
  BY DEF Start, Reload
<1>4. queue' \in [Managers -> Seq(Writes)]
  <2>1. queue \in [Managers -> Seq(Writes)]
    BY DEF TypeOK, Writes
  <2>2. <<>> \in Seq(Writes)
    OBVIOUS
  <2>3. [queue EXCEPT ![m] = <<>>] \in [Managers -> Seq(Writes)]
    BY <2>1, <2>2
  <2> QED BY <1>3, <2>1, <2>3
<1>5. TypeOK'
  BY <1>2, <1>3, <1>4 DEF TypeOK, Writes, NoReload
<1>6. ReadInv' /\ CreateInv'
  BY <1>3 DEF ReadInv, CreateInv
<1>7. MarkedInv'
  BY <1>2, <1>3 DEF MarkedInv, TypeOK
<1>8. \A n \in Managers : queue'[n] = queue[n] \/ (n = m /\ queue'[n] = <<>>)
  <2>1. CASE queue' = queue
    BY <2>1
  <2>2. CASE queue' = [queue EXCEPT ![m] = <<>>]
    BY <2>2 DEF TypeOK
  <2> QED BY <1>3, <2>1, <2>2
<1>9. QueuedInv'
  BY <1>8 DEF QueuedInv
<1>10. WorkInv'
  BY <1>3, <1>8 DEF WorkInv
<1> QED BY <1>5, <1>6, <1>7, <1>9, <1>10

LEMMA BeginReloadKeeps ==
  ASSUME MergeInv, NEW m \in Managers, BeginReload(m)
  PROVE  MergeInv'
<1> USE DEF MergeInv
<1>1. 1 + Len(queue[m]) \in Nat
  BY DEF TypeOK
<1>2. waits' \in [Managers -> Nat]
  BY <1>1 DEF BeginReload, TypeOK
<1>3. TypeOK'
  BY <1>2 DEF BeginReload, TypeOK
<1>4. ReadInv' /\ CreateInv' /\ MarkedInv'
  BY DEF BeginReload, ReadInv, CreateInv, MarkedInv
<1>5. QueuedInv' /\ WorkInv'
  BY DEF BeginReload, QueuedInv, WorkInv
<1> QED BY <1>3, <1>4, <1>5

LEMMA MergeNext ==
  ASSUME CreatedByOne, MergeInv, [Next]_vars
  PROVE  MergeInv'
<1> USE DEF MergeInv
<1>1. CASE \E m \in Managers, f \in Fields : Set(m, f)
  BY <1>1, SetKeeps
<1>2. ASSUME NEW m \in Managers,
             \/ Look(m) \/ Acquire(m) \/ AcquireToCreate(m) \/ Store(m) \/ Fail(m)
             \/ Start(m) \/ BeginReload(m) \/ Reload(m)
      PROVE  MergeInv'
  <2>1. CASE Look(m)
    BY <2>1, LookKeeps DEF TypeOK
  <2>2. CASE Acquire(m) \/ AcquireToCreate(m)
    BY <2>2, AcquireKeeps
  <2>3. CASE Store(m)
    BY <2>3, StoreKeeps
  <2>4. CASE Fail(m)
    BY <2>4, FailKeeps
  <2>5. CASE Start(m) \/ Reload(m)
    BY <2>5, LoadKeeps
  <2>6. CASE BeginReload(m)
    BY <2>6, BeginReloadKeeps
  <2> QED BY <1>2, <2>1, <2>2, <2>3, <2>4, <2>5, <2>6
<1>3. CASE UNCHANGED vars
  <2>1. TypeOK' /\ ReadInv' /\ CreateInv'
    BY <1>3 DEF vars, TypeOK, ReadInv, CreateInv
  <2>2. MarkedInv' /\ QueuedInv' /\ WorkInv'
    BY <1>3 DEF vars, MarkedInv, QueuedInv, WorkInv
  <2> QED BY <2>1, <2>2
<1> QED BY <1>1, <1>2, <1>3 DEF Next

\* A write that meets its manager's own values changes nothing else; no other step
\* touches the file.
LEMMA StepMerges ==
  ASSUME MergeInv, [Next]_vars
  PROVE  [\A f \in Fields : data'[f] # data[f] => \E m \in Managers : lock = m /\ data'[f][1] = m]_vars
<1>1. ASSUME NEW m \in Managers, Store(m)
      PROVE  \A f \in Fields : data'[f] # data[f] => \E n \in Managers : lock = n /\ data'[f][1] = n
  BY <1>1, StoreMerges
<1>2. CASE data' = data
  BY <1>2
<1>3. data' = data \/ \E m \in Managers : Store(m)
  BY DEF Next, vars, Set, Look, Acquire, AcquireToCreate, Fail, Start, BeginReload, Reload
<1> QED BY <1>1, <1>2, <1>3

(***************************************************************************)
(* That no change is forgotten.  ChangesAreKept is not inductive: what the *)
(* file holds has been written, a reload waits for exactly the writes in   *)
(* the queue, nothing is queued over a file that could not be read, the    *)
(* last write takes all that is marked, and where writes fail each takes   *)
(* only what is still marked.                                              *)
(***************************************************************************)

\* Nobody calls a setter while a reload waits, and setters do not come in bursts where
\* writes fail.
ChangesRespected == \A w \in Weathers :
  "setWhileReloading" \notin w /\ ~("burst" \in w /\ "writeFails" \in w)

DataInv == \A f \in Fields : data[f] \in written

ReloadInv(m) == waits[m] # NoReload => waits[m] = 1 + Len(queue[m])

UnreadInv(m) == unread[m] => queue[m] = <<>>

LastInv(m) == queue[m] # <<>> => marked[m] \subseteq queue[m][Len(queue[m])].fields

FailInv(m) == "writeFails" \in weather =>
  \A i \in DOMAIN queue[m] : i = 1 /\ queue[m][i].fields \subseteq marked[m]

ShownInv(m) == \A f \in Fields :
  unread[m] \/ mem[m][f] \in written \/ f \in marked[m] \/ Queued(m, f)

LatestInv(m) == \A f \in Fields : \A i \in DOMAIN queue[m] :
  f \in queue[m][i].fields /\ (\A j \in DOMAIN queue[m] : j > i => f \notin queue[m][j].fields)
    => queue[m][i].values[f] = mem[m][f]

ManagerInv(m) == /\ ReloadInv(m) /\ UnreadInv(m) /\ LastInv(m) /\ FailInv(m)
                 /\ ShownInv(m) /\ LatestInv(m)

KeepInv == TypeOK /\ WorkInv /\ DataInv /\ \A m \in Managers : ManagerInv(m)

(***************************************************************************)
(* Shapes                                                                  *)
(***************************************************************************)

LEMMA ShapeNext ==
  ASSUME TypeOK, WorkInv, [Next]_vars
  PROVE  TypeOK' /\ WorkInv'
<1>0. queue \in [Managers -> Seq(Writes)]
  BY DEF TypeOK, Writes
<1>1. ASSUME NEW m \in Managers, NEW f \in Fields, Set(m, f)
      PROVE  TypeOK' /\ WorkInv'
  <2>1. TypeOK'
    BY <1>1, SetTyped
  <2>2. /\ \A n \in Managers \ {m} : queue'[n] = queue[n]
        /\ at[m] = "idle" /\ at' = at
    BY <1>1 DEF Set, TypeOK
  <2>3. WorkInv'
    BY <2>2 DEF WorkInv
  <2> QED BY <2>1, <2>3
<1>2. ASSUME NEW m \in Managers, Look(m) \/ Acquire(m) \/ AcquireToCreate(m)
      PROVE  TypeOK' /\ WorkInv'
  <2>1. Empty \in Data
    BY DEF Empty, Data, Values
  <2>2. /\ queue' = queue /\ queue[m] # <<>>
        /\ \A n \in Managers \ {m} : at'[n] = at[n]
    BY <1>2 DEF Look, Acquire, AcquireToCreate, WorkInv, TypeOK
  <2>3. WorkInv'
    BY <2>2 DEF WorkInv
  <2>4. CASE Look(m)
    BY <2>3, <2>4 DEF Look, TypeOK
  <2>5. CASE Acquire(m)
    <3>1. data \in Data
      BY DEF TypeOK
    <3> QED BY <2>3, <2>5, <3>1 DEF Acquire, TypeOK
  <2>6. CASE AcquireToCreate(m)
    BY <2>1, <2>3, <2>6 DEF AcquireToCreate, TypeOK
  <2> QED BY <1>2, <2>4, <2>5, <2>6
<1>3. ASSUME NEW m \in Managers, Store(m) \/ Fail(m)
      PROVE  TypeOK' /\ WorkInv'
  <2>1. at[m] # "idle" /\ Done(m)
    BY <1>3 DEF Store, Fail
  <2>2. /\ at' \in [Managers -> {"idle", "found", "missing", "read"}]
        /\ lock' \in Managers \cup {NoManager}
        /\ queue' \in [Managers -> Seq(Writes)]
        /\ waits' \in [Managers -> Nat]
        /\ at'[m] = "idle"
        /\ \A n \in Managers \ {m} : at'[n] = at[n] /\ queue'[n] = queue[n]
    BY <2>1, DoneTyped
  <2>3. WorkInv'
    BY <2>2 DEF WorkInv
  <2>4. CASE Store(m)
    <3>1. queue[m] \in Seq(Writes) /\ queue[m] # <<>>
      BY <1>0, <2>1 DEF WorkInv
    <3>2. Head(queue[m]) \in Writes /\ base[m] \in Data
      BY <3>1 DEF TypeOK
    <3>3. Merged(Head(queue[m]), base[m]) \in Data
      BY <3>2, MergedTyped
    <3>4. data' \in Data /\ written' \subseteq Values /\ marked' \in [Managers -> SUBSET Fields]
      BY <2>4, <3>3 DEF Store, TypeOK, Data
    <3> QED BY <2>2, <2>3, <2>4, <3>4 DEF Store, TypeOK, Writes
  <2>5. CASE Fail(m)
    BY <2>2, <2>3, <2>5 DEF Fail, TypeOK, Writes
  <2> QED BY <1>3, <2>4, <2>5
<1>4. ASSUME NEW m \in Managers, Start(m) \/ Reload(m)
      PROVE  TypeOK' /\ WorkInv'
  <2>1. Empty \in Data /\ mem[m] \in Data
    BY DEF Empty, Data, Values, TypeOK
  <2>2. mem' \in [Managers -> Data] /\ unread' \in [Managers -> BOOLEAN]
    BY <1>4, <2>1, LoadTyped DEF Start, Reload
  <2>3. /\ at[m] = "idle"
        /\ marked' = [marked EXCEPT ![m] = {}]
        /\ waits' = [waits EXCEPT ![m] = NoReload]
        /\ queue' = [queue EXCEPT ![m] = <<>>] \/ queue' = queue
        /\ UNCHANGED <<weather, exists, data, lock, at, base, sets, written>>
    BY <1>4 DEF Start, Reload
  <2>4. <<>> \in Seq(Writes)
    OBVIOUS
  <2>5. /\ queue' \in [Managers -> Seq(Writes)]
        /\ \A n \in Managers \ {m} : queue'[n] = queue[n]
    BY <1>0, <2>3, <2>4
  <2>6. TypeOK'
    BY <2>2, <2>3, <2>5 DEF TypeOK, Writes, NoReload
  <2>7. WorkInv'
    BY <2>3, <2>5 DEF WorkInv
  <2> QED BY <2>6, <2>7
<1>5. ASSUME NEW m \in Managers, BeginReload(m)
      PROVE  TypeOK' /\ WorkInv'
  <2>1. 1 + Len(queue[m]) \in Nat
    BY <1>0
  <2>2. waits' \in [Managers -> Nat]
    BY <1>5, <2>1 DEF BeginReload, TypeOK
  <2> QED BY <1>5, <2>2 DEF BeginReload, TypeOK, WorkInv
<1>6. CASE UNCHANGED vars
  BY <1>6 DEF vars, TypeOK, WorkInv
<1> QED BY <1>1, <1>2, <1>3, <1>4, <1>5, <1>6 DEF Next

LEMMA ShapeInit ==
  Init => TypeOK /\ WorkInv
BY MergeInit DEF MergeInv

(***************************************************************************)
(* The changes of one manager                                              *)
(***************************************************************************)

\* Others do not disturb a manager; what was written stays written.
LEMMA OthersAside ==
  ASSUME NEW n \in Managers, ManagerInv(n),
         mem'[n] = mem[n], marked'[n] = marked[n], unread'[n] = unread[n],
         queue'[n] = queue[n], waits'[n] = waits[n],
         weather' = weather, written \subseteq written'
  PROVE  ManagerInv(n)'
<1> USE DEF ManagerInv
<1>1. ReloadInv(n)' /\ UnreadInv(n)' /\ LastInv(n)' /\ FailInv(n)'
  BY DEF ReloadInv, UnreadInv, LastInv, FailInv
<1>2. ShownInv(n)'
  BY DEF ShownInv, Queued
<1>3. LatestInv(n)'
  BY DEF LatestInv
<1> QED BY <1>1, <1>2, <1>3

LEMMA SetIsKept ==
  ASSUME ChangesRespected, KeepInv, NEW m \in Managers, NEW f \in Fields, Set(m, f)
  PROVE  ManagerInv(m)'
<1> DEFINE values == [mem[m] EXCEPT ![f] = <<m, sets + 1>>]
           write  == Snapshot(Modified(m, f), values)
           last   == Len(queue[m]) + 1
<1>0. /\ ReloadInv(m) /\ UnreadInv(m) /\ LastInv(m) /\ FailInv(m) /\ ShownInv(m) /\ LatestInv(m)
      /\ TypeOK /\ weather \in Weathers
  BY DEF KeepInv, ManagerInv, TypeOK
<1>1. /\ waits[m] = NoReload
      /\ queue[m] = <<>> \/ "writeFails" \notin weather
  BY <1>0 DEF Set, ChangesRespected
<1>2. queue[m] \in Seq(Writes) /\ mem[m] \in Data
  BY <1>0 DEF TypeOK, Writes
<1>3. /\ mem'[m] = values /\ marked'[m] = Modified(m, f)
      /\ UNCHANGED <<weather, unread, waits, written>>
  BY <1>0 DEF Set, TypeOK, Modified
<1>4. /\ \A g \in Fields \ {f} : values[g] = mem[m][g]
      /\ f \in Modified(m, f) /\ marked[m] \subseteq Modified(m, f)
      /\ \A g \in Modified(m, f) : g = f \/ g \in marked[m]
  BY <1>2 DEF Data, Modified
<1>5. write.fields = Modified(m, f) /\ write.values = values
  BY DEF Snapshot
<1>6. IF unread[m] THEN queue'[m] = queue[m] ELSE queue'[m] = Append(queue[m], write)
  BY <1>0 DEF Set, TypeOK
<1> HIDE DEF values, write
<1>7. CASE unread[m]
  <2>1. queue'[m] = <<>>
    BY <1>0, <1>6, <1>7 DEF UnreadInv
  <2>2. ReloadInv(m)' /\ UnreadInv(m)' /\ LastInv(m)' /\ FailInv(m)'
    BY <1>1, <1>3, <2>1 DEF ReloadInv, UnreadInv, LastInv, FailInv
  <2>3. ShownInv(m)' /\ LatestInv(m)'
    BY <1>3, <1>7, <2>1 DEF ShownInv, LatestInv
  <2> QED BY <2>2, <2>3 DEF ManagerInv
<1>8. CASE ~unread[m]
  <2>1. /\ Len(queue'[m]) = last /\ DOMAIN queue'[m] = DOMAIN queue[m] \cup {last}
        /\ queue'[m][last] = write /\ queue'[m] # <<>> /\ last \in Nat
        /\ \A i \in DOMAIN queue[m] : queue'[m][i] = queue[m][i] /\ i \in Nat /\ i < last
    BY <1>2, <1>6, <1>8
  <2>2. queue[m] = <<>> => last = 1 /\ DOMAIN queue[m] = {}
    OBVIOUS
  <2> HIDE DEF last
  <2>3. ReloadInv(m)' /\ UnreadInv(m)'
    BY <1>1, <1>3, <1>8 DEF ReloadInv, UnreadInv
  <2>4. LastInv(m)'
    BY <1>3, <1>5, <2>1 DEF LastInv
  <2>5. FailInv(m)'
    BY <1>1, <1>3, <1>5, <2>1, <2>2 DEF FailInv
  <2>6. ShownInv(m)'
    <3> SUFFICES ASSUME NEW g \in Fields
                 PROVE  unread'[m] \/ mem'[m][g] \in written' \/ g \in marked'[m] \/ Queued(m, g)'
      BY DEF ShownInv
    <3>1. CASE g = f
      BY <1>3, <1>4, <3>1
    <3>2. CASE g # f
      <4>1. mem[m][g] \in written \/ g \in marked[m] \/ Queued(m, g)
        BY <1>0, <1>8 DEF ShownInv
      <4>2. Queued(m, g) => Queued(m, g)'
        BY <2>1 DEF Queued
      <4> QED BY <1>3, <1>4, <3>2, <4>1, <4>2
    <3> QED BY <3>1, <3>2
  <2>7. LatestInv(m)'
    <3> SUFFICES ASSUME NEW g \in Fields, NEW i \in DOMAIN queue'[m], g \in queue'[m][i].fields,
                        \A j \in DOMAIN queue'[m] : j > i => g \notin queue'[m][j].fields
                 PROVE  queue'[m][i].values[g] = mem'[m][g]
      BY DEF LatestInv
    <3>1. CASE i = last
      BY <1>3, <1>5, <2>1, <3>1
    <3>2. CASE i \in DOMAIN queue[m]
      <4>1. last > i /\ last \in DOMAIN queue'[m]
        BY <2>1, <3>2
      <4>2. g \notin Modified(m, f)
        BY <1>5, <2>1, <4>1
      <4>3. mem'[m][g] = mem[m][g]
        BY <1>3, <1>4, <4>2
      <4>4. queue[m][i].values[g] = mem[m][g]
        BY <1>0, <2>1, <3>2 DEF LatestInv
      <4> QED BY <2>1, <3>2, <4>3, <4>4
    <3> QED BY <2>1, <3>1, <3>2
  <2> QED BY <2>3, <2>4, <2>5, <2>6, <2>7 DEF ManagerInv
<1> QED BY <1>7, <1>8

\* The first write leaves the queue; what is awaited and what is last go on as before.
LEMMA QueueMovesOn ==
  ASSUME TypeOK, WorkInv, NEW m \in Managers, at[m] # "idle", Done(m)
  PROVE  /\ queue[m] \in Seq(Writes) /\ Len(queue[m]) \in Nat /\ 1 \in DOMAIN queue[m]
         /\ Head(queue[m]) = queue[m][1]
         /\ queue'[m] \in Seq(Writes) /\ Len(queue'[m]) = Len(queue[m]) - 1
         /\ DOMAIN queue[m] = 1..Len(queue[m]) /\ DOMAIN queue'[m] = 1..Len(queue'[m])
         /\ \A i \in DOMAIN queue'[m] : i + 1 \in DOMAIN queue[m] /\ queue'[m][i] = queue[m][i + 1]
         /\ \A i \in DOMAIN queue[m] : i = 1 \/ (i - 1 \in DOMAIN queue'[m] /\ queue'[m][i - 1] = queue[m][i])
         /\ queue'[m] # <<>> => queue'[m][Len(queue'[m])] = queue[m][Len(queue[m])]
         /\ ReloadInv(m) => ReloadInv(m)'
<1>1. queue[m] \in Seq(Writes) /\ queue[m] # <<>> /\ queue'[m] = Tail(queue[m])
  BY DEF TypeOK, WorkInv, Writes, Done
<1>2. /\ Len(queue[m]) \in Nat /\ Len(queue[m]) >= 1 /\ DOMAIN queue[m] = 1..Len(queue[m])
      /\ Head(queue[m]) = queue[m][1]
  BY <1>1
<1>3. /\ queue'[m] \in Seq(Writes) /\ Len(queue'[m]) = Len(queue[m]) - 1
      /\ DOMAIN queue'[m] = 1..Len(queue'[m])
      /\ \A i \in 1..(Len(queue[m]) - 1) : queue'[m][i] = queue[m][i + 1]
  BY <1>1, <1>2
<1>4. \A i \in DOMAIN queue'[m] : i + 1 \in DOMAIN queue[m] /\ queue'[m][i] = queue[m][i + 1]
  BY <1>2, <1>3
<1>5. \A i \in DOMAIN queue[m] : i = 1 \/ (i - 1 \in DOMAIN queue'[m] /\ queue'[m][i - 1] = queue[m][i])
  <2> TAKE i \in DOMAIN queue[m]
  <2>1. CASE i # 1
    <3>1. i - 1 \in 1..(Len(queue[m]) - 1) /\ (i - 1) + 1 = i
      BY <1>2, <2>1
    <3> QED BY <1>3, <3>1
  <2> QED BY <2>1
<1>6. queue'[m] # <<>> => queue'[m][Len(queue'[m])] = queue[m][Len(queue[m])]
  <2> HAVE queue'[m] # <<>>
  <2>1. Len(queue'[m]) # 0
    BY <1>3
  <2>2. Len(queue'[m]) \in 1..(Len(queue[m]) - 1) /\ Len(queue'[m]) + 1 = Len(queue[m])
    BY <1>2, <1>3, <2>1
  <2> QED BY <1>3, <2>2
<1>7. ReloadInv(m) => ReloadInv(m)'
  <2>1. waits[m] \in Nat /\ waits'[m] = Awaited(waits[m])
    BY DEF Done, TypeOK
  <2>2. CASE waits[m] = NoReload
    BY <2>1, <2>2 DEF ReloadInv, Awaited, NoReload
  <2>3. CASE waits[m] = 1 + Len(queue[m])
    BY <1>2, <1>3, <2>1, <2>3 DEF ReloadInv, Awaited
  <2> QED BY <2>2, <2>3 DEF ReloadInv
<1> QED BY <1>1, <1>2, <1>3, <1>4, <1>5, <1>6, <1>7

LEMMA WriteIsKept ==
  ASSUME KeepInv, NEW m \in Managers, Store(m) \/ Fail(m)
  PROVE  ManagerInv(m)'
<1>0. /\ ReloadInv(m) /\ UnreadInv(m) /\ LastInv(m) /\ FailInv(m) /\ ShownInv(m) /\ LatestInv(m)
      /\ TypeOK /\ WorkInv
  BY DEF KeepInv, ManagerInv
<1>1. at[m] # "idle" /\ Done(m)
  BY DEF Store, Fail
<1>2. /\ Len(queue[m]) \in Nat /\ 1 \in DOMAIN queue[m] /\ Head(queue[m]) = queue[m][1]
      /\ Len(queue'[m]) = Len(queue[m]) - 1
      /\ DOMAIN queue[m] = 1..Len(queue[m]) /\ DOMAIN queue'[m] = 1..Len(queue'[m])
      /\ \A i \in DOMAIN queue'[m] : i + 1 \in DOMAIN queue[m] /\ queue'[m][i] = queue[m][i + 1]
      /\ \A i \in DOMAIN queue[m] : i = 1 \/ (i - 1 \in DOMAIN queue'[m] /\ queue'[m][i - 1] = queue[m][i])
  BY <1>0, <1>1, QueueMovesOn
<1>3. /\ queue'[m] # <<>> => queue'[m][Len(queue'[m])] = queue[m][Len(queue[m])]
      /\ ReloadInv(m)'
  BY <1>0, <1>1, QueueMovesOn
<1>4. ~unread[m] /\ UNCHANGED <<weather, mem, unread>> /\ queue[m] # <<>>
  BY <1>0, <1>1 DEF Store, Fail, UnreadInv, WorkInv
<1>5. UnreadInv(m)'
  BY <1>4 DEF UnreadInv
<1>6. LatestInv(m)'
  <2> SUFFICES ASSUME NEW g \in Fields, NEW i \in DOMAIN queue'[m], g \in queue'[m][i].fields,
                      \A j \in DOMAIN queue'[m] : j > i => g \notin queue'[m][j].fields
               PROVE  queue'[m][i].values[g] = mem'[m][g]
    BY DEF LatestInv
  <2>1. i + 1 \in DOMAIN queue[m] /\ queue'[m][i] = queue[m][i + 1] /\ i \in Nat
    BY <1>2
  <2>2. ASSUME NEW j \in DOMAIN queue[m], j > i + 1
        PROVE  g \notin queue[m][j].fields
    <3>1. j # 1 /\ j - 1 > i
      BY <1>2, <2>1, <2>2
    <3> QED BY <1>2, <3>1
  <2>3. queue[m][i + 1].values[g] = mem[m][g]
    BY <1>0, <2>1, <2>2 DEF LatestInv
  <2> QED BY <1>4, <2>1, <2>3
<1>7. \A g \in Fields : Queued(m, g) =>
        Queued(m, g)' \/ (g \in queue[m][1].fields /\ queue[m][1].values[g] = mem[m][g])
  <2> SUFFICES ASSUME NEW g \in Fields, Queued(m, g), ~Queued(m, g)'
               PROVE  g \in queue[m][1].fields /\ queue[m][1].values[g] = mem[m][g]
    OBVIOUS
  <2>1. \A i \in DOMAIN queue[m] : i = 1 \/ g \notin queue[m][i].fields
    BY <1>2 DEF Queued
  <2>2. g \in queue[m][1].fields
    BY <2>1 DEF Queued
  <2>3. \A j \in DOMAIN queue[m] : j > 1 => g \notin queue[m][j].fields
    BY <2>1
  <2> QED BY <1>0, <1>2, <2>2, <2>3 DEF LatestInv
<1>8. CASE Store(m)
  <2>1. /\ marked'[m] = {} /\ written \subseteq written'
        /\ \A g \in Fields : g \in queue[m][1].fields => queue[m][1].values[g] \in written'
    <3>1. \A g \in Fields : Merged(Head(queue[m]), base[m])[g] \in written'
      BY <1>8 DEF Store
    <3>2. \A g \in Fields : g \in queue[m][1].fields =>
            Merged(Head(queue[m]), base[m])[g] = queue[m][1].values[g]
      BY <1>2 DEF Merged
    <3> QED BY <1>0, <1>8, <3>1, <3>2 DEF Store, TypeOK
  <2>2. LastInv(m)'
    BY <2>1 DEF LastInv
  <2>3. \A g \in marked[m] : Queued(m, g)
    BY <1>0, <1>2, <1>4 DEF LastInv, Queued
  <2>4. ShownInv(m)'
    <3> SUFFICES ASSUME NEW g \in Fields
                 PROVE  mem'[m][g] \in written' \/ Queued(m, g)'
      BY DEF ShownInv
    <3>1. mem[m][g] \in written \/ Queued(m, g)
      BY <1>0, <1>4, <2>3 DEF ShownInv
    <3> QED BY <1>4, <1>7, <2>1, <3>1
  <2>5. FailInv(m)'
    <3> SUFFICES ASSUME "writeFails" \in weather, NEW i \in DOMAIN queue'[m] PROVE FALSE
      BY <1>4 DEF FailInv
    <3>1. i + 1 \in DOMAIN queue[m] /\ i \in Nat /\ i >= 1
      BY <1>2
    <3>2. i + 1 = 1
      BY <1>0, <3>1 DEF FailInv
    <3> QED BY <3>1, <3>2
  <2> QED BY <1>3, <1>5, <1>6, <2>2, <2>4, <2>5 DEF ManagerInv
<1>9. CASE Fail(m)
  <2>1. "writeFails" \in weather /\ UNCHANGED <<marked, written>>
    BY <1>9 DEF Fail
  <2>2. \A i \in DOMAIN queue[m] : i = 1 /\ queue[m][i].fields \subseteq marked[m]
    BY <1>0, <2>1 DEF FailInv
  <2>3. LastInv(m)'
    BY <1>0, <1>3, <1>4, <2>1 DEF LastInv
  <2>4. ShownInv(m)'
    BY <1>0, <1>4, <2>1, <2>2 DEF ShownInv, Queued
  <2>5. FailInv(m)'
    <3> SUFFICES ASSUME NEW i \in DOMAIN queue'[m] PROVE FALSE
      BY DEF FailInv
    <3>1. i + 1 \in DOMAIN queue[m] /\ i \in Nat /\ i >= 1
      BY <1>2
    <3> QED BY <2>2, <3>1
  <2> QED BY <1>3, <1>5, <1>6, <2>3, <2>4, <2>5 DEF ManagerInv
<1> QED BY <1>8, <1>9

\* A load takes what is in the file, when nothing is on its way to it.
LEMMA LoadIsKept ==
  ASSUME KeepInv, NEW m \in Managers, Start(m) \/ Reload(m)
  PROVE  ManagerInv(m)'
<1>0. ReloadInv(m) /\ TypeOK /\ DataInv
  BY DEF KeepInv, ManagerInv
<1>1. queue[m] \in Seq(Writes)
  BY <1>0 DEF TypeOK, Writes
<1>2. queue'[m] = <<>>
  <2>1. CASE Start(m)
    BY <1>0, <2>1 DEF Start, TypeOK
  <2>2. CASE Reload(m)
    <3>1. 1 = 1 + Len(queue[m]) /\ queue' = queue
      BY <1>0, <2>2 DEF Reload, ReloadInv, NoReload
    <3>2. Len(queue[m]) = 0
      BY <1>1, <3>1
    <3> QED BY <1>1, <3>1, <3>2
  <2> QED BY <2>1, <2>2
<1>3. waits'[m] = NoReload /\ marked'[m] = {} /\ written' = written
  BY <1>0 DEF Start, Reload, TypeOK
<1>4. mem'[m] = data \/ unread'[m]
  BY <1>0 DEF Start, Reload, Load, LoadFails, TypeOK
<1>5. ReloadInv(m)' /\ UnreadInv(m)' /\ LastInv(m)' /\ FailInv(m)'
  BY <1>2, <1>3 DEF ReloadInv, UnreadInv, LastInv, FailInv
<1>6. ShownInv(m)'
  BY <1>0, <1>3, <1>4 DEF ShownInv, DataInv
<1>7. LatestInv(m)'
  BY <1>2 DEF LatestInv
<1> QED BY <1>5, <1>6, <1>7 DEF ManagerInv

LEMMA KeepNext ==
  ASSUME ChangesRespected, KeepInv, [Next]_vars
  PROVE  KeepInv'
<1>0. TypeOK /\ WorkInv /\ DataInv /\ \A m \in Managers : ManagerInv(m)
  BY DEF KeepInv
<1>1. TypeOK' /\ WorkInv'
  BY <1>0, ShapeNext
\* Who does nothing but wait for the file or for its queue.
<1>2. ASSUME UNCHANGED <<weather, data, mem, marked, unread, queue, written>>,
             \A n \in Managers : waits'[n] = waits[n] \/ waits'[n] = 1 + Len(queue[n])
      PROVE  DataInv' /\ \A n \in Managers : ManagerInv(n)'
  <2>1. DataInv'
    BY <1>0, <1>2 DEF DataInv
  <2>2. ASSUME NEW n \in Managers
        PROVE  ManagerInv(n)'
    <3>1. ReloadInv(n)'
      BY <1>0, <1>2 DEF ManagerInv, ReloadInv
    <3>2. UnreadInv(n)' /\ LastInv(n)' /\ FailInv(n)' /\ LatestInv(n)'
      BY <1>0, <1>2 DEF ManagerInv, UnreadInv, LastInv, FailInv, LatestInv
    <3>3. ShownInv(n)'
      BY <1>0, <1>2 DEF ManagerInv, ShownInv, Queued
    <3> QED BY <3>1, <3>2, <3>3 DEF ManagerInv
  <2> QED BY <2>1, <2>2
<1>3. ASSUME NEW m \in Managers, ManagerInv(m)',
             \A n \in Managers \ {m} :
               /\ mem'[n] = mem[n] /\ marked'[n] = marked[n] /\ unread'[n] = unread[n]
               /\ queue'[n] = queue[n] /\ waits'[n] = waits[n],
             weather' = weather, written \subseteq written'
      PROVE  \A n \in Managers : ManagerInv(n)'
  <2>1. ASSUME NEW n \in Managers, n # m
        PROVE  ManagerInv(n)'
    BY <1>0, <1>3, <2>1, OthersAside
  <2> QED BY <1>3, <2>1
<1>4. ASSUME NEW m \in Managers, NEW f \in Fields, Set(m, f)
      PROVE  DataInv' /\ \A n \in Managers : ManagerInv(n)'
  <2>1. ManagerInv(m)'
    BY <1>4, SetIsKept
  <2>2. /\ \A n \in Managers \ {m} :
             /\ mem'[n] = mem[n] /\ marked'[n] = marked[n] /\ unread'[n] = unread[n]
             /\ queue'[n] = queue[n] /\ waits'[n] = waits[n]
        /\ UNCHANGED <<weather, data, written>>
    BY <1>0, <1>4 DEF Set, TypeOK
  <2>3. DataInv'
    BY <1>0, <2>2 DEF DataInv
  <2> QED BY <1>3, <2>1, <2>2, <2>3
<1>5. ASSUME NEW m \in Managers, Store(m) \/ Fail(m)
      PROVE  DataInv' /\ \A n \in Managers : ManagerInv(n)'
  <2>1. ManagerInv(m)'
    BY <1>5, WriteIsKept
  <2>2. /\ \A n \in Managers \ {m} :
             /\ mem'[n] = mem[n] /\ marked'[n] = marked[n] /\ unread'[n] = unread[n]
             /\ queue'[n] = queue[n] /\ waits'[n] = waits[n]
        /\ UNCHANGED weather /\ written \subseteq written'
    BY <1>0, <1>5 DEF Store, Fail, Done, TypeOK
  <2>3. DataInv'
    <3>1. CASE Store(m)
      BY <3>1 DEF Store, DataInv
    <3>2. CASE Fail(m)
      BY <1>0, <3>2 DEF Fail, DataInv
    <3> QED BY <1>5, <3>1, <3>2
  <2> QED BY <1>3, <2>1, <2>2, <2>3
<1>6. ASSUME NEW m \in Managers, Start(m) \/ Reload(m)
      PROVE  DataInv' /\ \A n \in Managers : ManagerInv(n)'
  <2>1. ManagerInv(m)'
    BY <1>6, LoadIsKept
  <2>2. /\ \A n \in Managers \ {m} :
             /\ mem'[n] = mem[n] /\ marked'[n] = marked[n] /\ unread'[n] = unread[n]
             /\ queue'[n] = queue[n] /\ waits'[n] = waits[n]
        /\ UNCHANGED <<weather, data, written>>
    BY <1>0, <1>6 DEF Start, Reload, Load, LoadFails, TypeOK
  <2>3. DataInv'
    BY <1>0, <2>2 DEF DataInv
  <2> QED BY <1>3, <2>1, <2>2, <2>3
<1>7. ASSUME NEW m \in Managers, Look(m) \/ Acquire(m) \/ AcquireToCreate(m) \/ BeginReload(m)
      PROVE  DataInv' /\ \A n \in Managers : ManagerInv(n)'
  <2>1. /\ UNCHANGED <<weather, data, mem, marked, unread, queue, written>>
        /\ \A n \in Managers : waits'[n] = waits[n] \/ waits'[n] = 1 + Len(queue[n])
    BY <1>0, <1>7 DEF Look, Acquire, AcquireToCreate, BeginReload, TypeOK
  <2> QED BY <1>2, <2>1
<1>8. ASSUME UNCHANGED vars
      PROVE  DataInv' /\ \A n \in Managers : ManagerInv(n)'
  <2>1. /\ UNCHANGED <<weather, data, mem, marked, unread, queue, written>>
        /\ \A n \in Managers : waits'[n] = waits[n]
    BY <1>8 DEF vars
  <2> QED BY <1>2, <2>1
<1>9. DataInv' /\ \A n \in Managers : ManagerInv(n)'
  <2>1. CASE \E m \in Managers, f \in Fields : Set(m, f)
    BY <1>4, <2>1
  <2>2. CASE \E m \in Managers :
               \/ Look(m) \/ Acquire(m) \/ AcquireToCreate(m) \/ Store(m) \/ Fail(m)
               \/ Start(m) \/ BeginReload(m) \/ Reload(m)
    BY <1>5, <1>6, <1>7, <2>2
  <2> QED BY <1>8, <2>1, <2>2 DEF Next
<1> QED BY <1>1, <1>9 DEF KeepInv

LEMMA KeepInit ==
  Init => KeepInv
<1> SUFFICES ASSUME Init PROVE KeepInv
  OBVIOUS
<1>1. \A m \in Managers : ManagerInv(m)
  <2> SUFFICES ASSUME NEW m \in Managers PROVE ManagerInv(m)
    OBVIOUS
  <2>1. queue[m] = <<>> /\ waits[m] = NoReload /\ ~unread[m] /\ mem[m] = Empty /\ written = {Unset}
    BY DEF Init
  <2>2. ReloadInv(m) /\ UnreadInv(m) /\ LastInv(m) /\ FailInv(m) /\ LatestInv(m)
    BY <2>1 DEF ReloadInv, UnreadInv, LastInv, FailInv, LatestInv
  <2>3. ShownInv(m)
    BY <2>1 DEF ShownInv, Empty
  <2> QED BY <2>2, <2>3 DEF ManagerInv
<1>2. DataInv
  BY DEF Init, DataInv, Empty
<1> QED BY <1>1, <1>2, ShapeInit DEF KeepInv

(***************************************************************************)
(* Theorems                                                                *)
(***************************************************************************)

\* What the managers have read, marked and queued stays what it is for, when a missing
\* file is created by one manager at a time.
THEOREM MergeInvariance ==
  ASSUME CreatedByOne
  PROVE  Spec => []MergeInv
<1>1. Init => MergeInv
  BY MergeInit
<1>2. MergeInv /\ [Next]_vars => MergeInv'
  BY MergeNext
<1> QED BY <1>1, <1>2, PTL DEF Spec

\* The settings others have written survive the writes of a manager that has not
\* seen them: withLock reads the file under the lock it writes it under.
THEOREM OthersSurvive ==
  ASSUME CreatedByOne
  PROVE  Spec => WritesMerge
<1>1. MergeInv /\ [Next]_vars
        => [\A f \in Fields : data'[f] # data[f] => \E m \in Managers : lock = m /\ data'[f][1] = m]_vars
  BY StepMerges
<1> QED BY <1>1, MergeInvariance, PTL DEF Spec, WritesMerge

\* The file, the managers and their queues keep their shape, whatever fails and whoever
\* creates the file.
THEOREM Typed ==
  Spec => []TypeOK
<1>1. TypeOK /\ WorkInv /\ [Next]_vars => (TypeOK /\ WorkInv)'
  BY ShapeNext
<1> QED BY <1>1, ShapeInit, PTL DEF Spec

\* What a manager shows has been in the file, is on its way, or goes with its next write,
\* although a write that succeeds forgets what is marked and writes and loads fail: for
\* any number of managers and settings, if nobody calls a setter while a reload waits and
\* setters do not come in bursts where writes fail.
THEOREM NoChangeIsForgotten ==
  ASSUME ChangesRespected
  PROVE  Spec => []ChangesAreKept
<1>1. KeepInv => ChangesAreKept
  BY DEF KeepInv, ManagerInv, ShownInv, LatestInv, ChangesAreKept
<1>2. KeepInv /\ [Next]_vars => KeepInv'
  BY KeepNext
<1> QED BY <1>1, <1>2, KeepInit, PTL DEF Spec
=============================================================================
