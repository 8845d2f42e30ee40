---------------------------- MODULE SettingsFile ----------------------------
(***************************************************************************)
(* The settings file that all processes, and all sessions of a process, of *)
(* gitpilot-cli share (core/settings-manager.ts, the global scope).        *)
(*                                                                         *)
(* A manager keeps the settings in memory and the fields it has modified.  *)
(* A setter queues a write of a snapshot; a write locks the file, reads it,*)
(* merges the modified fields in and stores it.  The file is looked for    *)
(* before it is locked, and a missing file is not locked until the write.  *)
(*                                                                         *)
(* A value is what a manager has set: no two are equal.                    *)
(***************************************************************************)
EXTENDS Naturals, Sequences, FiniteSets

CONSTANTS
  Managers,     \* SettingsManager instances
  Fields,       \* settings, the nested ones by their paths
  NoManager,    \* nobody holds the lock
  MaxSets,      \* bound: calls of setters
  Weathers      \* the sets of faults a behaviour may be subject to

\* Several setters in one turn of the event loop, one while a reload waits; a write
\* or a load that fails; two managers that create the file at the same time.
Faults == {"burst", "setWhileReloading", "writeFails", "loadFails", "createTogether"}

ASSUME SettingsAssumption ==
  /\ NoManager \notin Managers
  /\ MaxSets \in Nat
  /\ Weathers \subseteq SUBSET Faults

Unset  == <<NoManager, 0>>
Values == {Unset} \cup (Managers \X (1..MaxSets))
Data   == [Fields -> Values]
Empty  == [f \in Fields |-> Unset]

NoReload == 0

VARIABLES
  weather,      \* the faults of this behaviour
  exists,       \* whether the file is there
  data,         \* what it holds
  lock,         \* holder of the lock directory beside it
  mem,          \* globalSettings
  marked,       \* modifiedFields
  unread,       \* globalSettingsLoadError
  queue,        \* writeQueue: the writes that are not done
  at,           \* where the first of them is
  base,         \* the file's content it has read
  waits,        \* 1 + the writes a reload waits for, or NoReload
  sets,         \* calls of setters
  written       \* history: what the file has held
vars == <<weather, exists, data, lock, mem, marked, unread, queue, at, base, waits, sets, written>>

Init ==
  /\ weather \in Weathers
  /\ exists \in BOOLEAN
  /\ data = Empty
  /\ lock = NoManager
  /\ mem = [m \in Managers |-> Empty]
  /\ marked = [m \in Managers |-> {}]
  /\ unread = [m \in Managers |-> FALSE]
  /\ queue = [m \in Managers |-> <<>>]
  /\ at = [m \in Managers |-> "idle"]
  /\ base = [m \in Managers |-> Empty]
  /\ waits = [m \in Managers |-> NoReload]
  /\ sets = 0
  /\ written = {Unset}

(***************************************************************************)
(* Setters                                                                 *)
(***************************************************************************)

Snapshot(fields, values) == [fields |-> fields, values |-> values]

\* Mutant: a write takes only the field of its setter along.
ModifiedAlone(m, f) == {f}

Modified(m, f) == marked[m] \cup {f}

\* save: nothing is written over a file that could not be read.
Set(m, f) ==
  LET values == [mem[m] EXCEPT ![f] = <<m, sets + 1>>]
      write  == Snapshot(Modified(m, f), values)
  IN  /\ sets < MaxSets
      /\ at[m] = "idle"
      /\ queue[m] = <<>> \/ "burst" \in weather
      /\ waits[m] = NoReload \/ "setWhileReloading" \in weather
      /\ sets' = sets + 1
      /\ mem' = [mem EXCEPT ![m] = values]
      /\ marked' = [marked EXCEPT ![m] = @ \cup {f}]
      /\ queue' = IF unread[m] THEN queue ELSE [queue EXCEPT ![m] = Append(@, write)]
      /\ UNCHANGED <<weather, exists, data, lock, unread, at, base, waits, written>>

(***************************************************************************)
(* withLock: its process does nothing else meanwhile, but others do        *)
(***************************************************************************)

\* existsSync comes before the lock; a reload that waits for the writes before goes first.
Look(m) ==
  /\ at[m] = "idle" /\ queue[m] # <<>> /\ waits[m] # 1
  /\ exists \/ "createTogether" \in weather \/ \A n \in Managers : at[n] = "idle"
  /\ at' = [at EXCEPT ![m] = IF exists THEN "found" ELSE "missing"]
  /\ UNCHANGED <<weather, exists, data, lock, mem, marked, unread, queue, base, waits, sets, written>>

\* Mutant: the file is read before it is locked.
AcquireLate(m) ==
  /\ \/ at[m] = "found" /\ base[m] # data /\ base' = [base EXCEPT ![m] = data] /\ UNCHANGED <<at, lock>>
     \/ /\ at[m] = "found" /\ lock = NoManager
        /\ lock' = m /\ at' = [at EXCEPT ![m] = "read"] /\ UNCHANGED base
  /\ UNCHANGED <<weather, exists, data, mem, marked, unread, queue, waits, sets, written>>

Acquire(m) ==
  /\ at[m] = "found" /\ lock = NoManager
  /\ lock' = m
  /\ at' = [at EXCEPT ![m] = "read"]
  /\ base' = [base EXCEPT ![m] = data]
  /\ UNCHANGED <<weather, exists, data, mem, marked, unread, queue, waits, sets, written>>

\* A missing file is locked when its first content has been made up.
AcquireToCreate(m) ==
  /\ at[m] = "missing" /\ lock = NoManager
  /\ lock' = m
  /\ at' = [at EXCEPT ![m] = "read"]
  /\ base' = [base EXCEPT ![m] = Empty]
  /\ UNCHANGED <<weather, exists, data, mem, marked, unread, queue, waits, sets, written>>

Awaited(n) == IF n > 1 THEN n - 1 ELSE n

\* The end of a write, and of the finally block of withLock.
Done(m) ==
  /\ at' = [at EXCEPT ![m] = "idle"]
  /\ lock' = IF lock = m THEN NoManager ELSE lock
  /\ queue' = [queue EXCEPT ![m] = Tail(@)]
  /\ waits' = [waits EXCEPT ![m] = Awaited(@)]

Merged(write, old) == [f \in Fields |-> IF f \in write.fields THEN write.values[f] ELSE old[f]]

Store(m) ==
  LET new == Merged(Head(queue[m]), base[m])
  IN  /\ at[m] = "read"
      /\ exists' = TRUE
      /\ data' = new
      /\ written' = written \cup {new[f] : f \in Fields}
      /\ marked' = [marked EXCEPT ![m] = {}]
      /\ Done(m)
      /\ UNCHANGED <<weather, mem, unread, base, sets>>

\* The lock is not to be had, or the file cannot be read or written.
Fail(m) ==
  /\ "writeFails" \in weather
  /\ at[m] # "idle"
  /\ Done(m)
  /\ UNCHANGED <<weather, exists, data, mem, marked, unread, base, sets, written>>

(***************************************************************************)
(* Loading                                                                 *)
(***************************************************************************)

\* A load is short, and waits for the lock if there is a file.
Load(m) ==
  /\ exists => lock = NoManager
  /\ mem' = [mem EXCEPT ![m] = data]
  /\ unread' = [unread EXCEPT ![m] = FALSE]

LoadFails(m, old) ==
  /\ "loadFails" \in weather
  /\ mem' = [mem EXCEPT ![m] = old]
  /\ unread' = [unread EXCEPT ![m] = TRUE]

\* A new process in the place of m; the writes that m has queued go with it.
Start(m) ==
  /\ at[m] = "idle"
  /\ Load(m) \/ LoadFails(m, Empty)
  /\ marked' = [marked EXCEPT ![m] = {}]
  /\ queue' = [queue EXCEPT ![m] = <<>>]
  /\ waits' = [waits EXCEPT ![m] = NoReload]
  /\ UNCHANGED <<weather, exists, data, lock, at, base, sets, written>>

BeginReload(m) ==
  /\ at[m] = "idle" /\ waits[m] = NoReload
  /\ waits' = [waits EXCEPT ![m] = 1 + Len(queue[m])]
  /\ UNCHANGED <<weather, exists, data, lock, mem, marked, unread, queue, at, base, sets, written>>

Reload(m) ==
  /\ at[m] = "idle" /\ waits[m] = 1
  /\ Load(m) \/ LoadFails(m, mem[m])
  /\ marked' = [marked EXCEPT ![m] = {}]
  /\ waits' = [waits EXCEPT ![m] = NoReload]
  /\ UNCHANGED <<weather, exists, data, lock, queue, at, base, sets, written>>

Next ==
  \/ \E m \in Managers, f \in Fields : Set(m, f)
  \/ \E m \in Managers :
       \/ Look(m) \/ Acquire(m) \/ AcquireToCreate(m) \/ Store(m) \/ Fail(m)
       \/ Start(m) \/ BeginReload(m) \/ Reload(m)

Spec == Init /\ [][Next]_vars

(***************************************************************************)
(* Properties                                                              *)
(***************************************************************************)

TypeOK ==
  /\ weather \in Weathers
  /\ exists \in BOOLEAN
  /\ data \in Data
  /\ lock \in Managers \cup {NoManager}
  /\ mem \in [Managers -> Data]
  /\ marked \in [Managers -> SUBSET Fields]
  /\ unread \in [Managers -> BOOLEAN]
  /\ queue \in [Managers -> Seq([fields : SUBSET Fields, values : Data])]
  /\ at \in [Managers -> {"idle", "found", "missing", "read"}]
  /\ base \in [Managers -> Data]
  /\ waits \in [Managers -> Nat]
  /\ sets \in 0..MaxSets
  /\ written \subseteq Values

\* "Preserves externally added settings": a write changes nothing in the file but
\* what its own manager has set, whatever others have written since it loaded.
WritesMerge ==
  [][\A f \in Fields : data'[f] # data[f] => \E m \in Managers : lock = m /\ data'[f][1] = m]_vars

Queued(m, f) == \E i \in DOMAIN queue[m] : f \in queue[m][i].fields

\* What a manager shows has been in the file, or is on its way, or goes with its next
\* write, although writes fail and each one that succeeds forgets what was modified;
\* and what is on its way is what it shows.  A file that could not be read is left alone.
ChangesAreKept ==
  \A m \in Managers, f \in Fields :
    /\ unread[m] \/ mem[m][f] \in written \/ f \in marked[m] \/ Queued(m, f)
    /\ \A i \in DOMAIN queue[m] :
         f \in queue[m][i].fields /\ (\A j \in DOMAIN queue[m] : j > i => f \notin queue[m][j].fields)
           => queue[m][i].values[f] = mem[m][f]
=============================================================================
