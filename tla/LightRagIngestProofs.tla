------------------------ MODULE LightRagIngestProofs ------------------------
(* Theorems about LightRagIngest for every value of its constants.         *)
EXTENDS LightRagIngest, FiniteSetTheorems, TLAPS

(* Ids are naturals: among some of them there is a smallest.                *)
LEMMA NatMin ==
  ASSUME NEW ids \in SUBSET Nat, ids # {}
  PROVE  \E m \in ids : \A j \in ids : m <= j
  <1> DEFINE less == OpToRel(<, Nat)
  <1>1. IsWellFoundedOn(less, Nat)
    BY NatLessThanWellFounded
  <1>2. less = {pair \in Nat \X Nat : pair[1] < pair[2]}
    BY DEF OpToRel
  <1> HIDE DEF less
  <1>3. PICK m \in ids : \A j \in ids : ~(<<j, m>> \in less)
    BY <1>1, WFMin
  <1>4. \A j \in ids : <<j, m>> \in less <=> j < m
    BY <1>2
  <1>5. m \in Nat /\ \A j \in ids : j \in Nat /\ ~(j < m)
    BY <1>3, <1>4
  <1> QED BY <1>5

-----------------------------------------------------------------------------
(* The places of ids count from 1 without a gap. *)

LEMMA PlaceOrders ==
  ASSUME NEW ids \in SUBSET Nat, IsFiniteSet(ids), NEW i \in ids, NEW j \in ids, i < j
  PROVE  Place(ids, i) < Place(ids, j)
  <1> DEFINE low == {x \in ids : x <= i}  high == {x \in ids : x <= j}
  <1>1. low \in SUBSET high /\ high \in SUBSET ids /\ low # high
    <2>1. \A x \in ids : x <= i => x <= j OBVIOUS
    <2>2. j \in high /\ j \notin low OBVIOUS
    <2> QED BY <2>1, <2>2
  <1> HIDE DEF low, high
  <1>2. IsFiniteSet(high) /\ IsFiniteSet(low)
    BY <1>1, FS_Subset
  <1>3. Cardinality(low) <= Cardinality(high) /\ Cardinality(low) # Cardinality(high)
    BY <1>1, <1>2, FS_Subset
  <1>4. Cardinality(low) \in Nat /\ Cardinality(high) \in Nat
    BY <1>2, FS_CardinalityType
  <1>5. Cardinality(low) < Cardinality(high)
    BY <1>3, <1>4
  <1> QED BY <1>5 DEF Place, low, high

LEMMA PlaceIn ==
  ASSUME NEW ids \in SUBSET Nat, IsFiniteSet(ids), NEW i \in ids
  PROVE  Cardinality(ids) \in Nat /\ Place(ids, i) \in 1..Cardinality(ids)
  <1> DEFINE low == {x \in ids : x <= i}
  <1>1. low \in SUBSET ids /\ i \in low OBVIOUS
  <1> HIDE DEF low
  <1>2. IsFiniteSet(low) /\ Cardinality(low) <= Cardinality(ids)
    BY <1>1, FS_Subset
  <1>3. Cardinality(low) \in Nat /\ Cardinality(ids) \in Nat
    BY <1>2, FS_CardinalityType
  <1>4. Cardinality(low) # 0
    BY <1>1, <1>2, FS_EmptySet
  <1>5. Cardinality(low) \in 1..Cardinality(ids)
    BY <1>2, <1>3, <1>4
  <1> QED BY <1>3, <1>5 DEF Place, low

LEMMA PlaceFilled ==
  ASSUME NEW ids \in SUBSET Nat, IsFiniteSet(ids), NEW k \in 1..Cardinality(ids)
  PROVE  \E i \in ids : Place(ids, i) = k
  <1> DEFINE n == Cardinality(ids)
             place == [i \in ids |-> Place(ids, i)]
  <1>1. n \in Nat BY FS_CardinalityType
  <1>2. IsFiniteSet(1..n) /\ Cardinality(1..n) = n
    <2>1. IsFiniteSet(1..n) /\ Cardinality(1..n) = IF 1 > n THEN 0 ELSE n - 1 + 1
      BY <1>1, FS_Interval
    <2> QED BY <1>1, <2>1
  <1>3. place \in [ids -> 1..n] BY PlaceIn
  <1>4. IsInjective(place)
    <2> SUFFICES ASSUME NEW i \in ids, NEW j \in ids, Place(ids, i) = Place(ids, j) PROVE i = j
      BY DEF IsInjective
    <2>1. ~(i < j) /\ ~(j < i)
      <3>1. Place(ids, i) \in Nat BY PlaceIn
      <3> QED BY <3>1, PlaceOrders
    <2> QED BY <2>1
  <1>5. place \in Injection(ids, 1..n) BY <1>3, <1>4 DEF Injection
  <1> HIDE DEF place
  <1>6. place \in Surjection(ids, 1..n) BY <1>2, <1>5, FS_Injection
  <1>7. \E i \in ids : place[i] = k BY <1>6 DEF Surjection
  <1> QED BY <1>7 DEF place

(* What is kept of a table is every row to keep and no other.               *)
LEMMA KeptRows ==
  ASSUME NEW rows, NEW table \in Seq(rows)
  PROVE  /\ Kept(table) \in Seq(rows)
         /\ \A k \in DOMAIN Kept(table) :
              \E i \in DOMAIN table : Keeps(table[i]) /\ Kept(table)[k] = table[i]
         /\ \A i \in DOMAIN table : Keeps(table[i]) =>
              \E k \in DOMAIN Kept(table) : Kept(table)[k] = table[i]
  <1> DEFINE ids == {i \in DOMAIN table : Keeps(table[i])}
             n == Cardinality(ids)
             at(k) == CHOOSE i \in ids : Place(ids, i) = k
  <1>1. DOMAIN table = 1..Len(table) /\ Len(table) \in Nat OBVIOUS
  <1>2. ids \in SUBSET Nat /\ IsFiniteSet(ids) /\ n \in Nat
    <2>1. IsFiniteSet(1..Len(table)) BY <1>1, FS_Interval
    <2>2. ids \in SUBSET (1..Len(table)) BY <1>1
    <2>3. IsFiniteSet(ids) BY <2>1, <2>2, FS_Subset
    <2>4. \A i \in 1..Len(table) : i \in Nat BY <1>1
    <2> QED BY <2>2, <2>3, <2>4, FS_CardinalityType
  <1>3. Kept(table) = [k \in 1..n |-> table[at(k)]] BY DEF Kept
  <1>4. \A i \in ids : i \in DOMAIN table /\ Keeps(table[i]) /\ table[i] \in rows BY <1>1
  <1>5. \A i \in DOMAIN table : Keeps(table[i]) => i \in ids OBVIOUS
  <1> HIDE DEF ids
  <1>6. \A k \in 1..n : at(k) \in ids /\ Place(ids, at(k)) = k
    BY <1>2, PlaceFilled
  <1>7. \A i \in ids : Place(ids, i) \in 1..n /\ at(Place(ids, i)) = i
    <2> TAKE i \in ids
    <2>1. Place(ids, i) \in 1..n BY <1>2, PlaceIn
    <2>2. at(Place(ids, i)) \in ids /\ Place(ids, at(Place(ids, i))) = Place(ids, i)
      BY <1>6, <2>1
    <2> DEFINE j == at(Place(ids, i))
    <2> HIDE DEF j
    <2>4. j \in ids /\ Place(ids, j) = Place(ids, i) BY <2>2 DEF j
    <2>3. i \in Nat /\ j \in Nat BY <1>2, <2>4
    <2>7. Place(ids, i) \in Nat BY <1>2, <2>1
    <2>8. ~(Place(ids, i) < Place(ids, j)) /\ ~(Place(ids, j) < Place(ids, i)) BY <2>4, <2>7
    <2>5. ~(i < j) /\ ~(j < i) BY <1>2, <2>3, <2>4, <2>8, PlaceOrders
    <2>6. i = j BY <2>3, <2>5
    <2> QED BY <2>1, <2>6 DEF j
  <1> HIDE DEF n, at
  <1>8. Kept(table) \in [1..n -> rows] BY <1>3, <1>4, <1>6
  <1>9. Kept(table) \in Seq(rows) BY <1>2, <1>8
  <1>10. DOMAIN Kept(table) = 1..n BY <1>3
  <1>11. \A k \in 1..n : Kept(table)[k] = table[at(k)] BY <1>3
  <1>12. \A k \in DOMAIN Kept(table) :
           \E i \in DOMAIN table : Keeps(table[i]) /\ Kept(table)[k] = table[i]
    BY <1>4, <1>6, <1>10, <1>11
  <1>13. \A i \in DOMAIN table : Keeps(table[i]) =>
           \E k \in DOMAIN Kept(table) : Kept(table)[k] = table[i]
    BY <1>5, <1>7, <1>10, <1>11
  <1> QED BY <1>9, <1>12, <1>13

-----------------------------------------------------------------------------
(* The task table.  TypeOK is not inductive: the row at work must be there, *)
(* no row is out of tries, and a save that has begun has a version left.    *)

Rows == tasks \in Seq(Task) /\ \A i \in DOMAIN tasks : tasks[i].retry < RetryMax

AtWork == consumer.at # "idle" => Held # {}

TypeInv ==
  /\ TypeOK
  /\ Rows
  /\ AtWork
  /\ editor.page # NoPage => page[editor.page].version < MaxVersion

LEMMA CurrentHeld ==
  ASSUME tasks \in Seq(Task), Held # {}
  PROVE  /\ Current \in Held /\ Current \in DOMAIN tasks
         /\ tasks[Current] \in Task /\ tasks[Current].held
  <1>1. DOMAIN tasks = 1..Len(tasks) /\ Len(tasks) \in Nat OBVIOUS
  <1>2. Held \in SUBSET Nat
    <2>1. \A i \in 1..Len(tasks) : i \in Nat BY <1>1
    <2> QED BY <1>1, <2>1 DEF Held
  <1>3. \E m \in Held : \A j \in Held : m <= j BY <1>2, NatMin
  <1>4. Current \in Held BY <1>3 DEF Current
  <1>5. Current \in DOMAIN tasks /\ tasks[Current].held BY <1>4 DEF Held
  <1>6. tasks[Current] \in Task BY <1>5
  <1> QED BY <1>4, <1>5, <1>6

LEMMA Appended ==
  ASSUME tasks \in Seq(Task), NEW r \in Task, ~r.held, tasks' = Append(tasks, r)
  PROVE  /\ tasks' \in Seq(Task) /\ Held' = Held
         /\ DOMAIN tasks' = DOMAIN tasks \cup {Len(tasks) + 1} /\ tasks'[Len(tasks) + 1] = r
         /\ \A i \in DOMAIN tasks : tasks'[i] = tasks[i]
  <1>1. tasks' \in Seq(Task) OBVIOUS
  <1>2. DOMAIN tasks' = DOMAIN tasks \cup {Len(tasks) + 1} /\ tasks'[Len(tasks) + 1] = r
    OBVIOUS
  <1>3. \A i \in DOMAIN tasks : tasks'[i] = tasks[i] OBVIOUS
  <1>4. \A i : i \in Held' <=> i \in Held BY <1>2, <1>3 DEF Held
  <1>5. Held' = Held BY <1>4
  <1> QED BY <1>1, <1>2, <1>3, <1>5

LEMMA SameCurrent == ASSUME Held' = Held PROVE Current' = Current
  BY DEF Current

(* What becomes of the rows of a table that is stored.                      *)
LEMMA Stored ==
  ASSUME NEW table \in Seq(Task), Store(table)
  PROVE  /\ tasks' \in Seq(Task)
         /\ \A k \in DOMAIN tasks' :
              \E i \in DOMAIN table : Keeps(table[i]) /\ tasks'[k] = table[i]
         /\ \A i \in DOMAIN table : Keeps(table[i]) => \E k \in DOMAIN tasks' : tasks'[k] = table[i]
         /\ \A i \in DOMAIN table : ~Keeps(table[i]) /\ table[i].op = "DELETE" =>
              table[i].status = "DONE" \/ table[i].page \in lost'
         /\ lost \subseteq lost'
         /\ lost \subseteq Pages => lost' \subseteq Pages
  <1>1. tasks' = Kept(table) BY DEF Store
  <1>3. \A i \in DOMAIN table : table[i] \in Task OBVIOUS
  <1>2. \A i \in DOMAIN table : table[i].page \in Pages BY <1>3 DEF Task
  <1> QED BY <1>1, <1>2, KeptRows DEF Store

(* The row at work leaves the consumer's hands as r.                        *)
LEMMA Finished ==
  ASSUME tasks \in Seq(Task), Held # {}, NEW r \in Task, Finish(r)
  PROVE  /\ tasks' \in Seq(Task)
         /\ \A k \in DOMAIN tasks' :
              \/ \E i \in DOMAIN tasks \ {Current} : Keeps(tasks[i]) /\ tasks'[k] = tasks[i]
              \/ tasks'[k] = [r EXCEPT !.held = FALSE] /\ r.status = "PENDING"
         /\ \A i \in DOMAIN tasks \ {Current} : Keeps(tasks[i]) =>
              \E k \in DOMAIN tasks' : tasks'[k] = tasks[i]
         /\ r.op = "DELETE" =>
              \/ r.status = "DONE" \/ r.page \in lost'
              \/ r.status = "PENDING" /\ \E k \in DOMAIN tasks' : tasks'[k] = [r EXCEPT !.held = FALSE]
         /\ lost \subseteq lost'
         /\ lost \subseteq Pages => lost' \subseteq Pages
         /\ consumer'.at \in {"idle", "start"} /\ consumer' = [Resting EXCEPT !.at = consumer'.at]
         /\ consumer'.at = "start" => Held' # {}
  <1> DEFINE done == [r EXCEPT !.held = FALSE]
             table == [tasks EXCEPT ![Current] = done]
  <1>1. done \in Task /\ ~done.held /\ done.status = r.status /\ done.op = r.op /\ done.page = r.page
    BY DEF Task
  <1>2. Current \in Held /\ Current \in DOMAIN tasks BY CurrentHeld
  <1>3. Store(table) /\ consumer' = [Resting EXCEPT !.at = IF Held = {Current} THEN "idle" ELSE "start"]
    BY DEF Finish
  <1> HIDE DEF done
  <1>4. table \in Seq(Task) /\ DOMAIN table = DOMAIN tasks /\ table[Current] = done
        /\ \A i \in DOMAIN tasks \ {Current} : table[i] = tasks[i]
    BY <1>1, <1>2
  <1> HIDE DEF table
  <1>5. Keeps(done) <=> r.status = "PENDING" BY <1>1 DEF Keeps
  <1>6. \A i \in DOMAIN tasks \ {Current} : Keeps(tasks[i]) =>
          \E k \in DOMAIN tasks' : tasks'[k] = tasks[i]
    BY <1>3, <1>4, Stored
  <1>7. \A k \in DOMAIN tasks' :
          \/ \E i \in DOMAIN tasks \ {Current} : Keeps(tasks[i]) /\ tasks'[k] = tasks[i]
          \/ tasks'[k] = done /\ r.status = "PENDING"
    <2> TAKE k \in DOMAIN tasks'
    <2>1. PICK i \in DOMAIN table : Keeps(table[i]) /\ tasks'[k] = table[i]
      BY <1>3, <1>4, Stored
    <2>2. CASE i = Current BY <1>4, <1>5, <2>1, <2>2
    <2>3. CASE i # Current BY <1>4, <2>1, <2>3
    <2> QED BY <2>2, <2>3
  <1>8. r.op = "DELETE" =>
          \/ r.status = "DONE" \/ r.page \in lost'
          \/ r.status = "PENDING" /\ \E k \in DOMAIN tasks' : tasks'[k] = done
    <2>1. CASE Keeps(done) BY <1>2, <1>3, <1>4, <1>5, <2>1, Stored
    <2>2. CASE ~Keeps(done) BY <1>1, <1>2, <1>3, <1>4, <2>2, Stored
    <2> QED BY <2>1, <2>2
  <1>9. consumer'.at \in {"idle", "start"} /\ consumer' = [Resting EXCEPT !.at = consumer'.at]
    BY <1>3 DEF Resting
  <1>10. consumer'.at = "start" => Held' # {}
    <2> HAVE consumer'.at = "start"
    <2>1. PICK j \in Held : j # Current BY <1>2, <1>3 DEF Resting
    <2>2. j \in DOMAIN tasks \ {Current} /\ tasks[j].held BY <2>1 DEF Held
    <2>3. PICK k \in DOMAIN tasks' : tasks'[k] = tasks[j] BY <1>6, <2>2 DEF Keeps
    <2> QED BY <2>2, <2>3 DEF Held
  <1> QED BY <1>3, <1>4, <1>6, <1>7, <1>8, <1>9, <1>10, Stored DEF done

(* The consumer takes PENDING rows: the first one always.                   *)
LEMMA PollTakes ==
  ASSUME Rows, lost \subseteq Pages, NEW held \in BOOLEAN, Polled(held)
  PROVE  /\ Rows'
         /\ \A k \in DOMAIN tasks' : \E i \in DOMAIN tasks :
              \/ tasks'[k] = tasks[i]
              \/ /\ tasks[i].status = "PENDING" /\ held
                 /\ tasks'[k] = [tasks[i] EXCEPT !.status = "PROCESSING", !.held = TRUE]
         /\ \A i \in DOMAIN tasks : tasks[i].op = "DELETE" /\ Keeps(tasks[i]) =>
              \/ ~held /\ tasks[i].page \in lost'
              \/ \E k \in DOMAIN tasks' : tasks'[k].page = tasks[i].page /\ tasks'[k].op = "DELETE"
         /\ lost \subseteq lost' /\ lost' \subseteq Pages
         /\ held => Held' # {}
  <1> DEFINE waiting == {i \in DOMAIN tasks : tasks[i].status = "PENDING"}
             taken == {i \in waiting : Place(waiting, i) <= Batch}
             row(i) == [tasks[i] EXCEPT !.status = "PROCESSING", !.held = held]
             table == [i \in DOMAIN tasks |-> IF i \in taken THEN row(i) ELSE tasks[i]]
  <1>1. tasks \in Seq(Task) /\ DOMAIN tasks = 1..Len(tasks) /\ Len(tasks) \in Nat BY DEF Rows
  <1>2. \A i \in DOMAIN tasks : tasks[i] \in Task /\ row(i) \in Task
    <2> TAKE i \in DOMAIN tasks
    <2>1. tasks[i] \in Task BY <1>1
    <2> QED BY <2>1 DEF Task
  <1>3. table \in Seq(Task) /\ DOMAIN table = DOMAIN tasks
    <2> HIDE DEF row, taken
    <2>1. table \in [1..Len(tasks) -> Task] BY <1>1, <1>2
    <2> QED BY <1>1, <2>1
  <1>4. Store(table) BY DEF Polled
  <1>5. \A i \in DOMAIN tasks :
          /\ row(i).retry = tasks[i].retry /\ row(i).op = tasks[i].op /\ row(i).page = tasks[i].page
          /\ row(i).status = "PROCESSING" /\ row(i).held = held
    BY <1>2 DEF Task
  <1>6. \A i \in DOMAIN tasks : (i \in taken /\ table[i] = row(i)) \/ (i \notin taken /\ table[i] = tasks[i])
    OBVIOUS
  <1>7. \A i \in taken : tasks[i].status = "PENDING" OBVIOUS
  <1>8. taken # {}
    <2>1. waiting # {} /\ waiting \in SUBSET Nat
      <3>1. \A i \in 1..Len(tasks) : i \in Nat BY <1>1
      <3> QED BY <1>1, <3>1 DEF Polled
    <2>2. IsFiniteSet(waiting)
      <3>1. waiting \in SUBSET (1..Len(tasks)) BY <1>1
      <3>2. IsFiniteSet(1..Len(tasks)) BY <1>1, FS_Interval
      <3> QED BY <3>1, <3>2, FS_Subset
    <2> HIDE DEF waiting
    <2>3. Cardinality(waiting) \in Nat /\ Cardinality(waiting) # 0
      BY <2>1, <2>2, FS_CardinalityType, FS_EmptySet
    <2>4. 1 \in 1..Cardinality(waiting) BY <2>3
    <2>5. PICK i \in waiting : Place(waiting, i) = 1 BY <2>1, <2>2, <2>4, PlaceFilled
    <2>6. 1 <= Batch BY IngestAssumption
    <2> QED BY <2>5, <2>6
  <1>9. taken \subseteq DOMAIN tasks OBVIOUS
  <1> HIDE DEF waiting, taken, row, table
  <1>10. \A k \in DOMAIN tasks' : \E i \in DOMAIN tasks : Keeps(table[i]) /\ tasks'[k] = table[i]
    BY <1>3, <1>4, Stored
  <1>11. \A i \in DOMAIN tasks : Keeps(table[i]) => \E k \in DOMAIN tasks' : tasks'[k] = table[i]
    BY <1>3, <1>4, Stored
  <1>12. \A i \in DOMAIN tasks : ~Keeps(table[i]) /\ table[i].op = "DELETE" =>
           table[i].status = "DONE" \/ table[i].page \in lost'
    BY <1>3, <1>4, Stored
  <1>13. tasks' \in Seq(Task) /\ lost \subseteq lost' /\ lost' \subseteq Pages
    BY <1>3, <1>4, Stored
  <1>14. Rows'
    <2>1. \A i \in DOMAIN tasks : table[i].retry < RetryMax BY <1>5, <1>6 DEF Rows
    <2> QED BY <1>10, <1>13, <2>1 DEF Rows
  <1>15. held => Held' # {}
    <2> HAVE held
    <2>1. PICK i \in taken : TRUE BY <1>8
    <2>2. table[i].held /\ i \in DOMAIN tasks BY <1>5, <1>6, <1>9, <2>1
    <2>3. PICK k \in DOMAIN tasks' : tasks'[k] = table[i] BY <1>11, <2>2 DEF Keeps
    <2> QED BY <2>2, <2>3 DEF Held
  <1>16. \A k \in DOMAIN tasks' : \E i \in DOMAIN tasks :
           \/ tasks'[k] = tasks[i]
           \/ /\ tasks[i].status = "PENDING" /\ held
              /\ tasks'[k] = [tasks[i] EXCEPT !.status = "PROCESSING", !.held = TRUE]
    <2> TAKE k \in DOMAIN tasks'
    <2>1. PICK i \in DOMAIN tasks : Keeps(table[i]) /\ tasks'[k] = table[i] BY <1>10
    <2>2. CASE i \in taken
      <3>1. tasks'[k] = row(i) /\ held BY <1>5, <1>6, <2>1, <2>2 DEF Keeps
      <3> QED BY <1>7, <2>2, <3>1 DEF row
    <2> QED BY <1>6, <2>1, <2>2
  <1>17. \A i \in DOMAIN tasks : tasks[i].op = "DELETE" /\ Keeps(tasks[i]) =>
           \/ ~held /\ tasks[i].page \in lost'
           \/ \E k \in DOMAIN tasks' : tasks'[k].page = tasks[i].page /\ tasks'[k].op = "DELETE"
    <2> SUFFICES ASSUME NEW i \in DOMAIN tasks, tasks[i].op = "DELETE", Keeps(tasks[i]),
                        held \/ tasks[i].page \notin lost'
                 PROVE  \E k \in DOMAIN tasks' : tasks'[k].page = tasks[i].page /\ tasks'[k].op = "DELETE"
      OBVIOUS
    <2>1. table[i].op = "DELETE" /\ table[i].page = tasks[i].page BY <1>5, <1>6
    <2>2. Keeps(table[i])
      <3>1. CASE i \in taken /\ held BY <1>5, <1>6, <3>1 DEF Keeps
      <3>2. CASE i \notin taken BY <1>6, <3>2
      <3>3. CASE tasks[i].page \notin lost' BY <1>5, <1>6, <1>12, <2>1, <3>3
      <3> QED BY <3>1, <3>2, <3>3
    <2> QED BY <1>11, <2>1, <2>2
  <1> QED BY <1>13, <1>14, <1>15, <1>16, <1>17

-----------------------------------------------------------------------------
(* Types *)

LEMMA WorkType ==
  ASSUME TypeInv, Work
  PROVE  TypeInv'
  <1>0. /\ UNCHANGED <<weather, page, editor, scanner, dropped>> /\ Held # {} /\ tasks \in Seq(Task)
        /\ consumer.at # "idle"
    BY DEF Work, FetchText, FetchFails, Remove, IngestRemove, Insert, InsertFails, AnswerRead, Ack,
       AckAnswerLost, AckRefused, AckNotSent, Nack, NackLost, At, TypeInv, AtWork, Rows
  <1>1. tasks[Current] \in Task /\ Current \in DOMAIN tasks /\ tasks[Current].retry < RetryMax
        /\ tasks[Current].held
    BY <1>0, CurrentHeld DEF TypeInv, Rows
  <1> DEFINE r == tasks[Current]
             Places == {"idle", "start", "ingest", "insert", "ack", "acking", "nack", "nacking"}
  <1>2. /\ page \in [Pages -> [exists : BOOLEAN, version : Versions, text : Versions]]
        /\ state \in [Pages -> StateRow] /\ index \in [Pages -> Versions]
        /\ consumer \in [at : Places, text : Versions, copy : StateRow]
        /\ lost \subseteq Pages
    BY DEF TypeInv, TypeOK
  <1>3. r.page \in Pages /\ r.version \in Versions /\ r.retry \in Nat /\ page[r.page].text \in Versions
        /\ state[r.page] \in StateRow /\ 0 \in Versions /\ NoState \in StateRow
    <2>1. 0 \in Versions BY IngestAssumption DEF Versions
    <2>2. r.retry \in 0..RetryMax /\ r.page \in Pages /\ r.version \in Versions
      BY <1>1 DEF Task
    <2> QED BY <1>2, <2>1, <2>2, IngestAssumption DEF NoState, StateRow
  <1>4. [Resting EXCEPT !.at = "idle"] \in [at : Places, text : Versions, copy : StateRow]
        /\ [Resting EXCEPT !.at = "start"] \in [at : Places, text : Versions, copy : StateRow]
    BY <1>3 DEF Resting
  (* The steps that leave the rows alone.                                   *)
  <1>5. ASSUME UNCHANGED <<state, tasks, lost>>, index' \in [Pages -> Versions],
               consumer' \in [at : Places, text : Versions, copy : StateRow]
        PROVE  TypeInv'
    BY <1>0, <1>5 DEF TypeInv, TypeOK, Rows, AtWork, Held
  <1>6. ASSUME NEW place \in Places, Go(place)
        PROVE  consumer' \in [at : Places, text : Versions, copy : StateRow]
    BY <1>2, <1>6 DEF Go
  <1>7. \A v \in Versions : [index EXCEPT ![r.page] = v] \in [Pages -> Versions]
    BY <1>2
  <1> HIDE DEF r
  <1>8. CASE FetchText
    <2>1. UNCHANGED <<state, tasks, index, lost>> BY <1>8 DEF FetchText
    <2>2. consumer' \in [at : Places, text : Versions, copy : StateRow]
      BY <1>2, <1>3, <1>8 DEF FetchText, r
    <2> QED BY <1>2, <1>5, <2>1, <2>2
  <1>9. CASE FetchFails \/ InsertFails
    BY <1>2, <1>5, <1>6, <1>9 DEF FetchFails, InsertFails
  <1>10. CASE Remove \/ IngestRemove
    BY <1>2, <1>3, <1>5, <1>6, <1>7, <1>10 DEF Remove, IngestRemove, r
  <1>11. CASE Insert
    BY <1>2, <1>5, <1>6, <1>7, <1>11 DEF Insert, r
  <1>12. CASE AnswerRead
    BY <1>2, <1>3, <1>5, <1>12 DEF AnswerRead, r
  <1>13. CASE AckNotSent
    BY <1>2, <1>5, <1>6, <1>13 DEF AckNotSent
  (* The steps that end the work on a row.                                  *)
  <1>14. ASSUME NEW x \in Task, Finish(x), x.retry < RetryMax \/ x.status # "PENDING",
                state' \in [Pages -> StateRow], UNCHANGED index
         PROVE  TypeInv'
    <2>1. tasks' \in Seq(Task) /\ lost' \subseteq Pages
          /\ consumer'.at \in {"idle", "start"} /\ consumer' = [Resting EXCEPT !.at = consumer'.at]
          /\ (consumer'.at = "start" => Held' # {})
      BY <1>0, <1>2, <1>14, Finished
    <2>2. \A k \in DOMAIN tasks' :
              \/ \E i \in DOMAIN tasks \ {Current} : Keeps(tasks[i]) /\ tasks'[k] = tasks[i]
              \/ tasks'[k] = [x EXCEPT !.held = FALSE] /\ x.status = "PENDING"
      BY <1>0, <1>14, Finished
    <2>3. [x EXCEPT !.held = FALSE].retry = x.retry BY DEF Task
    <2>4. Rows' BY <1>14, <2>1, <2>2, <2>3 DEF Rows, TypeInv
    <2>5. consumer' \in [at : Places, text : Versions, copy : StateRow]
      BY <1>4, <2>1
    <2>6. AtWork' BY <2>1 DEF AtWork
    <2> QED BY <1>0, <1>14, <2>1, <2>4, <2>5, <2>6 DEF TypeInv, TypeOK
  <1>15. \A row \in StateRow : Acked(r, row) \in StateRow
    BY <1>3 DEF Acked, StateRow
  <1>16. consumer.copy \in StateRow BY <1>2
  <1>17. CASE Ack
    <2>1. [r EXCEPT !.status = "DONE"] \in Task /\ [r EXCEPT !.status = "DONE"].status = "DONE"
      BY <1>1 DEF Task, r
    <2>2. state' = [state EXCEPT ![r.page] = Acked(r, consumer.copy)] /\ UNCHANGED index
          /\ Finish([r EXCEPT !.status = "DONE"])
      BY <1>17 DEF Ack, r
    <2> QED BY <1>2, <1>14, <1>15, <1>16, <2>1, <2>2
  <1>18. CASE AckAnswerLost
    <2> DEFINE x == [r EXCEPT !.status = "DONE"]
    <2>1. x \in Task /\ x.retry = r.retry /\ x.held = r.held BY <1>1 DEF Task, r
    <2>2. tasks' = [tasks EXCEPT ![Current] = x] BY <1>1, <1>18 DEF AckAnswerLost, r
    <2> HIDE DEF x
    <2>3. tasks' \in Seq(Task) /\ DOMAIN tasks' = DOMAIN tasks /\ tasks'[Current] = x
          /\ \A i \in DOMAIN tasks \ {Current} : tasks'[i] = tasks[i]
      BY <1>0, <1>1, <2>1, <2>2
    <2>4. Rows' BY <1>1, <2>1, <2>3 DEF Rows, TypeInv, r
    <2>5. Current \in Held' BY <1>1, <2>1, <2>3 DEF Held, r
    <2>6. state' \in [Pages -> StateRow]
      BY <1>2, <1>15, <1>16, <1>18 DEF AckAnswerLost, r
    <2>7. consumer' \in [at : Places, text : Versions, copy : StateRow] /\ UNCHANGED <<index, lost>>
      BY <1>6, <1>18 DEF AckAnswerLost
    <2> QED BY <1>0, <2>3, <2>4, <2>5, <2>6, <2>7 DEF TypeInv, TypeOK, AtWork
  <1>19. CASE AckRefused \/ NackLost
    <2>1. Finish(r) /\ UNCHANGED <<state, index>> BY <1>19 DEF AckRefused, NackLost, r
    <2> QED BY <1>1, <1>2, <1>14, <2>1 DEF r
  <1>20. CASE Nack
    <2>1. Nacked(r) \in Task /\ (Nacked(r).retry < RetryMax \/ Nacked(r).status # "PENDING")
      <3>1. r.retry + 1 \in 0..RetryMax
        BY <1>1, <1>3, IngestAssumption DEF r
      <3>2. Nacked(r).retry = r.retry + 1
            /\ Nacked(r).status = IF r.retry + 1 >= RetryMax THEN "DEAD" ELSE "PENDING"
        BY <1>1 DEF Nacked, Task, r
      <3>3. Nacked(r) \in Task BY <1>1, <3>1 DEF Nacked, Task, r
      <3>4. r.retry + 1 >= RetryMax \/ r.retry + 1 < RetryMax BY <1>3, IngestAssumption
      <3> QED BY <3>2, <3>3, <3>4
    <2>2. Finish(Nacked(r)) /\ UNCHANGED index BY <1>20 DEF Nack, r
    <2>3. [consumer.copy EXCEPT !.exists = TRUE, !.status = "FAILED"] \in StateRow
      BY <1>16 DEF StateRow
    <2>4. state' \in [Pages -> StateRow] BY <1>2, <1>20, <2>3 DEF Nack, r
    <2> QED BY <1>14, <2>1, <2>2, <2>4
  <1> QED BY <1>8, <1>9, <1>10, <1>11, <1>12, <1>13, <1>17, <1>18, <1>19, <1>20 DEF Work

(* A row that is queued. *)
LEMMA NewTaskType ==
  ASSUME NEW p \in Pages, NEW op \in {"UPSERT", "DELETE"}, NEW v \in Versions
  PROVE  NewTask(p, op, v) \in Task /\ ~NewTask(p, op, v).held /\ NewTask(p, op, v).retry = 0
  BY IngestAssumption DEF NewTask, Task

LEMMA QueuedRows ==
  ASSUME Rows, AtWork, UNCHANGED consumer, NEW p \in Pages, NEW op \in {"UPSERT", "DELETE"},
         NEW v \in Versions, tasks' = Append(tasks, NewTask(p, op, v))
  PROVE  Rows' /\ AtWork'
  <1>1. NewTask(p, op, v) \in Task /\ ~NewTask(p, op, v).held /\ NewTask(p, op, v).retry < RetryMax
    BY NewTaskType, IngestAssumption
  <1>2. tasks \in Seq(Task) BY DEF Rows
  <1>3. Held' = Held /\ Rows' BY <1>1, <1>2, Appended DEF Rows
  <1> QED BY <1>3 DEF AtWork

LEMMA VersionUp ==
  ASSUME NEW v \in Versions, v < MaxVersion PROVE v + 1 \in Versions
  BY IngestAssumption DEF Versions

LEMMA SaveType ==
  ASSUME TypeInv, SaveCommit
  PROVE  TypeInv'
  <1> DEFINE p == editor.page  v == page[p].version + 1
  <1>0. /\ page \in [Pages -> [exists : BOOLEAN, version : Versions, text : Versions]]
        /\ state \in [Pages -> StateRow] /\ editor \in [page : Pages \cup {NoPage}, copy : StateRow]
        /\ Rows /\ AtWork /\ UNCHANGED <<weather, index, consumer, scanner, lost, dropped>>
    BY DEF TypeInv, TypeOK, SaveCommit
  <1>1. p \in Pages /\ editor' = NoEditor
    BY <1>0 DEF SaveCommit
  <1>2. editor' \in [page : Pages \cup {NoPage}, copy : StateRow] /\ editor'.page = NoPage
    BY <1>1, IngestAssumption DEF NoEditor, NoState, StateRow, Versions
  <1>3. v \in Versions /\ 0 \in Versions
    <2>1. page[p].version \in Versions /\ page[p].version < MaxVersion
      BY <1>0, <1>1 DEF TypeInv, SaveCommit
    <2>2. 0 \in Versions BY IngestAssumption DEF Versions
    <2> QED BY <2>1, <2>2, VersionUp
  <1> HIDE DEF v
  <1>4. CASE UNCHANGED <<page, tasks, state>>
    BY <1>0, <1>2, <1>4 DEF TypeInv, TypeOK, Rows, AtWork, Held
  <1>5. CASE ~UNCHANGED <<page, tasks, state>>
    <2>1. PICK text \in {v, 0} : page' = [page EXCEPT ![p] = [exists |-> TRUE, version |-> v, text |-> text]]
      BY <1>5 DEF SaveCommit, v
    <2>2. tasks' = Append(tasks, NewTask(p, "UPSERT", v)) BY <1>5 DEF SaveCommit, v
    <2>3. state' = [state EXCEPT ![p] = [editor.copy EXCEPT !.exists = TRUE, !.status = "PENDING"]]
      BY <1>5 DEF SaveCommit
    <2>4. [editor.copy EXCEPT !.exists = TRUE, !.status = "PENDING"] \in StateRow
      BY <1>0 DEF StateRow
    <2>5. state' \in [Pages -> StateRow] BY <1>0, <1>1, <2>3, <2>4
    <2>6. page' \in [Pages -> [exists : BOOLEAN, version : Versions, text : Versions]]
      BY <1>0, <1>1, <1>3, <2>1
    <2>7. Rows' /\ AtWork' BY <1>0, <1>1, <1>3, <2>2, QueuedRows
    <2> QED BY <1>0, <1>2, <2>5, <2>6, <2>7 DEF TypeInv, TypeOK, Rows
  <1> QED BY <1>4, <1>5

(* The pages of a space go together. *)
LEMMA SpaceGone ==
  ASSUME page \in [Pages -> [exists : BOOLEAN, version : Versions, text : Versions]],
         NEW P \in SUBSET Pages, DeleteSpace(P)
  PROVE  /\ page' \in [Pages -> [exists : BOOLEAN, version : Versions, text : Versions]]
         /\ \A x \in P : page[x].exists /\ ~page'[x].exists /\ page'[x].text = 0
         /\ \A x \in Pages \ P : page'[x] = page[x]
         /\ \A x \in Pages : page'[x].version = page[x].version
         /\ dropped' = dropped \cup P
         /\ UNCHANGED <<weather, state, tasks, index, consumer, editor, scanner, lost>>
  <1> DEFINE gone(x) == [page[x] EXCEPT !.exists = FALSE, !.text = 0]
  <1>1. page' = [x \in Pages |-> IF x \in P THEN gone(x) ELSE page[x]] BY DEF DeleteSpace
  <1>2. 0 \in Versions BY IngestAssumption DEF Versions
  <1>3. \A x \in Pages :
          /\ gone(x) \in [exists : BOOLEAN, version : Versions, text : Versions]
          /\ ~gone(x).exists /\ gone(x).text = 0 /\ gone(x).version = page[x].version
    <2> TAKE x \in Pages
    <2>1. page[x] \in [exists : BOOLEAN, version : Versions, text : Versions] OBVIOUS
    <2> QED BY <1>2, <2>1
  <1> HIDE DEF gone
  <1>4. page' \in [Pages -> [exists : BOOLEAN, version : Versions, text : Versions]]
    BY <1>1, <1>3
  <1>5. \A x \in Pages : page'[x] = IF x \in P THEN gone(x) ELSE page[x] BY <1>1
  <1> QED BY <1>3, <1>4, <1>5 DEF DeleteSpace

LEMMA TypeStep == TypeInv /\ [Next]_vars => TypeInv'
  <1> SUFFICES ASSUME TypeInv, [Next]_vars PROVE TypeInv'
    OBVIOUS
  <1>0. /\ page \in [Pages -> [exists : BOOLEAN, version : Versions, text : Versions]]
        /\ state \in [Pages -> StateRow] /\ editor \in [page : Pages \cup {NoPage}, copy : StateRow]
        /\ scanner \in [page : Pages \cup {NoPage}, version : Versions, queue : BOOLEAN]
        /\ Rows /\ AtWork /\ lost \subseteq Pages
    BY DEF TypeInv, TypeOK
  <1>1. 0 \in Versions /\ NoState \in StateRow
    BY IngestAssumption DEF NoState, StateRow, Versions
  <1>2. CASE UNCHANGED vars
    BY <1>2 DEF vars, TypeInv, TypeOK, Rows, AtWork, Held
  <1>3. ASSUME NEW p \in Pages, SaveRead(p) PROVE TypeInv'
    <2>1. /\ UNCHANGED <<weather, page, state, tasks, index, consumer, scanner, lost, dropped>>
          /\ editor' = [page |-> p, copy |-> state[p]] /\ page[p].version < MaxVersion
      BY <1>3 DEF SaveRead
    <2> QED BY <1>0, <2>1 DEF TypeInv, TypeOK, Rows, AtWork, Held
  <1>4. ASSUME NEW p \in Pages, DeletePage(p) PROVE TypeInv'
    <2>1. /\ UNCHANGED <<weather, state, index, consumer, editor, scanner, lost, dropped>>
          /\ page' = [page EXCEPT ![p].exists = FALSE, ![p].text = 0]
          /\ tasks' = Append(tasks, NewTask(p, "DELETE", 0))
      BY <1>4 DEF DeletePage
    <2>2. page[p] \in [exists : BOOLEAN, version : Versions, text : Versions] BY <1>0
    <2>3. page' = [page EXCEPT ![p] = [page[p] EXCEPT !.exists = FALSE, !.text = 0]]
      BY <1>0, <2>1
    <2>4. [page[p] EXCEPT !.exists = FALSE, !.text = 0] \in [exists : BOOLEAN, version : Versions, text : Versions]
          /\ [page[p] EXCEPT !.exists = FALSE, !.text = 0].version = page[p].version
      BY <1>1, <2>2
    <2>5. page' \in [Pages -> [exists : BOOLEAN, version : Versions, text : Versions]]
          /\ \A x \in Pages : page'[x].version = page[x].version
      BY <1>0, <2>3, <2>4
    <2>6. Rows' /\ AtWork' BY <1>0, <1>1, <2>1, QueuedRows
    <2> QED BY <1>0, <2>1, <2>5, <2>6 DEF TypeInv, TypeOK, Rows
  <1>5. ASSUME NEW p \in Pages, ScanRead(p) PROVE TypeInv'
    <2> DEFINE q == \A i \in DOMAIN tasks : ~(tasks[i].page = p /\ tasks[i].status = "PENDING")
               v == IF page[p].exists THEN page[p].version ELSE 0
    <2>1. /\ UNCHANGED <<weather, page, state, tasks, index, consumer, editor, lost, dropped>>
          /\ scanner' = [page |-> p, version |-> v, queue |-> q]
      BY <1>5 DEF ScanRead
    <2>2. v \in Versions BY <1>0, <1>1
    <2>3. q \in BOOLEAN OBVIOUS
    <2> HIDE DEF q, v
    <2>4. scanner' \in [page : Pages \cup {NoPage}, version : Versions, queue : BOOLEAN]
      BY <2>1, <2>2, <2>3
    <2> QED BY <2>1, <2>4 DEF TypeInv, TypeOK, Rows, AtWork, Held
  <1>6. CASE ScanCommit
    <2> DEFINE p == scanner.page
    <2>1. /\ UNCHANGED <<weather, page, index, consumer, editor, lost, dropped>> /\ scanner' = NoScanner
          /\ p \in Pages /\ scanner.version \in Versions
      BY <1>0, <1>6 DEF ScanCommit
    <2>2. \/ UNCHANGED tasks
          \/ tasks' = Append(tasks, NewTask(p, "UPSERT", scanner.version))
      BY <1>6 DEF ScanCommit
    <2>3. state' \in [Pages -> StateRow] BY <1>0, <1>1, <1>6 DEF ScanCommit
    <2>4. scanner' \in [page : Pages \cup {NoPage}, version : Versions, queue : BOOLEAN]
      BY <1>1, <2>1 DEF NoScanner
    <2>5. Rows' /\ AtWork'
      <3>1. CASE UNCHANGED tasks BY <1>0, <2>1, <3>1 DEF Rows, AtWork, Held
      <3>2. CASE ~UNCHANGED tasks BY <1>0, <2>1, <2>2, <3>2, QueuedRows
      <3> QED BY <3>1, <3>2
    <2> QED BY <1>0, <2>1, <2>3, <2>4, <2>5 DEF TypeInv, TypeOK, Rows
  <1>7. ASSUME NEW held \in BOOLEAN, Polled(held),
               \/ held /\ consumer' = [Resting EXCEPT !.at = "start"]
               \/ ~held /\ UNCHANGED consumer
        PROVE  TypeInv'
    <2>1. /\ UNCHANGED <<weather, page, editor, scanner, state, index, dropped>> /\ consumer.at = "idle"
      BY <1>7 DEF Polled, At
    <2>2. Rows' /\ lost' \subseteq Pages /\ (held => Held' # {})
      BY <1>0, <1>7, PollTakes
    <2>3. AtWork' BY <1>7, <2>1, <2>2 DEF AtWork
    <2>4. consumer' \in [at : {"idle", "start", "ingest", "insert", "ack", "acking", "nack", "nacking"},
                         text : Versions, copy : StateRow]
      BY <1>1, <1>7 DEF TypeInv, TypeOK, Resting
    <2> QED BY <2>1, <2>2, <2>3, <2>4 DEF TypeInv, TypeOK, Rows
  <1>8. CASE Restart
    <2> DEFINE row(i) == [tasks[i] EXCEPT !.held = FALSE]
               table == [i \in DOMAIN tasks |-> row(i)]
    <2>1. UNCHANGED <<weather, page, state, index, editor, scanner, dropped>> /\ consumer' = Resting /\ Store(table)
      BY <1>8 DEF Restart
    <2>2. tasks \in Seq(Task) /\ DOMAIN tasks = 1..Len(tasks) /\ Len(tasks) \in Nat BY <1>0 DEF Rows
    <2>3. \A i \in DOMAIN tasks : row(i) \in Task /\ row(i).retry = tasks[i].retry
      <3> TAKE i \in DOMAIN tasks
      <3>1. tasks[i] \in Task BY <2>2
      <3> QED BY <3>1 DEF Task
    <2> HIDE DEF row
    <2>4. table \in [1..Len(tasks) -> Task] BY <2>2, <2>3
    <2>5. table \in Seq(Task) BY <2>2, <2>4
    <2>6. \A i \in DOMAIN table : table[i].retry < RetryMax
      <3>1. \A i \in DOMAIN tasks : tasks[i].retry < RetryMax BY <1>0 DEF Rows
      <3>2. \A i \in DOMAIN table : i \in DOMAIN tasks /\ table[i] = row(i) OBVIOUS
      <3> QED BY <2>3, <3>1, <3>2
    <2> HIDE DEF table
    <2>7. Rows' /\ lost' \subseteq Pages
      <3>1. /\ tasks' \in Seq(Task) /\ (lost \subseteq Pages => lost' \subseteq Pages)
            /\ \A k \in DOMAIN tasks' : \E i \in DOMAIN table : tasks'[k] = table[i]
        BY <2>1, <2>5, Stored
      <3>2. \A k \in DOMAIN tasks' : tasks'[k].retry < RetryMax BY <2>6, <3>1
      <3> QED BY <1>0, <3>1, <3>2 DEF Rows
    <2>8. consumer' \in [at : {"idle", "start", "ingest", "insert", "ack", "acking", "nack", "nacking"},
                         text : Versions, copy : StateRow] /\ consumer'.at = "idle"
      BY <1>1, <2>1 DEF Resting
    <2> QED BY <2>1, <2>7, <2>8 DEF TypeInv, TypeOK, Rows, AtWork
  <1>9. ASSUME NEW P \in SUBSET Pages, DeleteSpace(P) PROVE TypeInv'
    <2>1. /\ UNCHANGED <<weather, state, tasks, index, consumer, editor, scanner, lost>>
          /\ page' \in [Pages -> [exists : BOOLEAN, version : Versions, text : Versions]]
          /\ \A x \in Pages : page'[x].version = page[x].version
          /\ dropped' = dropped \cup P
      BY <1>0, <1>9, SpaceGone
    <2>2. Rows' /\ AtWork' BY <1>0, <2>1 DEF Rows, AtWork, Held
    <2> QED BY <1>0, <2>1, <2>2 DEF TypeInv, TypeOK, Rows
  <1> QED BY <1>2, <1>3, <1>4, <1>5, <1>6, <1>7, <1>8, <1>9, SaveType, WorkType DEF Next, Poll, PollLost

LEMMA TypeInit == Init => TypeInv
  <1> SUFFICES ASSUME Init PROVE TypeInv
    OBVIOUS
  <1>1. 0 \in Versions /\ NoState \in StateRow
    BY IngestAssumption DEF NoState, StateRow, Versions
  <1>2. tasks \in Seq(Task) /\ DOMAIN tasks = {} BY DEF Init
  <1>3. consumer \in [at : {"idle", "start", "ingest", "insert", "ack", "acking", "nack", "nacking"},
                      text : Versions, copy : StateRow] /\ consumer.at = "idle"
    BY <1>1 DEF Init, Resting
  <1>4. editor \in [page : Pages \cup {NoPage}, copy : StateRow] /\ editor.page = NoPage
        /\ scanner \in [page : Pages \cup {NoPage}, version : Versions, queue : BOOLEAN]
    BY <1>1 DEF Init, NoEditor, NoScanner
  <1> QED BY <1>1, <1>2, <1>3, <1>4 DEF Init, TypeInv, TypeOK, Rows, AtWork

LEMMA TypeAlways == Spec => []TypeInv
  BY TypeInit, TypeStep, PTL DEF Spec

(* Rows, tasks and processes keep their shape for any number of pages,      *)
(* versions and tries and all faults together; no task is tried more often  *)
(* than RetryMax.                                                           *)
THEOREM Typed == Spec => []TypeOK
  <1>1. TypeInv => TypeOK BY DEF TypeInv
  <1> QED BY <1>1, TypeAlways, PTL

-----------------------------------------------------------------------------
(* Deletions.  DeletionIsPending is not inductive: every row of the table   *)
(* is one to keep, a text on its way into the index is of a page that is    *)
(* there or is still to be removed, a removal that gets acknowledged has    *)
(* left nothing in the index, and one that gets a nack has met a fault.     *)

Doomed(p) == \E i \in DOMAIN tasks : tasks[i].page = p /\ tasks[i].op = "DELETE"

GivenUp(p) == p \in lost /\ RemovalsMayFail

Owed(p) == page[p].exists \/ p \in dropped \/ GivenUp(p) \/ Doomed(p)

AllKept == \A i \in DOMAIN tasks : Keeps(tasks[i])

GoneIsBlank == \A p \in Pages : page[p].exists \/ page[p].text = 0

TextIsOwed ==
  consumer.at \in {"ingest", "insert"} =>
    tasks[Current].op = "UPSERT" /\ Owed(tasks[Current].page)

Removed(r) == r.op = "DELETE" => index[r.page] = 0

AckedIsRemoved == consumer.at \in {"ack", "acking"} => Removed(tasks[Current])

DoneIsCurrent ==
  \A i \in DOMAIN tasks : tasks[i].status = "DONE" =>
    consumer.at \in {"nack", "nacking"} /\ i = Current /\ Removed(tasks[i])

NackHasFault ==
  consumer.at \in {"nack", "nacking"} => RemovalsMayFail \/ tasks[Current].op = "UPSERT"

IndexIsOwed == \A p \in Pages : index[p] = 0 \/ Owed(p)

Deletion == /\ TypeInv /\ AllKept /\ GoneIsBlank
            /\ TextIsOwed /\ AckedIsRemoved /\ DoneIsCurrent /\ NackHasFault /\ IndexIsOwed

(* A row at work is a row of the table. *)
LEMMA Busy ==
  ASSUME TypeInv, consumer.at # "idle"
  PROVE  /\ Held # {} /\ Current \in DOMAIN tasks /\ tasks[Current] \in Task /\ tasks[Current].held
         /\ tasks[Current].page \in Pages /\ tasks[Current].op \in {"UPSERT", "DELETE"}
  <1>1. tasks \in Seq(Task) /\ Held # {} BY DEF TypeInv, Rows, AtWork
  <1>2. Current \in DOMAIN tasks /\ tasks[Current] \in Task /\ tasks[Current].held
    BY <1>1, CurrentHeld
  <1>3. tasks[Current].page \in Pages /\ tasks[Current].op \in {"UPSERT", "DELETE"}
    BY <1>2 DEF Task
  <1> QED BY <1>1, <1>2, <1>3

(* A row is queued; a page that goes away is queued for its removal. *)
LEMMA DeletionQueued ==
  ASSUME Deletion, TypeInv', UNCHANGED <<weather, consumer, index, lost, dropped>>,
         NEW p \in Pages, NEW op \in {"UPSERT", "DELETE"}, NEW v \in Versions,
         tasks' = Append(tasks, NewTask(p, op, v)), GoneIsBlank',
         \A x \in Pages : page[x].exists => page'[x].exists \/ (x = p /\ op = "DELETE")
  PROVE  Deletion'
  <1> DEFINE n == Len(tasks) + 1
  <1>1. NewTask(p, op, v) \in Task /\ ~NewTask(p, op, v).held BY NewTaskType
  <1>2. /\ NewTask(p, op, v).page = p /\ NewTask(p, op, v).op = op
        /\ NewTask(p, op, v).status = "PENDING"
    BY DEF NewTask
  <1>3. tasks \in Seq(Task) BY DEF Deletion, TypeInv, Rows
  <1>4. /\ Held' = Held /\ DOMAIN tasks' = DOMAIN tasks \cup {n} /\ tasks'[n] = NewTask(p, op, v)
        /\ \A i \in DOMAIN tasks : tasks'[i] = tasks[i]
    BY <1>1, <1>3, Appended
  <1> HIDE DEF n
  <1>5. Current' = Current BY <1>4, SameCurrent
  <1>6. \A x \in Pages : Doomed(x) => Doomed(x)' BY <1>4 DEF Doomed
  <1>7. op = "DELETE" => Doomed(p)' BY <1>2, <1>4 DEF Doomed
  <1>8. \A x \in Pages : Owed(x) => Owed(x)'
    BY <1>6, <1>7 DEF Owed, GivenUp, RemovalsMayFail
  <1>9. consumer.at # "idle" =>
          /\ tasks[Current].page \in Pages /\ tasks'[Current'] = tasks[Current]
    BY <1>4, <1>5, Busy DEF Deletion
  <1>10. AllKept' BY <1>2, <1>4 DEF Deletion, AllKept, Keeps
  <1>11. TextIsOwed' BY <1>8, <1>9 DEF Deletion, TextIsOwed
  <1>12. AckedIsRemoved' BY <1>9 DEF Deletion, AckedIsRemoved, Removed
  <1>13. DoneIsCurrent' BY <1>2, <1>4, <1>5 DEF Deletion, DoneIsCurrent, Removed
  <1>14. IndexIsOwed' BY <1>8 DEF Deletion, IndexIsOwed
  <1>15. NackHasFault' BY <1>9 DEF Deletion, NackHasFault, RemovalsMayFail
  <1> QED BY <1>10, <1>11, <1>12, <1>13, <1>14, <1>15 DEF Deletion

(* The consumer ends its work on a row or takes up rows: a removal that     *)
(* leaves the table is lost or has been done.                               *)
LEMMA DeletionRests ==
  ASSUME Deletion, TypeInv', UNCHANGED <<weather, page, index, dropped>>, lost \subseteq lost',
         consumer'.at \in {"idle", "start"}, AllKept',
         \A k \in DOMAIN tasks' : tasks'[k].status # "DONE",
         \A i \in DOMAIN tasks : tasks[i].op = "DELETE" =>
           \/ tasks[i].page \in lost' /\ RemovalsMayFail
           \/ index[tasks[i].page] = 0
           \/ \E k \in DOMAIN tasks' : tasks'[k].page = tasks[i].page /\ tasks'[k].op = "DELETE"
  PROVE  Deletion'
  <1>1. \A p \in Pages : Doomed(p) => GivenUp(p)' \/ index[p] = 0 \/ Doomed(p)'
    BY DEF Doomed, GivenUp, RemovalsMayFail
  <1>6. \A p \in Pages : GivenUp(p) => GivenUp(p)' BY DEF GivenUp, RemovalsMayFail
  <1>2. IndexIsOwed' BY <1>1, <1>6 DEF Deletion, IndexIsOwed, Owed
  <1>3. GoneIsBlank' BY DEF Deletion, GoneIsBlank
  <1>4. TextIsOwed' /\ AckedIsRemoved' BY DEF TextIsOwed, AckedIsRemoved
  <1>5. DoneIsCurrent' /\ NackHasFault' BY DEF DoneIsCurrent, NackHasFault
  <1> QED BY <1>2, <1>3, <1>4, <1>5 DEF Deletion

LEMMA DeletionWork ==
  ASSUME Deletion, TypeInv', Work
  PROVE  Deletion'
  <1> DEFINE r == tasks[Current]
  <1>0. consumer.at # "idle" /\ UNCHANGED <<weather, page, editor, scanner, dropped>>
    BY DEF Work, FetchText, FetchFails, Remove, IngestRemove, Insert, InsertFails, AnswerRead,
           Ack, AckAnswerLost, AckRefused, AckNotSent, Nack, NackLost, At
  <1>1. /\ Held # {} /\ Current \in DOMAIN tasks /\ r \in Task /\ r.held
        /\ r.page \in Pages /\ r.op \in {"UPSERT", "DELETE"}
    BY <1>0, Busy DEF Deletion
  <1>2. /\ tasks \in Seq(Task) /\ index \in [Pages -> Versions] /\ lost \subseteq Pages
        /\ consumer = [at |-> consumer.at, text |-> consumer.text, copy |-> consumer.copy]
    BY DEF Deletion, TypeInv, TypeOK, Rows
  <1>3. \A place : Go(place) => consumer'.at = place BY <1>2 DEF Go
  <1>4. GoneIsBlank' BY <1>0 DEF Deletion, GoneIsBlank
  <1> HIDE DEF r
  (* The steps that leave the rows alone.                                   *)
  <1>5. ASSUME UNCHANGED <<tasks, lost>>,
               \/ consumer.at \notin {"nack", "nacking"}
               \/ consumer'.at = "nacking" /\ UNCHANGED index,
               consumer'.at \in {"ingest", "insert"} => r.op = "UPSERT" /\ Owed(r.page),
               consumer'.at \in {"ack", "acking"} /\ r.op = "DELETE" => index'[r.page] = 0,
               consumer'.at \in {"nack", "nacking"} =>
                 RemovalsMayFail \/ r.op = "UPSERT" \/ consumer.at \in {"nack", "nacking"},
               \A p \in Pages : index'[p] = 0 \/ index'[p] = index[p] \/ Owed(p)
        PROVE  Deletion'
    <2>1. Current' = Current /\ tasks'[Current'] = r BY <1>5, SameCurrent DEF Held, r
    <2>2. \A p \in Pages : Owed(p)' <=> Owed(p)
      BY <1>0, <1>5 DEF Owed, Doomed, GivenUp, RemovalsMayFail
    <2>8. NackHasFault' BY <1>0, <1>5, <2>1 DEF Deletion, NackHasFault, RemovalsMayFail, r
    <2>3. AllKept' BY <1>5 DEF Deletion, AllKept
    <2>4. TextIsOwed' BY <1>1, <1>5, <2>1, <2>2 DEF TextIsOwed
    <2>5. AckedIsRemoved' BY <1>5, <2>1 DEF AckedIsRemoved, Removed
    <2>6. DoneIsCurrent' BY <1>5, <2>1 DEF Deletion, DoneIsCurrent, Removed
    <2>7. IndexIsOwed' BY <1>5, <2>2 DEF Deletion, IndexIsOwed
    <2> QED BY <1>4, <2>3, <2>4, <2>5, <2>6, <2>7, <2>8 DEF Deletion
  <1>6. CASE FetchText
    <2>1. UNCHANGED <<tasks, index, lost>> /\ consumer.at = "start" /\ r.op = "UPSERT"
      BY <1>6 DEF FetchText, At, r
    <2>2. consumer'.at = "ack" \/ (consumer'.at = "ingest" /\ page[r.page].text # 0)
      BY <1>2, <1>6 DEF FetchText, r
    <2>3. page[r.page].text # 0 => Owed(r.page) BY <1>1 DEF Deletion, GoneIsBlank, Owed
    <2> QED BY <1>5, <2>1, <2>2, <2>3
  <1>7. CASE FetchFails
    <2>1. /\ UNCHANGED <<tasks, index, lost>> /\ consumer.at = "start" /\ r.op = "UPSERT"
          /\ consumer'.at \in {"ack", "nack"}
      BY <1>3, <1>7 DEF FetchFails, At, r
    <2> QED BY <1>5, <2>1
  <1>8. CASE Remove
    <2>1. UNCHANGED <<tasks, lost>> /\ consumer.at = "start"
          /\ \/ consumer'.at = "ack" /\ index' = [index EXCEPT ![r.page] = 0]
             \/ consumer'.at = "nack" /\ UNCHANGED index /\ RemovalsMayFail
      BY <1>3, <1>8 DEF Remove, At, RemovalsMayFail, r
    <2>2. CASE index' = [index EXCEPT ![r.page] = 0] /\ consumer'.at = "ack"
      <3>1. index'[r.page] = 0 /\ \A p \in Pages : index'[p] = 0 \/ index'[p] = index[p]
        BY <1>1, <1>2, <2>2
      <3> QED BY <1>5, <2>1, <2>2, <3>1
    <2>3. CASE consumer'.at = "nack" /\ UNCHANGED index /\ RemovalsMayFail BY <1>5, <2>1, <2>3
    <2> QED BY <2>1, <2>2, <2>3
  <1>9. CASE IngestRemove \/ Insert \/ InsertFails
    <2>1. /\ UNCHANGED <<tasks, lost>> /\ consumer.at \in {"ingest", "insert"}
          /\ consumer'.at \in {"insert", "ack", "nack"}
          /\ (UNCHANGED index \/ \E v : index' = [index EXCEPT ![r.page] = v])
      BY <1>3, <1>9 DEF IngestRemove, Insert, InsertFails, At, r
    <2>2. r.op = "UPSERT" /\ Owed(r.page) BY <2>1 DEF Deletion, TextIsOwed, r
    <2>3. \A p \in Pages : p = r.page \/ index'[p] = index[p] BY <1>1, <1>2, <2>1
    <2> QED BY <1>5, <2>1, <2>2, <2>3
  <1>10. CASE AnswerRead
    <2>1. /\ UNCHANGED <<tasks, index, lost>>
          /\ \/ consumer.at = "ack" /\ consumer'.at = "acking"
             \/ consumer.at = "nack" /\ consumer'.at = "nacking"
      BY <1>2, <1>10 DEF AnswerRead, At
    <2>2. consumer.at = "ack" /\ r.op = "DELETE" => index[r.page] = 0
      BY DEF Deletion, AckedIsRemoved, Removed, r
    <2> QED BY <1>5, <2>1, <2>2
  <1>11. CASE AckNotSent
    <2>1. UNCHANGED <<tasks, index, lost>> /\ consumer.at = "acking" /\ consumer'.at = "nack"
          /\ RemovalsMayFail
      BY <1>3, <1>11 DEF AckNotSent, At, RemovalsMayFail
    <2> QED BY <1>5, <2>1
  (* The backend has acknowledged and the consumer does not know.           *)
  <1>12. CASE AckAnswerLost
    <2> DEFINE x == [r EXCEPT !.status = "DONE"]
    <2>1. x \in Task /\ x.page = r.page /\ x.op = r.op /\ x.held = r.held /\ x.status = "DONE"
      BY <1>1 DEF Task
    <2>2. /\ tasks' = [tasks EXCEPT ![Current] = x] /\ UNCHANGED <<index, lost>>
          /\ consumer.at = "acking" /\ consumer'.at = "nack" /\ RemovalsMayFail
      BY <1>1, <1>3, <1>12 DEF AckAnswerLost, At, RemovalsMayFail, r
    <2> HIDE DEF x
    <2>3. /\ DOMAIN tasks' = DOMAIN tasks /\ tasks'[Current] = x
          /\ \A i \in DOMAIN tasks \ {Current} : tasks'[i] = tasks[i]
      BY <1>1, <1>2, <2>1, <2>2
    <2>4. Held' = Held
      <3>1. \A i : i \in Held' <=> i \in Held BY <1>1, <2>1, <2>3 DEF Held, r
      <3> QED BY <3>1
    <2>5. Current' = Current BY <2>4, SameCurrent
    <2>6. \A p \in Pages : Owed(p) => Owed(p)'
      <3>1. \A p \in Pages : Doomed(p) => Doomed(p)' BY <1>1, <2>1, <2>3 DEF Doomed, r
      <3> QED BY <1>0, <2>2, <3>1 DEF Owed, GivenUp, RemovalsMayFail
    <2>7. AllKept'
      <3>1. \A i \in DOMAIN tasks : Keeps(tasks[i]) BY DEF Deletion, AllKept
      <3>2. Keeps(x) BY <1>1, <2>1 DEF Keeps
      <3>3. \A i \in DOMAIN tasks' : Keeps(tasks'[i]) BY <1>1, <2>3, <3>1, <3>2
      <3> QED BY <3>3 DEF AllKept, Keeps
    <2>8. TextIsOwed' /\ AckedIsRemoved' BY <2>2 DEF TextIsOwed, AckedIsRemoved
    <2>9. Removed(r) BY <2>2 DEF Deletion, AckedIsRemoved, r
    <2>10. \A i \in DOMAIN tasks : tasks[i].status # "DONE"
      BY <2>2 DEF Deletion, DoneIsCurrent
    <2>11. DoneIsCurrent' BY <2>1, <2>2, <2>3, <2>5, <2>9, <2>10 DEF DoneIsCurrent, Removed
    <2>12. IndexIsOwed' BY <2>2, <2>6 DEF Deletion, IndexIsOwed
    <2>13. NackHasFault' BY <1>0, <2>2 DEF NackHasFault, RemovalsMayFail
    <2> QED BY <1>4, <2>7, <2>8, <2>11, <2>12, <2>13 DEF Deletion
  (* The steps that end the work on the row.                                *)
  <1>13. ASSUME NEW x \in Task, Finish(x), UNCHANGED index, x.page = r.page, x.op = r.op,
                x.status = "DONE" => Removed(r), RemovalsMayFail \/ Removed(r)
         PROVE  Deletion'
    <2>1. /\ \A k \in DOMAIN tasks' :
              \/ \E i \in DOMAIN tasks \ {Current} : Keeps(tasks[i]) /\ tasks'[k] = tasks[i]
              \/ tasks'[k] = [x EXCEPT !.held = FALSE] /\ x.status = "PENDING"
          /\ \A i \in DOMAIN tasks \ {Current} : Keeps(tasks[i]) =>
               \E k \in DOMAIN tasks' : tasks'[k] = tasks[i]
          /\ lost \subseteq lost' /\ consumer'.at \in {"idle", "start"}
      BY <1>1, <1>2, <1>13, Finished
    <2>2. x.op = "DELETE" =>
            \/ x.status = "DONE" \/ x.page \in lost'
            \/ x.status = "PENDING" /\ \E k \in DOMAIN tasks' : tasks'[k] = [x EXCEPT !.held = FALSE]
      BY <1>1, <1>2, <1>13, Finished
    <2>3. [x EXCEPT !.held = FALSE].status = x.status /\ [x EXCEPT !.held = FALSE].page = x.page
          /\ [x EXCEPT !.held = FALSE].op = x.op
      BY DEF Task
    <2>4. AllKept' BY <2>1, <2>3 DEF AllKept, Keeps
    <2>5. \A i \in DOMAIN tasks \ {Current} : tasks[i].status # "DONE" /\ Keeps(tasks[i])
      BY DEF Deletion, DoneIsCurrent, AllKept
    <2>6. \A k \in DOMAIN tasks' : tasks'[k].status # "DONE" BY <2>1, <2>3, <2>5
    <2>7. r.op = "DELETE" =>
            \/ r.page \in lost' /\ RemovalsMayFail
            \/ index[r.page] = 0
            \/ \E k \in DOMAIN tasks' : tasks'[k].page = r.page /\ tasks'[k].op = "DELETE"
      BY <1>0, <1>13, <2>2, <2>3 DEF Removed
    <2>8. \A i \in DOMAIN tasks : tasks[i].op = "DELETE" =>
            \/ tasks[i].page \in lost' /\ RemovalsMayFail
           \/ index[tasks[i].page] = 0
            \/ \E k \in DOMAIN tasks' : tasks'[k].page = tasks[i].page /\ tasks'[k].op = "DELETE"
      <3> SUFFICES ASSUME NEW i \in DOMAIN tasks, tasks[i].op = "DELETE"
                   PROVE  \/ tasks[i].page \in lost' /\ RemovalsMayFail
                          \/ index[tasks[i].page] = 0
                          \/ \E k \in DOMAIN tasks' : tasks'[k].page = tasks[i].page /\ tasks'[k].op = "DELETE"
        OBVIOUS
      <3>1. CASE i = Current BY <2>7, <3>1 DEF r
      <3>2. CASE i # Current BY <2>1, <2>5, <3>2
      <3> QED BY <3>1, <3>2
    <2> QED BY <1>0, <1>13, <2>1, <2>4, <2>6, <2>8, DeletionRests
  <1>14. CASE Ack
    <2> DEFINE x == [r EXCEPT !.status = "DONE"]
    <2>1. x \in Task /\ x.page = r.page /\ x.op = r.op BY <1>1 DEF Task
    <2>2. Finish(x) /\ UNCHANGED index /\ consumer.at = "acking" BY <1>14 DEF Ack, At, r
    <2>3. Removed(r) BY <2>2 DEF Deletion, AckedIsRemoved, r
    <2> HIDE DEF x
    <2> QED BY <1>13, <2>1, <2>2, <2>3
  <1>15. CASE AckRefused \/ NackLost
    <2>1. Finish(r) /\ UNCHANGED index BY <1>15 DEF AckRefused, NackLost, r
    <2>2. r.status = "DONE" => Removed(r) BY <1>1 DEF Deletion, DoneIsCurrent, r
    <2>3. RemovalsMayFail \/ Removed(r)
      <3>1. CASE AckRefused BY <3>1 DEF AckRefused, At, Deletion, AckedIsRemoved, r
      <3>2. CASE NackLost BY <3>2 DEF NackLost, At, Deletion, NackHasFault, Removed, r
      <3> QED BY <1>15, <3>1, <3>2
    <2> QED BY <1>1, <1>13, <2>1, <2>2, <2>3
  <1>16. CASE Nack
    <2>1. Nacked(r) \in Task
      <3>1. r.retry \in 0..RetryMax BY <1>1 DEF Task
      <3>2. r.retry < RetryMax BY <1>1 DEF Deletion, TypeInv, Rows, r
      <3>3. r.retry + 1 \in 0..RetryMax BY <3>1, <3>2, IngestAssumption
      <3> QED BY <1>1, <3>3 DEF Nacked, Task
    <2>2. Nacked(r).page = r.page /\ Nacked(r).op = r.op /\ Nacked(r).status \in {"DEAD", "PENDING"}
      BY <1>1 DEF Nacked, Task
    <2>3. Finish(Nacked(r)) /\ UNCHANGED index /\ consumer.at = "nacking" BY <1>16 DEF Nack, At, r
    <2>4. RemovalsMayFail \/ Removed(r) BY <2>3 DEF Deletion, NackHasFault, Removed, r
    <2> QED BY <1>13, <2>1, <2>2, <2>3, <2>4
  <1> QED BY <1>6, <1>7, <1>8, <1>9, <1>10, <1>11, <1>12, <1>14, <1>15, <1>16 DEF Work

LEMMA DeletionStep == Deletion /\ [Next]_vars => Deletion'
  <1> SUFFICES ASSUME Deletion, [Next]_vars PROVE Deletion'
    OBVIOUS
  <1>0. TypeInv' BY TypeStep DEF Deletion
  <1>1. /\ page \in [Pages -> [exists : BOOLEAN, version : Versions, text : Versions]]
        /\ tasks \in Seq(Task) /\ lost \subseteq Pages /\ Rows
        /\ scanner \in [page : Pages \cup {NoPage}, version : Versions, queue : BOOLEAN]
    BY DEF Deletion, TypeInv, TypeOK, Rows
  <1>2. ASSUME UNCHANGED <<weather, page, tasks, index, consumer, lost, dropped>> PROVE Deletion'
    <2>1. Current' = Current BY <1>2, SameCurrent DEF Held
    <2>2. \A p \in Pages : Owed(p)' <=> Owed(p) BY <1>2 DEF Owed, Doomed, GivenUp, RemovalsMayFail
    <2>9. NackHasFault' BY <1>2, <2>1 DEF Deletion, NackHasFault, RemovalsMayFail
    <2>3. consumer.at # "idle" => tasks[Current].page \in Pages BY Busy DEF Deletion
    <2>4. AllKept' /\ GoneIsBlank' BY <1>2 DEF Deletion, AllKept, GoneIsBlank
    <2>5. TextIsOwed' BY <1>2, <2>1, <2>2, <2>3 DEF Deletion, TextIsOwed
    <2>6. AckedIsRemoved' BY <1>2, <2>1 DEF Deletion, AckedIsRemoved, Removed
    <2>7. DoneIsCurrent' BY <1>2, <2>1 DEF Deletion, DoneIsCurrent, Removed
    <2>8. IndexIsOwed' BY <1>2, <2>2 DEF Deletion, IndexIsOwed
    <2> QED BY <1>0, <2>4, <2>5, <2>6, <2>7, <2>8, <2>9 DEF Deletion
  <1>3. CASE UNCHANGED vars BY <1>2, <1>3 DEF vars
  <1>4. ASSUME NEW p \in Pages, SaveRead(p) \/ ScanRead(p) PROVE Deletion'
    BY <1>2, <1>4 DEF SaveRead, ScanRead
  <1>5. CASE SaveCommit
    <2> DEFINE p == editor.page  v == page[p].version + 1
    <2>1. UNCHANGED <<weather, index, consumer, lost, dropped>> /\ p \in Pages
      BY <1>5 DEF SaveCommit, Deletion, TypeInv, TypeOK
    <2>2. CASE UNCHANGED <<page, tasks>> BY <1>2, <2>1, <2>2
    <2>3. CASE ~UNCHANGED <<page, tasks>>
      <3>1. PICK text \in {v, 0} : page' = [page EXCEPT ![p] = [exists |-> TRUE, version |-> v, text |-> text]]
        BY <1>5, <2>3 DEF SaveCommit
      <3>2. tasks' = Append(tasks, NewTask(p, "UPSERT", v)) BY <1>5, <2>3 DEF SaveCommit
      <3>3. v \in Versions
        <4>1. page[p].version \in Versions /\ page[p].version < MaxVersion
          BY <1>1, <1>5, <2>1 DEF Deletion, TypeInv, SaveCommit
        <4> QED BY <4>1, VersionUp
      <3> HIDE DEF v
      <3>4. page'[p].exists /\ \A x \in Pages : x # p => page'[x] = page[x] BY <1>1, <2>1, <3>1
      <3>5. GoneIsBlank' BY <3>4 DEF Deletion, GoneIsBlank
      <3>6. \A x \in Pages : page[x].exists => page'[x].exists BY <3>4
      <3> QED BY <1>0, <2>1, <3>2, <3>3, <3>5, <3>6, DeletionQueued
    <2> QED BY <2>2, <2>3
  <1>6. ASSUME NEW p \in Pages, DeletePage(p) PROVE Deletion'
    <2>1. /\ UNCHANGED <<weather, index, consumer, lost, dropped>> /\ tasks' = Append(tasks, NewTask(p, "DELETE", 0))
          /\ page' = [page EXCEPT ![p].exists = FALSE, ![p].text = 0]
      BY <1>6 DEF DeletePage
    <2>2. page'[p].text = 0 /\ \A x \in Pages : x # p => page'[x] = page[x] BY <1>1, <2>1
    <2>3. GoneIsBlank' BY <2>2 DEF Deletion, GoneIsBlank
    <2>4. 0 \in Versions BY IngestAssumption DEF Versions
    <2>5. \A x \in Pages : page[x].exists => page'[x].exists \/ x = p BY <2>2
    <2> QED BY <1>0, <2>1, <2>3, <2>4, <2>5, DeletionQueued
  <1>7. CASE ScanCommit
    <2>1. UNCHANGED <<weather, page, index, consumer, lost, dropped>> /\ scanner.page \in Pages /\ scanner.version \in Versions
      BY <1>1, <1>7 DEF ScanCommit
    <2>2. UNCHANGED tasks \/ tasks' = Append(tasks, NewTask(scanner.page, "UPSERT", scanner.version))
      BY <1>7 DEF ScanCommit
    <2>3. GoneIsBlank' BY <2>1 DEF Deletion, GoneIsBlank
    <2>4. CASE UNCHANGED tasks BY <1>2, <2>1, <2>4
    <2>5. CASE tasks' = Append(tasks, NewTask(scanner.page, "UPSERT", scanner.version))
      BY <1>0, <2>1, <2>3, <2>5, DeletionQueued
    <2> QED BY <2>2, <2>4, <2>5
  <1>8. ASSUME NEW held \in BOOLEAN, Polled(held),
               \/ held /\ consumer' = [Resting EXCEPT !.at = "start"]
               \/ RemovalsMayFail /\ UNCHANGED consumer
        PROVE  Deletion'
    <2>1. UNCHANGED <<weather, page, index, dropped>> /\ consumer.at = "idle" BY <1>8 DEF Polled, At
    <2>2. consumer'.at \in {"idle", "start"} BY <1>8, <2>1 DEF Resting
    <2>3. /\ \A k \in DOMAIN tasks' : \E i \in DOMAIN tasks :
               \/ tasks'[k] = tasks[i]
               \/ /\ tasks[i].status = "PENDING" /\ held
                  /\ tasks'[k] = [tasks[i] EXCEPT !.status = "PROCESSING", !.held = TRUE]
          /\ \A i \in DOMAIN tasks : tasks[i].op = "DELETE" /\ Keeps(tasks[i]) =>
               \/ ~held /\ tasks[i].page \in lost'
               \/ \E k \in DOMAIN tasks' : tasks'[k].page = tasks[i].page /\ tasks'[k].op = "DELETE"
          /\ lost \subseteq lost'
      BY <1>1, <1>8, PollTakes
    <2>4. \A i \in DOMAIN tasks : tasks[i].status # "DONE" /\ Keeps(tasks[i])
      BY <2>1 DEF Deletion, DoneIsCurrent, AllKept
    <2>5. \A i \in DOMAIN tasks :
            /\ [tasks[i] EXCEPT !.status = "PROCESSING", !.held = TRUE].status = "PROCESSING"
            /\ [tasks[i] EXCEPT !.status = "PROCESSING", !.held = TRUE].held
      <3> TAKE i \in DOMAIN tasks
      <3>1. tasks[i] \in Task BY <1>1
      <3> QED BY <3>1 DEF Task
    <2>6. \A k \in DOMAIN tasks' : tasks'[k].status # "DONE" /\ Keeps(tasks'[k])
      <3> TAKE k \in DOMAIN tasks'
      <3>1. PICK i \in DOMAIN tasks :
               \/ tasks'[k] = tasks[i]
               \/ tasks'[k] = [tasks[i] EXCEPT !.status = "PROCESSING", !.held = TRUE]
        BY <2>3
      <3>2. CASE tasks'[k] = tasks[i] BY <2>4, <3>2
      <3>3. CASE tasks'[k] = [tasks[i] EXCEPT !.status = "PROCESSING", !.held = TRUE]
        BY <2>5, <3>3 DEF Keeps
      <3> QED BY <3>1, <3>2, <3>3
    <2>7. AllKept' BY <2>6 DEF AllKept, Keeps
    <2>8. \A i \in DOMAIN tasks : tasks[i].op = "DELETE" =>
            \/ tasks[i].page \in lost' /\ RemovalsMayFail
           \/ index[tasks[i].page] = 0
            \/ \E k \in DOMAIN tasks' : tasks'[k].page = tasks[i].page /\ tasks'[k].op = "DELETE"
      BY <1>8, <2>3, <2>4
    <2> QED BY <1>0, <2>1, <2>2, <2>3, <2>6, <2>7, <2>8, DeletionRests
  <1>9. CASE Restart
    <2> DEFINE row(i) == [tasks[i] EXCEPT !.held = FALSE]
               table == [i \in DOMAIN tasks |-> row(i)]
    <2>1. /\ UNCHANGED <<weather, page, index, dropped>> /\ consumer' = Resting /\ Store(table)
          /\ RemovalsMayFail
      BY <1>9 DEF Restart, RemovalsMayFail
    <2>2. DOMAIN tasks = 1..Len(tasks) /\ Len(tasks) \in Nat BY <1>1
    <2>3. \A i \in DOMAIN tasks :
            /\ row(i) \in Task /\ row(i).op = tasks[i].op /\ row(i).page = tasks[i].page
            /\ row(i).status = tasks[i].status /\ ~row(i).held
      <3> TAKE i \in DOMAIN tasks
      <3>1. tasks[i] \in Task BY <1>1
      <3> QED BY <3>1 DEF Task
    <2> HIDE DEF row
    <2>4. table \in [1..Len(tasks) -> Task] BY <2>2, <2>3
    <2>5. table \in Seq(Task) /\ DOMAIN table = DOMAIN tasks BY <2>2, <2>4
    <2>6. \A i \in DOMAIN tasks :
            /\ table[i].op = tasks[i].op /\ table[i].page = tasks[i].page
            /\ table[i].status = tasks[i].status /\ ~table[i].held
      BY <2>3
    <2> HIDE DEF table
    <2>7. /\ \A k \in DOMAIN tasks' : \E i \in DOMAIN tasks : Keeps(table[i]) /\ tasks'[k] = table[i]
          /\ \A i \in DOMAIN tasks : Keeps(table[i]) => \E k \in DOMAIN tasks' : tasks'[k] = table[i]
          /\ \A i \in DOMAIN tasks : ~Keeps(table[i]) /\ table[i].op = "DELETE" =>
               table[i].status = "DONE" \/ table[i].page \in lost'
          /\ lost \subseteq lost'
      BY <2>1, <2>5, Stored
    <2>8. \A k \in DOMAIN tasks' : tasks'[k].status # "DONE" /\ Keeps(tasks'[k])
      BY <2>6, <2>7 DEF Keeps
    <2>9. AllKept' BY <2>8 DEF AllKept, Keeps
    <2>10. \A i \in DOMAIN tasks : tasks[i].op = "DELETE" =>
             \/ tasks[i].page \in lost' /\ RemovalsMayFail
           \/ index[tasks[i].page] = 0
             \/ \E k \in DOMAIN tasks' : tasks'[k].page = tasks[i].page /\ tasks'[k].op = "DELETE"
      <3> SUFFICES ASSUME NEW i \in DOMAIN tasks, tasks[i].op = "DELETE"
                   PROVE  \/ tasks[i].page \in lost' /\ RemovalsMayFail
                          \/ index[tasks[i].page] = 0
                          \/ \E k \in DOMAIN tasks' : tasks'[k].page = tasks[i].page /\ tasks'[k].op = "DELETE"
        OBVIOUS
      <3>1. CASE Keeps(table[i]) BY <2>6, <2>7, <3>1
      <3>2. CASE ~Keeps(table[i]) /\ tasks[i].status # "DONE"
        BY <2>1, <2>6, <2>7, <3>2
      <3>3. CASE tasks[i].status = "DONE" BY <3>3 DEF Deletion, DoneIsCurrent, Removed
      <3> QED BY <3>1, <3>2, <3>3
    <2>11. consumer'.at = "idle" BY <2>1 DEF Resting
    <2> QED BY <1>0, <2>1, <2>7, <2>8, <2>9, <2>10, <2>11, DeletionRests
  <1>10. ASSUME NEW P \in SUBSET Pages, DeleteSpace(P) PROVE Deletion'
    <2>1. /\ UNCHANGED <<weather, tasks, index, consumer, lost>> /\ dropped' = dropped \cup P
          /\ \A x \in P : page'[x].text = 0
          /\ \A x \in Pages \ P : page'[x] = page[x]
      BY <1>1, <1>10, SpaceGone
    <2>2. Current' = Current BY <2>1, SameCurrent DEF Held
    <2>3. consumer.at # "idle" => tasks[Current].page \in Pages BY Busy DEF Deletion
    <2>4. \A x \in Pages : Owed(x) => Owed(x)'
      <3> TAKE x \in Pages
      <3>1. x \in P \/ page'[x] = page[x] BY <2>1
      <3> QED BY <2>1, <3>1 DEF Owed, Doomed, GivenUp, RemovalsMayFail
    <2>5. AllKept' BY <2>1 DEF Deletion, AllKept
    <2>6. GoneIsBlank'
      <3>1. \A x \in Pages : page'[x].text = 0 \/ page'[x] = page[x] BY <2>1
      <3> QED BY <3>1 DEF Deletion, GoneIsBlank
    <2>7. TextIsOwed' BY <2>1, <2>2, <2>3, <2>4 DEF Deletion, TextIsOwed
    <2>8. AckedIsRemoved' BY <2>1, <2>2 DEF Deletion, AckedIsRemoved, Removed
    <2>9. DoneIsCurrent' BY <2>1, <2>2 DEF Deletion, DoneIsCurrent, Removed
    <2>10. NackHasFault' BY <2>1, <2>2 DEF Deletion, NackHasFault, RemovalsMayFail
    <2>11. IndexIsOwed' BY <2>1, <2>4 DEF Deletion, IndexIsOwed
    <2> QED BY <1>0, <2>5, <2>6, <2>7, <2>8, <2>9, <2>10, <2>11 DEF Deletion
  <1>11. RemovalsMayFail \/ "http" \notin weather BY DEF RemovalsMayFail
  <1> QED BY <1>0, <1>3, <1>4, <1>5, <1>6, <1>7, <1>8, <1>9, <1>10, <1>11, DeletionWork
          DEF Next, Poll, PollLost

LEMMA DeletionInit == Init => Deletion
  <1> SUFFICES ASSUME Init PROVE Deletion
    OBVIOUS
  <1>1. TypeInv BY TypeInit
  <1>2. DOMAIN tasks = {} /\ consumer.at = "idle" BY DEF Init, Resting
  <1>3. \A p \in Pages : index[p] = 0 /\ page[p].text = 0 BY DEF Init
  <1>4. AllKept /\ GoneIsBlank /\ DoneIsCurrent /\ IndexIsOwed
    BY <1>2, <1>3 DEF AllKept, GoneIsBlank, DoneIsCurrent, IndexIsOwed
  <1>5. TextIsOwed /\ AckedIsRemoved /\ NackHasFault
    BY <1>2 DEF TextIsOwed, AckedIsRemoved, NackHasFault
  <1> QED BY <1>1, <1>4, <1>5 DEF Deletion

(* What the index holds of a page that was deleted by itself is still to be *)
(* removed, or its removal was given up after a failed call or a restart:   *)
(* no crossing of saves, scans, polls, restarts and failed calls, all       *)
(* faults together, leaves another document nobody knows of.  Pages that    *)
(* went with their space are excepted: for them deleteSpace queues nothing. *)
THEOREM DeletionsArePending == Spec => []DeletionIsPending
  <1>1. Deletion => DeletionIsPending
    BY DEF Deletion, IndexIsOwed, Owed, GivenUp, Doomed, DeletionIsPending
  <1>2. Deletion /\ [Next]_vars => Deletion' BY DeletionStep
  <1>3. Init => Deletion BY DeletionInit
  <1> QED BY <1>1, <1>2, <1>3, PTL DEF Spec

-----------------------------------------------------------------------------
(* What INDEXED promises.  IndexedMeansThere is not inductive: the versions *)
(* of rows, scans and state rows do not run ahead of their pages, the text  *)
(* that is about to replace the old one is as new as the row at work and    *)
(* the state row say, and only between the removal of the old text and the  *)
(* report of a failed insertion the index may be behind.                    *)

Indexed(p) == state[p].status = "INDEXED"

PagesHaveText ==
  \A p \in Pages : page[p].exists => page[p].version # 0 /\ page[p].text = page[p].version

RowOfPage(r) ==
  /\ page[r.page].version # 0
  /\ r.version <= page[r.page].version
  /\ r.op = "DELETE" => ~page[r.page].exists

RowsOfPages == \A i \in DOMAIN tasks : RowOfPage(tasks[i])

ScanOfPage ==
  scanner.page # NoPage => scanner.version <= page[scanner.page].version

StatesOfPages ==
  \A p \in Pages : Indexed(p) => state[p].exists /\ state[p].version <= page[p].version

TextIsNew ==
  consumer.at \in {"ingest", "insert"} =>
    /\ consumer.text >= tasks[Current].version
    /\ LET p == tasks[Current].page IN Indexed(p) => consumer.text >= state[p].version

AckedIsThere ==
  LET r == tasks[Current]
  IN  consumer.at \in {"ack", "acking"} /\ r.op = "UPSERT" /\ page[r.page].exists =>
        index[r.page] >= r.version

NackFindsState ==
  consumer.at = "nacking" /\ ~consumer.copy.exists => ~Indexed(tasks[Current].page)

Fresh(p) == page[p].exists /\ Indexed(p) => index[p] >= state[p].version

Replacing == \/ consumer.at = "insert"
             \/ consumer.at \in {"nack", "nacking"} /\ "http" \notin weather

FreshOrReplaced ==
  \A p \in Pages : Fresh(p) \/ (Replacing /\ tasks[Current].page = p)

Indexing == /\ Deletion /\ OnlyCallsFail
            /\ PagesHaveText /\ RowsOfPages /\ ScanOfPage /\ StatesOfPages
            /\ TextIsNew /\ AckedIsThere /\ NackFindsState /\ FreshOrReplaced

LEMMA WeatherCalm ==
  ASSUME OnlyCallsFail
  PROVE  /\ weather \cap {"content", "blank", "restart"} = {}
         /\ ("rag" \in weather => "http" \notin weather)
  BY DEF OnlyCallsFail

(* Types as the steps below need them. *)
LEMMA IndexTypes ==
  ASSUME TypeInv
  PROVE  /\ page \in [Pages -> [exists : BOOLEAN, version : Versions, text : Versions]]
         /\ state \in [Pages -> StateRow] /\ index \in [Pages -> Versions]
         /\ tasks \in Seq(Task) /\ \A i \in DOMAIN tasks : tasks[i] \in Task /\ tasks[i].page \in Pages
         /\ consumer = [at |-> consumer.at, text |-> consumer.text, copy |-> consumer.copy]
         /\ consumer.copy \in StateRow
         /\ scanner \in [page : Pages \cup {NoPage}, version : Versions, queue : BOOLEAN]
         /\ lost \subseteq Pages /\ Rows
         /\ 0 \in Versions /\ \A v \in Versions : v \in Nat
  <1>1. tasks \in Seq(Task) BY DEF TypeInv, Rows
  <1>2. \A i \in DOMAIN tasks : tasks[i] \in Task BY <1>1
  <1>3. \A i \in DOMAIN tasks : tasks[i].page \in Pages BY <1>2 DEF Task
  <1>4. 0 \in Versions /\ \A v \in Versions : v \in Nat BY IngestAssumption DEF Versions
  <1> QED BY <1>1, <1>2, <1>3, <1>4 DEF TypeInv, TypeOK

(* The editor or the scan queues a row; what it makes of pages and state    *)
(* rows harms no promise.                                                   *)
LEMMA IndexingQueued ==
  ASSUME Indexing, Deletion', UNCHANGED <<weather, consumer, index>>,
         \/ UNCHANGED tasks
         \/ \E p \in Pages, op \in {"UPSERT", "DELETE"}, v \in Versions :
              tasks' = Append(tasks, NewTask(p, op, v)) /\ RowOfPage(NewTask(p, op, v))',
         PagesHaveText', ScanOfPage',
         \A r \in Task : RowOfPage(r) => RowOfPage(r)',
         \A x \in Pages : \/ state'[x] = state[x] /\ page'[x].version = page[x].version
                          \/ state'[x].status # "INDEXED",
         \A x \in Pages : page'[x].exists => page[x].exists \/ page[x].version = 0
  PROVE  Indexing'
  <1>1. TypeInv BY DEF Indexing, Deletion
  <1>2. tasks \in Seq(Task) BY <1>1, IndexTypes
  <1>3. /\ Held' = Held /\ RowsOfPages'
        /\ \A i \in DOMAIN tasks : i \in DOMAIN tasks' /\ tasks'[i] = tasks[i]
    <2>3. \A i \in DOMAIN tasks : tasks[i] \in Task /\ RowOfPage(tasks[i])
      BY <1>1, IndexTypes DEF Indexing, RowsOfPages
    <2>4. ASSUME NEW i \in DOMAIN tasks, tasks'[i] = tasks[i] PROVE RowOfPage(tasks[i])'
      <3>1. PICK r \in Task : r = tasks[i] /\ RowOfPage(r)' BY <2>3
      <3> QED BY <2>4, <3>1
    <2>1. CASE UNCHANGED tasks BY <2>1, <2>4 DEF Held, RowsOfPages
    <2>2. CASE ~UNCHANGED tasks
      <3>1. PICK p \in Pages, op \in {"UPSERT", "DELETE"}, v \in Versions :
              tasks' = Append(tasks, NewTask(p, op, v)) /\ RowOfPage(NewTask(p, op, v))'
        BY <2>2
      <3> DEFINE x == NewTask(p, op, v)
      <3>2. x \in Task /\ ~x.held BY NewTaskType
      <3>6. x' = x BY DEF NewTask
      <3>7. RowOfPage(x)' /\ tasks' = Append(tasks, x) BY <3>1
      <3> HIDE DEF x
      <3>3. /\ Held' = Held /\ DOMAIN tasks' = DOMAIN tasks \cup {Len(tasks) + 1}
            /\ tasks'[Len(tasks) + 1] = x
            /\ \A i \in DOMAIN tasks : tasks'[i] = tasks[i]
        BY <1>2, <3>2, <3>7, Appended
      <3>4. \A i \in DOMAIN tasks' : RowOfPage(tasks[i])' BY <2>4, <3>3, <3>6, <3>7 DEF RowOfPage
      <3>5. RowsOfPages' BY <3>4 DEF RowsOfPages
      <3> QED BY <3>3, <3>5
    <2> QED BY <2>1, <2>2
  <1>4. Current' = Current BY <1>3, SameCurrent
  <1>5. consumer.at # "idle" =>
          /\ Current \in DOMAIN tasks /\ tasks[Current].page \in Pages
          /\ tasks'[Current'] = tasks[Current] /\ page[tasks[Current].page].version # 0
    BY <1>1, <1>3, <1>4, Busy DEF Indexing, RowsOfPages, RowOfPage
  <1>6. StatesOfPages' BY DEF Indexing, StatesOfPages, Indexed
  <1>7. TextIsNew' BY <1>5 DEF Indexing, TextIsNew, Indexed
  <1>8. AckedIsThere' BY <1>5 DEF Indexing, AckedIsThere
  <1>9. NackFindsState' BY <1>5 DEF Indexing, NackFindsState, Indexed
  <1>10. FreshOrReplaced'
    <2> SUFFICES ASSUME NEW p \in Pages, page'[p].exists, state'[p].status = "INDEXED"
                 PROVE  (index[p] >= state'[p].version) \/ (Replacing /\ tasks'[Current'].page = p)
      BY DEF FreshOrReplaced, Fresh, Indexed, Replacing
    <2>1. state'[p] = state[p] /\ page'[p].version = page[p].version OBVIOUS
    <2>2. page'[p].version # 0 BY DEF PagesHaveText
    <2>3. page[p].exists BY <2>1, <2>2
    <2>4. index[p] >= state[p].version \/ (Replacing /\ tasks[Current].page = p)
      BY <2>1, <2>3 DEF Indexing, FreshOrReplaced, Fresh, Indexed
    <2> QED BY <1>5, <2>1, <2>4 DEF Replacing
  <1>11. OnlyCallsFail' BY DEF Indexing, OnlyCallsFail
  <1> QED BY <1>3, <1>6, <1>7, <1>8, <1>9, <1>10, <1>11 DEF Indexing

(* The consumer ends its work on a row or takes up rows: no promise is      *)
(* behind.                                                                  *)
LEMMA IndexingRests ==
  ASSUME Indexing, Deletion', UNCHANGED <<weather, page, index, scanner>>,
         consumer'.at \in {"idle", "start"}, StatesOfPages',
         \A k \in DOMAIN tasks' : \E i \in DOMAIN tasks :
           /\ tasks'[k].page = tasks[i].page /\ tasks'[k].op = tasks[i].op
           /\ tasks'[k].version = tasks[i].version,
         \A p \in Pages : Fresh(p)'
  PROVE  Indexing'
  <1>1. RowsOfPages' BY DEF Indexing, RowsOfPages, RowOfPage
  <1>2. PagesHaveText' BY DEF Indexing, PagesHaveText
  <1>3. ScanOfPage' BY DEF Indexing, ScanOfPage
  <1>4. TextIsNew' /\ AckedIsThere' /\ NackFindsState'
    BY DEF TextIsNew, AckedIsThere, NackFindsState
  <1>5. FreshOrReplaced' BY DEF FreshOrReplaced
  <1>6. OnlyCallsFail' BY DEF Indexing, OnlyCallsFail
  <1> QED BY <1>1, <1>2, <1>3, <1>4, <1>5, <1>6 DEF Indexing

LEMMA IndexingWork ==
  ASSUME Indexing, Deletion', Work
  PROVE  Indexing'
  <1>0. consumer.at # "idle" /\ UNCHANGED <<weather, page, editor, scanner, dropped>>
    BY DEF Work, FetchText, FetchFails, Remove, IngestRemove, Insert, InsertFails, AnswerRead,
           Ack, AckAnswerLost, AckRefused, AckNotSent, Nack, NackLost, At
  <1>1. TypeInv BY DEF Indexing, Deletion
  <1>a. /\ Held # {} /\ Current \in DOMAIN tasks /\ tasks[Current] \in Task
         /\ tasks[Current].page \in Pages /\ tasks[Current].op \in {"UPSERT", "DELETE"}
    BY <1>0, <1>1, Busy
  <1>b. PICK r \in Task, p \in Pages : r = tasks[Current] /\ p = r.page BY <1>a
  <1>2. /\ Held # {} /\ Current \in DOMAIN tasks /\ r \in Task
        /\ p \in Pages /\ r.op \in {"UPSERT", "DELETE"}
        /\ r = tasks[Current] /\ p = r.page
    BY <1>a, <1>b
  <1>3. /\ state \in [Pages -> StateRow] /\ index \in [Pages -> Versions] /\ tasks \in Seq(Task)
        /\ consumer = [at |-> consumer.at, text |-> consumer.text, copy |-> consumer.copy]
    BY <1>1, IndexTypes
  <1>4. \A place : Go(place) => consumer' = [at |-> place, text |-> consumer.text, copy |-> consumer.copy]
    BY <1>3 DEF Go
  <1>5. /\ weather \cap {"content", "blank", "restart"} = {}
        /\ ("rag" \in weather => "http" \notin weather)
    BY WeatherCalm DEF Indexing
  <1>6. RowOfPage(r) BY <1>b, <1>2 DEF Indexing, RowsOfPages
  <1>7. /\ page[p].version # 0 /\ r.version <= page[p].version
        /\ (r.op = "DELETE" => ~page[p].exists)
    BY <1>6, <1>b DEF RowOfPage
  <1>8. \A x \in Pages : Fresh(x) \/ (Replacing /\ x = p) BY <1>b DEF Indexing, FreshOrReplaced
  <1>9. PagesHaveText' BY <1>0 DEF Indexing, PagesHaveText
  <1>10. ScanOfPage' BY <1>0 DEF Indexing, ScanOfPage
  <1>11. OnlyCallsFail' BY <1>0 DEF Indexing, OnlyCallsFail
  (* The steps that leave rows and state rows alone.                        *)
  <1>12. ASSUME UNCHANGED <<tasks, state>>,
                consumer'.at \in {"ingest", "insert"} =>
                  consumer'.text >= r.version /\ (Indexed(p) => consumer'.text >= state[p].version),
                consumer'.at \in {"ack", "acking"} /\ r.op = "UPSERT" /\ page[p].exists =>
                  index'[p] >= r.version,
                consumer'.at = "nacking" /\ ~consumer'.copy.exists => ~Indexed(p),
                \A x \in Pages \ {p} : index'[x] = index[x],
                Fresh(p)' \/ Replacing'
         PROVE  Indexing'
    <2>1. Current' = Current /\ tasks'[Current'] = r BY <1>12, SameCurrent, <1>b DEF Held
    <2>2. RowsOfPages' BY <1>0, <1>12 DEF Indexing, RowsOfPages, RowOfPage
    <2>3. StatesOfPages' BY <1>0, <1>12 DEF Indexing, StatesOfPages, Indexed
    <2>4. TextIsNew' BY <1>12, <2>1, <1>b DEF TextIsNew, Indexed
    <2>5. AckedIsThere' BY <1>0, <1>12, <2>1, <1>b DEF AckedIsThere
    <2>6. NackFindsState' BY <1>12, <2>1, <1>b DEF NackFindsState, Indexed
    <2>7. \A x \in Pages \ {p} : Fresh(x)' BY <1>0, <1>8, <1>12 DEF Fresh, Indexed
    <2>8. FreshOrReplaced' BY <1>2, <1>12, <2>1, <2>7 DEF FreshOrReplaced
    <2> QED BY <1>9, <1>10, <1>11, <2>2, <2>3, <2>4, <2>5, <2>6, <2>8 DEF Indexing
  <1>13. ASSUME UNCHANGED <<state, index>> PROVE Fresh(p)' <=> Fresh(p)
    BY <1>0, <1>13 DEF Fresh, Indexed
  <1>14. CASE FetchText
    <2>1. /\ UNCHANGED <<state, tasks, index>> /\ consumer.at = "start" /\ r.op = "UPSERT"
          /\ \/ page[p].text = 0 /\ consumer'.at = "ack"
             \/ page[p].text # 0 /\ consumer'.at = "ingest" /\ consumer'.text = page[p].text
      BY <1>3, <1>14, <1>b DEF FetchText, At
    <2>2. Fresh(p)' BY <1>2, <1>8, <1>13, <2>1 DEF Replacing
    <2>3. page[p].exists => page[p].text # 0 /\ page[p].text = page[p].version
      BY <1>2 DEF Indexing, PagesHaveText
    <2>4. ~page[p].exists => page[p].text = 0
      BY <1>2 DEF Indexing, Deletion, GoneIsBlank
    <2>5. Indexed(p) => state[p].version <= page[p].version
      BY <1>2 DEF Indexing, StatesOfPages
    <2>6. page[p].text # 0 => page[p].text >= r.version
            /\ (Indexed(p) => page[p].text >= state[p].version)
      <3>1. /\ page[p].version \in Nat /\ r.version \in Nat /\ state[p].version \in Nat
        BY <1>1, <1>2, IndexTypes DEF Task, StateRow
      <3> QED BY <1>7, <2>3, <2>4, <2>5, <3>1
    <2> QED BY <1>12, <2>1, <2>2, <2>3, <2>6
  <1>15. CASE FetchFails
    <2>1. UNCHANGED <<state, tasks, index>> /\ consumer.at = "start" /\ consumer'.at = "nack"
      BY <1>4, <1>5, <1>15 DEF FetchFails, At
    <2>2. Fresh(p)' BY <1>2, <1>8, <1>13, <2>1 DEF Replacing
    <2> QED BY <1>12, <2>1, <2>2
  <1>16. CASE Remove
    <2>1. /\ UNCHANGED <<state, tasks>> /\ r.op = "DELETE" /\ consumer'.at \in {"ack", "nack"}
          /\ (UNCHANGED index \/ index' = [index EXCEPT ![p] = 0])
      BY <1>4, <1>16, <1>b DEF Remove, At
    <2>2. Fresh(p)' BY <1>0, <1>7, <2>1 DEF Fresh
    <2>3. \A x \in Pages \ {p} : index'[x] = index[x] BY <1>3, <2>1
    <2> QED BY <1>12, <2>1, <2>2, <2>3
  <1>17. CASE IngestRemove
    <2>1. /\ UNCHANGED <<state, tasks>> /\ consumer.at = "ingest" /\ consumer'.at = "insert"
          /\ consumer'.text = consumer.text
          /\ (UNCHANGED index \/ index' = [index EXCEPT ![p] = 0])
      BY <1>4, <1>17, <1>b DEF IngestRemove, At
    <2>2. Replacing' BY <2>1 DEF Replacing
    <2>3. \A x \in Pages \ {p} : index'[x] = index[x] BY <1>3, <2>1
    <2>4. consumer.text >= r.version /\ (Indexed(p) => consumer.text >= state[p].version)
      BY <2>1, <1>b DEF Indexing, TextIsNew
    <2> QED BY <1>12, <2>1, <2>2, <2>3, <2>4
  <1>18. CASE Insert
    <2>1. /\ UNCHANGED <<state, tasks>> /\ consumer.at = "insert" /\ consumer'.at = "ack"
          /\ index' = [index EXCEPT ![p] = consumer.text]
      BY <1>4, <1>18, <1>b DEF Insert, At
    <2>2. index'[p] = consumer.text /\ \A x \in Pages \ {p} : index'[x] = index[x] BY <1>2, <1>3, <2>1
    <2>3. consumer.text >= r.version /\ (Indexed(p) => consumer.text >= state[p].version)
      BY <2>1, <1>b DEF Indexing, TextIsNew
    <2>4. Fresh(p)' BY <1>0, <2>1, <2>2, <2>3 DEF Fresh, Indexed
    <2> QED BY <1>12, <2>1, <2>2, <2>3, <2>4
  <1>19. CASE InsertFails
    <2>1. UNCHANGED <<state, tasks, index>> /\ consumer'.at = "nack" /\ "http" \notin weather
      BY <1>4, <1>5, <1>19 DEF InsertFails, At
    <2>2. Replacing' BY <1>0, <2>1 DEF Replacing
    <2> QED BY <1>12, <2>1, <2>2
  <1>20. CASE AnswerRead
    <2>1. /\ UNCHANGED <<state, tasks, index>>
          /\ \/ consumer.at = "ack" /\ consumer'.at = "acking"
             \/ consumer.at = "nack" /\ consumer'.at = "nacking" /\ consumer'.copy = state[p]
      BY <1>3, <1>20, <1>b DEF AnswerRead, At
    <2>2. Fresh(p)' \/ Replacing' BY <1>0, <1>2, <1>8, <1>13, <2>1 DEF Replacing
    <2>3. ~state[p].exists => ~Indexed(p) BY <1>2 DEF Indexing, StatesOfPages
    <2>4. consumer.at = "ack" /\ r.op = "UPSERT" /\ page[p].exists => index[p] >= r.version
      BY <1>b DEF Indexing, AckedIsThere
    <2> QED BY <1>12, <2>1, <2>2, <2>3, <2>4
  <1>21. CASE AckNotSent
    <2>1. UNCHANGED <<state, tasks, index>> /\ consumer.at = "acking" /\ consumer'.at = "nack"
      BY <1>4, <1>21 DEF AckNotSent, At
    <2>2. Fresh(p)' BY <1>2, <1>8, <1>13, <2>1 DEF Replacing
    <2> QED BY <1>12, <2>1, <2>2
  (* The backend acknowledges.                                              *)
  <1>22. ASSUME consumer.at = "acking", state' = [state EXCEPT ![p] = Acked(r, consumer.copy)],
                UNCHANGED index
         PROVE  StatesOfPages' /\ \A x \in Pages : Fresh(x)'
    <2>1. state'[p] = Acked(r, consumer.copy) /\ \A x \in Pages \ {p} : state'[x] = state[x]
      BY <1>2, <1>3, <1>22
    <2>2. CASE r.op = "UPSERT"
      <3>1. state'[p].exists /\ state'[p].version = r.version BY <2>1, <2>2 DEF Acked
      <3>2. page[p].exists => index[p] >= r.version
        BY <1>22, <2>2, <1>b DEF Indexing, AckedIsThere
      <3>3. Fresh(p)' BY <1>0, <1>22, <3>1, <3>2 DEF Fresh
      <3>4. \A x \in Pages \ {p} : Fresh(x)' BY <1>0, <1>8, <1>22, <2>1 DEF Fresh, Indexed
      <3>5. StatesOfPages' BY <1>0, <1>2, <1>7, <2>1, <3>1 DEF Indexing, StatesOfPages, Indexed
      <3> QED BY <3>3, <3>4, <3>5
    <2>3. CASE r.op = "DELETE"
      <3>1. state'[p] = state[p] \/ state'[p].status # "INDEXED"
        BY <2>1, <2>3, <1>b DEF Acked, NoState
      <3>2. Fresh(p)' BY <1>0, <1>7, <2>3 DEF Fresh
      <3>3. \A x \in Pages \ {p} : Fresh(x)' BY <1>0, <1>8, <1>22, <2>1 DEF Fresh, Indexed
      <3>4. StatesOfPages' BY <1>0, <2>1, <3>1 DEF Indexing, StatesOfPages, Indexed
      <3> QED BY <3>2, <3>3, <3>4
    <2> QED BY <1>2, <2>2, <2>3
  <1>23. CASE AckAnswerLost
    <2> DEFINE x == [r EXCEPT !.status = "DONE"]
    <2>1. x.page = p /\ x.op = r.op /\ x.version = r.version /\ x \in Task BY <1>2 DEF Task
    <2>2. /\ tasks' = [tasks EXCEPT ![Current] = x] /\ UNCHANGED index
          /\ state' = [state EXCEPT ![p] = Acked(r, consumer.copy)]
          /\ consumer.at = "acking" /\ consumer'.at = "nack"
      BY <1>2, <1>4, <1>23, <1>b DEF AckAnswerLost, At
    <2> HIDE DEF x
    <2>3. DOMAIN tasks' = DOMAIN tasks /\ tasks'[Current] = x
          /\ \A i \in DOMAIN tasks \ {Current} : tasks'[i] = tasks[i]
      BY <1>2, <1>3, <2>1, <2>2
    <2>4. RowsOfPages'
      <3>1. \A i \in DOMAIN tasks' : /\ tasks'[i].page = tasks[i].page /\ tasks'[i].op = tasks[i].op
                                     /\ tasks'[i].version = tasks[i].version
        BY <2>1, <2>3, <1>b
      <3> QED BY <1>0, <2>3, <3>1 DEF Indexing, RowsOfPages, RowOfPage
    <2>5. TextIsNew' /\ AckedIsThere' /\ NackFindsState'
      BY <2>2 DEF TextIsNew, AckedIsThere, NackFindsState
    <2>6. StatesOfPages' /\ FreshOrReplaced' BY <1>22, <2>2 DEF FreshOrReplaced
    <2> QED BY <1>9, <1>10, <1>11, <2>4, <2>5, <2>6 DEF Indexing
  (* The steps that end the work on the row.                                *)
  <1>24. ASSUME NEW x \in Task, Finish(x), UNCHANGED index, x.page = p, x.op = r.op,
                x.version = r.version, StatesOfPages', \A y \in Pages : Fresh(y)'
         PROVE  Indexing'
    <2>1. /\ \A k \in DOMAIN tasks' :
              \/ \E i \in DOMAIN tasks \ {Current} : Keeps(tasks[i]) /\ tasks'[k] = tasks[i]
              \/ tasks'[k] = [x EXCEPT !.held = FALSE] /\ x.status = "PENDING"
          /\ consumer'.at \in {"idle", "start"}
      BY <1>2, <1>3, <1>24, Finished
    <2>2. [x EXCEPT !.held = FALSE].page = x.page /\ [x EXCEPT !.held = FALSE].version = x.version
          /\ [x EXCEPT !.held = FALSE].op = x.op
      BY DEF Task
    <2>3. \A k \in DOMAIN tasks' : \E i \in DOMAIN tasks :
            /\ tasks'[k].page = tasks[i].page /\ tasks'[k].op = tasks[i].op
            /\ tasks'[k].version = tasks[i].version
      <3> TAKE k \in DOMAIN tasks'
      <3>1. CASE \E i \in DOMAIN tasks \ {Current} : Keeps(tasks[i]) /\ tasks'[k] = tasks[i] BY <3>1
      <3>2. CASE tasks'[k] = [x EXCEPT !.held = FALSE] BY <1>2, <1>24, <1>b, <2>2, <3>2
      <3> QED BY <2>1, <3>1, <3>2
    <2> QED BY <1>0, <1>24, <2>1, <2>3, IndexingRests
  <1>25. UNCHANGED state => StatesOfPages' BY <1>0 DEF Indexing, StatesOfPages, Indexed
  <1>26. ASSUME UNCHANGED <<state, index>>, Fresh(p)
         PROVE  \A x \in Pages : Fresh(x)'
    BY <1>0, <1>8, <1>26 DEF Fresh, Indexed
  <1>27. CASE Ack
    <2> DEFINE x == [r EXCEPT !.status = "DONE"]
    <2>1. x \in Task /\ x.page = p /\ x.op = r.op /\ x.version = r.version BY <1>2 DEF Task
    <2>2. /\ Finish(x) /\ UNCHANGED index /\ consumer.at = "acking"
          /\ state' = [state EXCEPT ![p] = Acked(r, consumer.copy)]
      BY <1>27, <1>b DEF Ack, At
    <2> HIDE DEF x
    <2> QED BY <1>22, <1>24, <2>1, <2>2
  <1>28. CASE AckRefused
    <2>1. Finish(r) /\ UNCHANGED <<state, index>> /\ consumer.at = "acking"
      BY <1>28, <1>b DEF AckRefused, At
    <2>2. Fresh(p) BY <1>2, <1>8, <2>1 DEF Replacing
    <2> QED BY <1>2, <1>24, <1>25, <1>26, <2>1, <2>2
  <1>29. CASE NackLost
    <2>1. Finish(r) /\ UNCHANGED <<state, index>> /\ consumer.at = "nacking"
          /\ (Conflict \/ "http" \in weather)
      BY <1>29, <1>b DEF NackLost, At
    <2>2. Fresh(p)
      <3>1. CASE "http" \in weather BY <1>2, <1>8, <2>1, <3>1 DEF Replacing
      <3>2. CASE Conflict
        <4>1. ~state[p].exists \/ ~consumer.copy.exists BY <2>1, <3>2, <1>b DEF Conflict
        <4>2. ~Indexed(p)
          BY <1>2, <2>1, <4>1, <1>b DEF Indexing, StatesOfPages, NackFindsState
        <4> QED BY <4>2 DEF Fresh
      <3> QED BY <2>1, <3>1, <3>2
    <2> QED BY <1>2, <1>24, <1>25, <1>26, <2>1, <2>2
  <1>30. CASE Nack
    <2>1. Nacked(r) \in Task
      <3>1. r.retry \in 0..RetryMax BY <1>2 DEF Task
      <3>2. r.retry < RetryMax BY <1>1, <1>2, <1>b DEF TypeInv, Rows
      <3>3. r.retry + 1 \in 0..RetryMax BY <3>1, <3>2, IngestAssumption
      <3> QED BY <1>2, <3>3 DEF Nacked, Task
    <2>2. Nacked(r).page = p /\ Nacked(r).op = r.op /\ Nacked(r).version = r.version
      BY <1>2 DEF Nacked, Task
    <2>3. Finish(Nacked(r)) /\ UNCHANGED index BY <1>30, <1>b DEF Nack
    <2>4. CASE r.op = "UPSERT"
      <3>1. state' = [state EXCEPT ![p] = [consumer.copy EXCEPT !.exists = TRUE, !.status = "FAILED"]]
        BY <1>30, <2>4, <1>b DEF Nack
      <3>2. [consumer.copy EXCEPT !.exists = TRUE, !.status = "FAILED"].status = "FAILED"
        BY <1>1, IndexTypes DEF StateRow
      <3>3. state'[p].status = "FAILED" /\ \A x \in Pages \ {p} : state'[x] = state[x]
        BY <1>2, <1>3, <3>1, <3>2
      <3>4. StatesOfPages' BY <1>0, <3>3 DEF Indexing, StatesOfPages, Indexed
      <3>5. \A x \in Pages : Fresh(x)' BY <1>0, <1>8, <2>3, <3>3 DEF Fresh, Indexed
      <3> QED BY <1>24, <2>1, <2>2, <2>3, <3>4, <3>5
    <2>5. CASE r.op = "DELETE"
      <3>1. UNCHANGED state BY <1>30, <2>5, <1>b DEF Nack
      <3>2. Fresh(p) BY <1>7, <2>5 DEF Fresh
      <3> QED BY <1>24, <1>25, <1>26, <2>1, <2>2, <2>3, <3>1, <3>2
    <2> QED BY <1>2, <2>4, <2>5
  <1> QED BY <1>14, <1>15, <1>16, <1>17, <1>18, <1>19, <1>20, <1>21, <1>23, <1>27, <1>28, <1>29, <1>30
          DEF Work

LEMMA IndexingStep == Indexing /\ [Next]_vars => Indexing'
  <1> SUFFICES ASSUME Indexing, [Next]_vars PROVE Indexing'
    OBVIOUS
  <1>0. Deletion' BY DeletionStep DEF Indexing
  <1>1. TypeInv BY DEF Indexing, Deletion
  <1>2. /\ page \in [Pages -> [exists : BOOLEAN, version : Versions, text : Versions]]
        /\ state \in [Pages -> StateRow] /\ tasks \in Seq(Task) /\ Rows /\ lost \subseteq Pages
        /\ scanner \in [page : Pages \cup {NoPage}, version : Versions, queue : BOOLEAN]
        /\ 0 \in Versions /\ \A v \in Versions : v \in Nat
        /\ \A i \in DOMAIN tasks : tasks[i] \in Task /\ tasks[i].page \in Pages
    BY <1>1, IndexTypes
  <1>3. weather \cap {"content", "blank", "restart"} = {}
    BY WeatherCalm DEF Indexing
  <1>5. ASSUME UNCHANGED <<weather, page, tasks, state, index, consumer>>, ScanOfPage' PROVE Indexing'
    <2>1. PagesHaveText' BY <1>5 DEF Indexing, PagesHaveText
    <2>2. \A r \in Task : RowOfPage(r) => RowOfPage(r)' BY <1>5 DEF RowOfPage
    <2> QED BY <1>0, <1>5, <2>1, <2>2, IndexingQueued
  <1>6. CASE UNCHANGED vars
    <2>1. ScanOfPage' BY <1>6 DEF Indexing, ScanOfPage, vars
    <2> QED BY <1>5, <1>6, <2>1 DEF vars
  <1>7. ASSUME NEW p \in Pages, SaveRead(p) PROVE Indexing'
    <2>1. ScanOfPage' BY <1>7 DEF Indexing, ScanOfPage, SaveRead
    <2> QED BY <1>5, <1>7, <2>1 DEF SaveRead
  <1>8. ASSUME NEW p \in Pages, ScanRead(p) PROVE Indexing'
    <2> DEFINE v == IF page[p].exists THEN page[p].version ELSE 0
    <2>1. scanner'.page = p /\ scanner'.version = v /\ UNCHANGED page
      BY <1>8 DEF ScanRead
    <2>2. page[p].version \in Nat BY <1>2
    <2>3. v <= page[p].version BY <2>2
    <2> HIDE DEF v
    <2>4. ScanOfPage' BY <2>1, <2>3 DEF ScanOfPage
    <2> QED BY <1>5, <1>8, <2>4 DEF ScanRead
  <1>9. CASE ScanCommit
    <2>9. scanner.page \in Pages /\ scanner.version \in Versions BY <1>2, <1>9 DEF ScanCommit
    <2>10. PICK p \in Pages, v \in Versions : p = scanner.page /\ v = scanner.version BY <2>9
    <2>1. /\ UNCHANGED <<weather, page, index, consumer>> /\ scanner' = NoScanner /\ p \in Pages
          /\ v \in Versions /\ v <= page[p].version
      BY <1>9, <2>9, <2>10 DEF ScanCommit, Indexing, ScanOfPage
    <2>2. UNCHANGED tasks \/ (v # 0 /\ tasks' = Append(tasks, NewTask(p, "UPSERT", v)))
      BY <1>9, <2>10 DEF ScanCommit
    <2>3. v # 0 => RowOfPage(NewTask(p, "UPSERT", v))'
      <3>1. page[p].version \in Nat /\ v \in Nat BY <1>2, <2>1
      <3>2. v # 0 => page[p].version # 0 BY <2>1, <3>1
      <3>3. /\ NewTask(p, "UPSERT", v).page = p /\ NewTask(p, "UPSERT", v).op = "UPSERT"
            /\ NewTask(p, "UPSERT", v).version = v
        BY DEF NewTask
      <3>4. v # 0 => RowOfPage(NewTask(p, "UPSERT", v)) BY <2>1, <3>2, <3>3 DEF RowOfPage
      <3> QED BY <2>1, <3>4 DEF RowOfPage
    <2>4. PagesHaveText' BY <2>1 DEF Indexing, PagesHaveText
    <2>5. ScanOfPage' BY <2>1 DEF ScanOfPage, NoScanner
    <2>6. \A r \in Task : RowOfPage(r) => RowOfPage(r)' BY <2>1 DEF RowOfPage
    <2>7. \A x \in Pages : state'[x] = state[x] \/ state'[x].status # "INDEXED"
      <3>1. UNCHANGED state \/ state' = [state EXCEPT ![p] = NoState] BY <1>9, <2>10 DEF ScanCommit
      <3> QED BY <1>2, <3>1 DEF NoState
    <2>8. \/ UNCHANGED tasks
          \/ \E x \in Pages, op \in {"UPSERT", "DELETE"}, w \in Versions :
               tasks' = Append(tasks, NewTask(x, op, w)) /\ RowOfPage(NewTask(x, op, w))'
      BY <2>1, <2>2, <2>3
    <2> QED BY <1>0, <2>1, <2>4, <2>5, <2>6, <2>7, <2>8, IndexingQueued
  <1>10. ASSUME NEW p \in Pages, DeletePage(p) PROVE Indexing'
    <2>1. /\ UNCHANGED <<weather, state, index, consumer, scanner>> /\ page[p].exists
          /\ tasks' = Append(tasks, NewTask(p, "DELETE", 0))
          /\ page' = [page EXCEPT ![p].exists = FALSE, ![p].text = 0]
      BY <1>10 DEF DeletePage
    <2>2. /\ ~page'[p].exists /\ \A x \in Pages : page'[x].version = page[x].version
          /\ \A x \in Pages : x # p => page'[x] = page[x]
      BY <1>2, <2>1
    <2>3. page[p].version # 0 /\ page[p].version \in Nat BY <1>2, <2>1 DEF Indexing, PagesHaveText
    <2>4. RowOfPage(NewTask(p, "DELETE", 0))' BY <2>2, <2>3 DEF RowOfPage, NewTask
    <2>5. PagesHaveText' BY <2>2 DEF Indexing, PagesHaveText
    <2>6. ScanOfPage'
      <3>1. scanner.page # NoPage => scanner.page \in Pages BY <1>2
      <3> QED BY <2>1, <2>2, <3>1 DEF Indexing, ScanOfPage
    <2>7. \A r \in Task : RowOfPage(r) => RowOfPage(r)'
      <3> TAKE r \in Task
      <3>1. r.page \in Pages BY DEF Task
      <3> QED BY <2>2, <3>1 DEF RowOfPage
    <2>8. \A x \in Pages : page'[x].exists => page[x].exists BY <2>2
    <2>9. \E x \in Pages, op \in {"UPSERT", "DELETE"}, w \in Versions :
            tasks' = Append(tasks, NewTask(x, op, w)) /\ RowOfPage(NewTask(x, op, w))'
      BY <1>2, <2>1, <2>4
    <2> QED BY <1>0, <2>1, <2>2, <2>5, <2>6, <2>7, <2>8, <2>9, IndexingQueued
  <1>11. CASE SaveCommit
    <2>4. editor.page \in Pages BY <1>1, <1>11 DEF SaveCommit, TypeInv, TypeOK
    <2>6. page[editor.page].version + 1 \in Versions
      BY <1>1, <1>2, <1>11, <2>4, VersionUp DEF TypeInv, SaveCommit
    <2>5. PICK p \in Pages, v \in Versions : p = editor.page /\ v = page[p].version + 1 BY <2>4, <2>6
    <2>1. UNCHANGED <<weather, index, consumer, scanner>> /\ p \in Pages
      BY <1>11 DEF SaveCommit
    <2>2. CASE UNCHANGED <<page, tasks, state>>
      <3>1. ScanOfPage' BY <2>1, <2>2 DEF Indexing, ScanOfPage
      <3> QED BY <1>5, <2>1, <2>2, <3>1
    <2>3. CASE ~UNCHANGED <<page, tasks, state>>
      <3>1. page' = [page EXCEPT ![p] = [exists |-> TRUE, version |-> v, text |-> v]]
        BY <1>3, <1>11, <2>3, <2>5 DEF SaveCommit
      <3>2. /\ tasks' = Append(tasks, NewTask(p, "UPSERT", v))
            /\ state' = [state EXCEPT ![p] = [editor.copy EXCEPT !.exists = TRUE, !.status = "PENDING"]]
            /\ (page[p].exists \/ page[p].version = 0)
        BY <1>11, <2>3, <2>5 DEF SaveCommit
      <3>3. page[p].version \in Nat /\ v \in Versions /\ v \in Nat /\ v # 0 /\ page[p].version <= v
        <4>1. page[p].version \in Versions /\ page[p].version < MaxVersion /\ page[p].version \in Nat
          BY <1>1, <1>2, <1>11, <2>1, <2>5 DEF TypeInv, SaveCommit
        <4> QED BY <1>2, <2>5, <4>1
      <3>4. /\ page'[p].exists /\ page'[p].version = v /\ page'[p].text = v
            /\ \A x \in Pages : x # p => page'[x] = page[x]
        BY <1>2, <2>1, <3>1
      <3>5. PagesHaveText' BY <3>3, <3>4 DEF Indexing, PagesHaveText
      <3>6. \A x \in Pages, w \in Nat : w <= page[x].version => w <= page'[x].version
        <4> SUFFICES ASSUME NEW x \in Pages, NEW w \in Nat, w <= page[x].version
                     PROVE  w <= page'[x].version
          OBVIOUS
        <4>1. CASE x = p BY <3>3, <3>4, <4>1
        <4>2. CASE x # p BY <3>4, <4>2
        <4> QED BY <4>1, <4>2
      <3>7. ScanOfPage'
        <4>1. scanner.page # NoPage => scanner.page \in Pages /\ scanner.version \in Nat
          BY <1>2
        <4> QED BY <2>1, <3>6, <4>1 DEF Indexing, ScanOfPage
      <3>8. \A r \in Task : RowOfPage(r) => RowOfPage(r)'
        <4> SUFFICES ASSUME NEW r \in Task, RowOfPage(r) PROVE RowOfPage(r)'
          OBVIOUS
        <4>1. /\ r.page \in Pages /\ page[r.page].version # 0
              /\ r.version <= page[r.page].version /\ (r.op = "DELETE" => ~page[r.page].exists)
          BY DEF RowOfPage, Task
        <4>2. r.version \in Nat BY <1>2 DEF Task
        <4>3. r.version <= page'[r.page].version BY <3>6, <4>1, <4>2
        <4>4. page'[r.page].version # 0 /\ (r.op = "DELETE" => ~page'[r.page].exists)
          BY <3>2, <3>3, <3>4, <4>1
        <4> QED BY <4>3, <4>4 DEF RowOfPage
      <3>9. [editor.copy EXCEPT !.exists = TRUE, !.status = "PENDING"].status = "PENDING"
        BY <1>1 DEF TypeInv, TypeOK, StateRow
      <3>10. state'[p].status = "PENDING" /\ \A x \in Pages : x # p => state'[x] = state[x]
        BY <1>2, <2>1, <3>2, <3>9
      <3>11. RowOfPage(NewTask(p, "UPSERT", v))' BY <3>3, <3>4 DEF RowOfPage, NewTask
      <3>12. \A x \in Pages : \/ state'[x] = state[x] /\ page'[x].version = page[x].version
                              \/ state'[x].status # "INDEXED"
        BY <3>4, <3>10
      <3>13. \A x \in Pages : page'[x].exists => page[x].exists \/ page[x].version = 0
        BY <3>2, <3>4
      <3>14. \E x \in Pages, op \in {"UPSERT", "DELETE"}, w \in Versions :
               tasks' = Append(tasks, NewTask(x, op, w)) /\ RowOfPage(NewTask(x, op, w))'
        BY <2>1, <3>2, <3>3, <3>11
      <3> QED BY <1>0, <2>1, <3>5, <3>7, <3>8, <3>12, <3>13, <3>14, IndexingQueued
    <2> QED BY <2>2, <2>3
  <1>12. ASSUME NEW held \in BOOLEAN, Polled(held),
                \/ consumer' = [Resting EXCEPT !.at = "start"]
                \/ UNCHANGED consumer
         PROVE  Indexing'
    <2>1. UNCHANGED <<weather, page, index, state, scanner>> /\ consumer.at = "idle"
      BY <1>12 DEF Polled, At
    <2>2. consumer'.at \in {"idle", "start"} BY <1>12, <2>1 DEF Resting
    <2>3. \A k \in DOMAIN tasks' : \E i \in DOMAIN tasks :
            \/ tasks'[k] = tasks[i]
            \/ tasks'[k] = [tasks[i] EXCEPT !.status = "PROCESSING", !.held = TRUE]
      <3>1. Rows /\ lost \subseteq Pages /\ Polled(held) BY <1>2, <1>12
      <3>2. \A k \in DOMAIN tasks' : \E i \in DOMAIN tasks :
              \/ tasks'[k] = tasks[i]
              \/ /\ tasks[i].status = "PENDING" /\ held
                 /\ tasks'[k] = [tasks[i] EXCEPT !.status = "PROCESSING", !.held = TRUE]
        BY <3>1, PollTakes, Zenon
      <3> QED BY <3>2
    <2>4. \A i \in DOMAIN tasks :
            /\ [tasks[i] EXCEPT !.status = "PROCESSING", !.held = TRUE].page = tasks[i].page
            /\ [tasks[i] EXCEPT !.status = "PROCESSING", !.held = TRUE].op = tasks[i].op
            /\ [tasks[i] EXCEPT !.status = "PROCESSING", !.held = TRUE].version = tasks[i].version
      BY <1>2 DEF Task
    <2>5. \A k \in DOMAIN tasks' : \E i \in DOMAIN tasks :
            /\ tasks'[k].page = tasks[i].page /\ tasks'[k].op = tasks[i].op
            /\ tasks'[k].version = tasks[i].version
      <3> TAKE k \in DOMAIN tasks'
      <3>1. PICK i \in DOMAIN tasks :
               \/ tasks'[k] = tasks[i]
               \/ tasks'[k] = [tasks[i] EXCEPT !.status = "PROCESSING", !.held = TRUE]
        BY <2>3
      <3>2. /\ tasks'[k].page = tasks[i].page /\ tasks'[k].op = tasks[i].op
            /\ tasks'[k].version = tasks[i].version
        BY <2>4, <3>1
      <3> QED BY <3>2
    <2>6. \A p \in Pages : Fresh(p)'
      BY <2>1 DEF Indexing, FreshOrReplaced, Replacing, Fresh, Indexed
    <2>7. StatesOfPages' BY <2>1 DEF Indexing, StatesOfPages, Indexed
    <2> QED BY <1>0, <2>1, <2>2, <2>5, <2>6, <2>7, IndexingRests
  <1>13. ~Restart BY <1>3 DEF Restart
  <1>14. ASSUME NEW P \in SUBSET Pages, DeleteSpace(P) PROVE Indexing'
    <2>1. /\ UNCHANGED <<weather, state, tasks, index, consumer, scanner>>
          /\ \A x \in P : ~page'[x].exists
          /\ \A x \in Pages \ P : page'[x] = page[x]
          /\ \A x \in Pages : page'[x].version = page[x].version
      BY <1>2, <1>14, SpaceGone
    <2>2. \A x \in Pages : ~page'[x].exists \/ page'[x] = page[x] BY <2>1
    <2>3. PagesHaveText' BY <2>2 DEF Indexing, PagesHaveText
    <2>4. ScanOfPage'
      <3>1. scanner.page # NoPage => scanner.page \in Pages BY <1>2
      <3> QED BY <2>1, <3>1 DEF Indexing, ScanOfPage
    <2>5. \A r \in Task : RowOfPage(r) => RowOfPage(r)'
      <3> TAKE r \in Task
      <3>1. r.page \in Pages BY DEF Task
      <3> QED BY <2>1, <2>2, <3>1 DEF RowOfPage
    <2>6. \A x \in Pages : page'[x].exists => page[x].exists BY <2>2
    <2> QED BY <1>0, <2>1, <2>3, <2>4, <2>5, <2>6, IndexingQueued
  <1> QED BY <1>0, <1>6, <1>7, <1>8, <1>9, <1>10, <1>11, <1>12, <1>13, <1>14, IndexingWork
          DEF Next, Poll, PollLost

LEMMA IndexingInit == Init /\ OnlyCallsFail => Indexing
  <1> SUFFICES ASSUME Init, OnlyCallsFail PROVE Indexing
    OBVIOUS
  <1>1. Deletion BY DeletionInit
  <1>2. /\ DOMAIN tasks = {} /\ consumer.at = "idle" /\ scanner.page = NoPage
        /\ \A p \in Pages : ~page[p].exists /\ state[p].status = "NONE"
    BY DEF Init, Resting, NoScanner, NoState
  <1>3. PagesHaveText /\ RowsOfPages /\ ScanOfPage /\ StatesOfPages /\ FreshOrReplaced
    BY <1>2 DEF PagesHaveText, RowsOfPages, ScanOfPage, StatesOfPages, FreshOrReplaced, Fresh, Indexed
  <1>4. TextIsNew /\ AckedIsThere /\ NackFindsState
    BY <1>2 DEF TextIsNew, AckedIsThere, NackFindsState
  <1> QED BY <1>1, <1>3, <1>4 DEF Indexing

(* The faults of a behaviour are those of its beginning. *)
LEMMA CalmStays == [Next]_vars => UNCHANGED weather
  BY DEF Next, vars, SaveRead, DeletePage, DeleteSpace, ScanRead, SaveCommit, ScanCommit, Poll, PollLost, Polled,
         Restart, Work, FetchText, FetchFails, Remove, IngestRemove, Insert, InsertFails, AnswerRead,
         Ack, AckAnswerLost, AckRefused, AckNotSent, Nack, NackLost, At

(* A page that is INDEXED at a version has in the index a text at least as  *)
(* new, unless the consumer is replacing it: whatever is edited, scanned,   *)
(* conflicts and is tried again meanwhile, as long as one kind of call      *)
(* fails and pages have texts that can be fetched.                          *)
THEOREM IndexedIsThere == Spec => []IndexedMeansThere
  <1> DEFINE Calm == OnlyCallsFail => Indexing
  <1>1. Indexing => IndexedMeansThere
    <2> SUFFICES ASSUME Indexing, NEW p \in Pages, page[p].exists, Indexed(p), ~Working(p)
                 PROVE  index[p] >= state[p].version
      BY DEF IndexedMeansThere, Indexed
    <2>1. Fresh(p) \/ (Replacing /\ tasks[Current].page = p) BY DEF Indexing, FreshOrReplaced
    <2>2. Replacing => Held # {}
      BY DEF Replacing, Indexing, Deletion, TypeInv, AtWork
    <2> QED BY <2>1, <2>2 DEF Fresh, Working
  <1>2. Init => Calm BY IndexingInit
  <1>3. Calm /\ [Next]_vars => Calm'
    <2>1. [Next]_vars /\ OnlyCallsFail' => OnlyCallsFail BY CalmStays DEF OnlyCallsFail
    <2> QED BY <2>1, IndexingStep
  <1>4. Calm => IndexedMeansThere BY <1>1 DEF IndexedMeansThere
  <1> QED BY <1>2, <1>3, <1>4, PTL DEF Spec

=============================================================================
