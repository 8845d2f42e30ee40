--------------------------- MODULE LightRagIngest ---------------------------
(***************************************************************************)
(* The way of a Wiki page into the LightRAG index.  The backend writes an  *)
(* outbox row in the transaction that saves or deletes the page; the       *)
(* consumer in code-processing polls the rows over HTTP, works on them one *)
(* after the other and answers each with an ack or a nack; a scheduled     *)
(* scan compares the state rows with the pages and queues what is behind.  *)
(*                                                                         *)
(* Transactions of the backend that read a state row and write it back are *)
(* two steps, as the row has no version column.                            *)
(***************************************************************************)
EXTENDS Naturals, Sequences, FiniteSets

CONSTANTS
  Pages,       \* page ids; an id is not used again
  NoPage,
  Batch,       \* POLL_BATCH_SIZE
  RetryMax,    \* platform.lightrag.ingest.retry-max
  Weathers,    \* the sets of faults that may come together
  MaxVersion   \* bound on the versions of a page

Faults == {"http",     \* a call between the consumer and the backend fails, before
                       \* or after the backend has committed
           "rag",      \* a call of LightRAG fails
           "content",  \* the backend answers the fetch of a page with an error
           "blank",    \* a page is saved without text
           "restart"}  \* code-processing restarts

ASSUME IngestAssumption ==
  /\ NoPage \notin Pages
  /\ Batch \in Nat \ {0} /\ RetryMax \in Nat \ {0} /\ MaxVersion \in Nat
  /\ Weathers \subseteq SUBSET Faults

VARIABLES
  weather,    \* the faults of this behaviour
  page,       \* wiki_page_v2: whether it exists, its version, the version its text is of
  state,      \* wiki_lightrag_index_state
  tasks,      \* lightrag_ingest_queue in the order of the ids
  index,      \* the version of the text LightRAG holds of a page, 0 for none
  consumer,   \* where LightRagQueueConsumer is in its current task
  editor,     \* the transaction that saves a page
  scanner,    \* the transaction of scanStaleAndEnqueue
  lost,       \* pages with a DELETE that nobody will do any more
  dropped     \* pages that went with their space, without a DELETE

vars == <<weather, page, state, tasks, index, consumer, editor, scanner, lost, dropped>>

Versions == 0..MaxVersion

Task     == [page : Pages, op : {"UPSERT", "DELETE"}, version : Versions,
             status : {"PENDING", "PROCESSING", "DONE", "DEAD"}, retry : 0..RetryMax,
             held : BOOLEAN]
StateRow == [exists : BOOLEAN, status : {"NONE", "PENDING", "INDEXED", "FAILED"}, version : Versions]
NoState  == [exists |-> FALSE, status |-> "NONE", version |-> 0]
NewTask(p, op, v) == [page |-> p, op |-> op, version |-> v, status |-> "PENDING",
                      retry |-> 0, held |-> FALSE]

(* Rows, tasks and processes keep their shape; no task is tried more often  *)
(* than RetryMax.                                                           *)
TypeOK ==
  /\ weather \in Weathers
  /\ page \in [Pages -> [exists : BOOLEAN, version : Versions, text : Versions]]
  /\ state \in [Pages -> StateRow]
  /\ tasks \in Seq(Task)
  /\ index \in [Pages -> Versions]
  /\ consumer \in [at : {"idle", "start", "ingest", "insert", "ack", "acking", "nack", "nacking"},
                   text : Versions, copy : StateRow]
  /\ editor \in [page : Pages \cup {NoPage}, copy : StateRow]
  /\ scanner \in [page : Pages \cup {NoPage}, version : Versions, queue : BOOLEAN]
  /\ lost \subseteq Pages /\ dropped \subseteq Pages

Resting   == [at |-> "idle", text |-> 0, copy |-> NoState]
NoEditor  == [page |-> NoPage, copy |-> NoState]
NoScanner == [page |-> NoPage, version |-> 0, queue |-> FALSE]

Init ==
  /\ weather \in Weathers
  /\ page = [p \in Pages |-> [exists |-> FALSE, version |-> 0, text |-> 0]]
  /\ state = [p \in Pages |-> NoState]
  /\ tasks = <<>>
  /\ index = [p \in Pages |-> 0]
  /\ consumer = Resting
  /\ editor = NoEditor
  /\ scanner = NoScanner
  /\ lost = {} /\ dropped = {}

-----------------------------------------------------------------------------
(* The pages *)

(* createPage and updatePage: the page, its version and the task are        *)
(* written in one transaction, which reads the state row before.            *)
SaveRead(p) ==
  /\ editor = NoEditor
  /\ page[p].version < MaxVersion
  /\ page[p].exists \/ page[p].version = 0
  /\ editor' = [page |-> p, copy |-> state[p]]
  /\ UNCHANGED <<weather, page, state, tasks, index, consumer, scanner, lost, dropped>>

(* The commit fails if the page or the state row went away or the state row *)
(* was inserted meanwhile.                                                  *)
SaveCommit ==
  LET p == editor.page
      v == page[p].version + 1
  IN  /\ p # NoPage
      /\ editor' = NoEditor
      /\ \/ /\ page[p].exists \/ page[p].version = 0
            /\ editor.copy.exists = state[p].exists
            /\ \E text \in {v} \cup (IF "blank" \in weather THEN {0} ELSE {}) :
                 page' = [page EXCEPT ![p] = [exists |-> TRUE, version |-> v, text |-> text]]
            /\ tasks' = Append(tasks, NewTask(p, "UPSERT", v))
            /\ state' = [state EXCEPT ![p] = [editor.copy EXCEPT !.exists = TRUE, !.status = "PENDING"]]
         \/ /\ \/ ~page[p].exists /\ page[p].version # 0
               \/ editor.copy.exists # state[p].exists
            /\ UNCHANGED <<page, tasks, state>>
      /\ UNCHANGED <<weather, index, consumer, scanner, lost, dropped>>

DeletePage(p) ==
  /\ page[p].exists
  /\ page' = [page EXCEPT ![p].exists = FALSE, ![p].text = 0]
  /\ tasks' = Append(tasks, NewTask(p, "DELETE", 0))
  /\ UNCHANGED <<weather, state, index, consumer, editor, scanner, lost, dropped>>

(* deleteSpace: the foreign keys take the pages of the space P along, and   *)
(* nothing is queued for them.  If they keep the space nothing has happened.*)
DeleteSpace(P) ==
  /\ P # {} /\ \A p \in P : page[p].exists
  /\ page' = [p \in Pages |-> IF p \in P THEN [page[p] EXCEPT !.exists = FALSE, !.text = 0]
                             ELSE page[p]]
  /\ dropped' = dropped \cup P
  /\ UNCHANGED <<weather, state, tasks, index, consumer, editor, scanner, lost>>

-----------------------------------------------------------------------------
(* The scan *)

Behind(p) == state[p].version < page[p].version

(* Mutant: only the pages that wait are looked at. *)
ScanReadPending(p) ==
  /\ scanner = NoScanner
  /\ state[p].status = "PENDING"
  /\ scanner' = [page |-> p, version |-> IF page[p].exists THEN page[p].version ELSE 0,
                 queue |-> \A i \in DOMAIN tasks : ~(tasks[i].page = p /\ tasks[i].status = "PENDING")]
  /\ UNCHANGED <<weather, page, state, tasks, index, consumer, editor, lost, dropped>>

(* A state row that waits, that failed, whose page is gone or whose version *)
(* is behind.  Each page of a scan is a step of its own.                    *)
ScanRead(p) ==
  /\ scanner = NoScanner
  /\ \/ state[p].status \in {"PENDING", "FAILED"}
     \/ state[p].status = "INDEXED" /\ (~page[p].exists \/ Behind(p))
  /\ scanner' = [page |-> p, version |-> IF page[p].exists THEN page[p].version ELSE 0,
                 queue |-> \A i \in DOMAIN tasks : ~(tasks[i].page = p /\ tasks[i].status = "PENDING")]
  /\ UNCHANGED <<weather, page, state, tasks, index, consumer, editor, lost, dropped>>

(* Mutant: the state row of a page that is gone stays. *)
ScanCommitQueues ==
  /\ scanner.page # NoPage
  /\ scanner' = NoScanner
  /\ tasks' = IF scanner.version # 0 /\ scanner.queue
              THEN Append(tasks, NewTask(scanner.page, "UPSERT", scanner.version)) ELSE tasks
  /\ UNCHANGED <<weather, page, state, index, consumer, editor, lost, dropped>>

(* The state row of a page that is gone is removed, any other page is       *)
(* queued unless a PENDING task of it was there.                            *)
ScanCommit ==
  /\ scanner.page # NoPage
  /\ scanner' = NoScanner
  /\ tasks' = IF scanner.version # 0 /\ scanner.queue
              THEN Append(tasks, NewTask(scanner.page, "UPSERT", scanner.version)) ELSE tasks
  /\ state' = IF scanner.version = 0 THEN [state EXCEPT ![scanner.page] = NoState] ELSE state
  /\ UNCHANGED <<weather, page, index, consumer, editor, lost, dropped>>

-----------------------------------------------------------------------------
(* The consumer: what it got from a poll it does in the order of the ids *)

Held    == {i \in DOMAIN tasks : tasks[i].held}
Current == CHOOSE i \in Held : \A j \in Held : i <= j

At(place) == consumer.at = place /\ UNCHANGED <<weather, page, editor, scanner, dropped>>
Go(place) == consumer' = [consumer EXCEPT !.at = place]

(* The place of an id among others. *)
Place(ids, i) == Cardinality({j \in ids : j <= i})

(* Poll and enqueueIfMissing read PENDING rows only.  A row that is not     *)
(* PENDING and not in the hands of the consumer is never touched again and  *)
(* not kept; a DELETE that goes this way undone is lost.                    *)
Keeps(row) == row.held \/ row.status = "PENDING"

(* The rows to keep, in the order of their ids. *)
Kept(table) ==
  LET ids == {i \in DOMAIN table : Keeps(table[i])}
  IN  [k \in 1..Cardinality(ids) |-> table[CHOOSE i \in ids : Place(ids, i) = k]]

Store(table) ==
  /\ tasks' = Kept(table)
  /\ lost' = lost \cup {table[i].page : i \in {j \in DOMAIN table :
                 ~Keeps(table[j]) /\ table[j].op = "DELETE" /\ table[j].status # "DONE"}}

(* The first Batch PENDING rows become PROCESSING, whether or not the       *)
(* answer arrives.                                                          *)
Polled(held) ==
  LET waiting == {i \in DOMAIN tasks : tasks[i].status = "PENDING"}
      taken   == {i \in waiting : Place(waiting, i) <= Batch}
  IN  /\ At("idle")
      /\ waiting # {}
      /\ Store([i \in DOMAIN tasks |-> IF i \in taken
                  THEN [tasks[i] EXCEPT !.status = "PROCESSING", !.held = held] ELSE tasks[i]])
      /\ UNCHANGED <<state, index>>

Poll     == Polled(TRUE) /\ consumer' = [Resting EXCEPT !.at = "start"]
PollLost == Polled(FALSE) /\ "http" \in weather /\ UNCHANGED consumer

(* The row is out of the consumer's hands as r; on to the next one. *)
Finish(r) ==
  LET i == Current
  IN  /\ Store([tasks EXCEPT ![i] = [r EXCEPT !.held = FALSE]])
      /\ consumer' = [Resting EXCEPT !.at = IF Held = {i} THEN "idle" ELSE "start"]

(* _fetch_page_content: an error, a page that is gone and a page without    *)
(* text look the same, and are acknowledged.                                *)
FetchText ==
  LET r == tasks[Current]
  IN  /\ At("start")
      /\ r.op = "UPSERT"
      /\ consumer' = IF page[r.page].text = 0 THEN [consumer EXCEPT !.at = "ack"]
                     ELSE [consumer EXCEPT !.at = "ingest", !.text = page[r.page].text]
      /\ UNCHANGED <<state, tasks, index, lost>>

FetchFails ==
  /\ At("start")
  /\ tasks[Current].op = "UPSERT"
  /\ \/ "http" \in weather /\ Go("nack")
     \/ "content" \in weather /\ Go("ack")
  /\ UNCHANGED <<state, tasks, index, lost>>

(* Mutant: as in ingest_wiki_page, a failed removal is only logged. *)
RemoveAnyhow ==
  /\ At("start")
  /\ tasks[Current].op = "DELETE"
  /\ \/ index' = [index EXCEPT ![tasks[Current].page] = 0] /\ Go("ack")
     \/ "rag" \in weather /\ UNCHANGED index /\ Go("ack")
  /\ UNCHANGED <<state, tasks, lost>>

(* delete_wiki_page raises unless the document is removed or was not there. *)
Remove ==
  /\ At("start")
  /\ tasks[Current].op = "DELETE"
  /\ \/ index' = [index EXCEPT ![tasks[Current].page] = 0] /\ Go("ack")
     \/ "rag" \in weather /\ UNCHANGED index /\ Go("nack")
  /\ UNCHANGED <<state, tasks, lost>>

(* ingest_wiki_page removes the old document, going on if that fails. *)
IngestRemove ==
  /\ At("ingest")
  /\ Go("insert")
  /\ \/ index' = [index EXCEPT ![tasks[Current].page] = 0]
     \/ "rag" \in weather /\ UNCHANGED index
  /\ UNCHANGED <<state, tasks, lost>>

Insert ==
  /\ At("insert")
  /\ index' = [index EXCEPT ![tasks[Current].page] = consumer.text]
  /\ Go("ack")
  /\ UNCHANGED <<state, tasks, lost>>

InsertFails ==
  /\ At("insert")
  /\ "rag" \in weather
  /\ Go("nack")
  /\ UNCHANGED <<state, tasks, index, lost>>

-----------------------------------------------------------------------------
(* The answers *)

AnswerRead ==
  /\ \/ At("ack") /\ consumer' = [consumer EXCEPT !.at = "acking", !.copy = state[tasks[Current].page]]
     \/ At("nack") /\ consumer' = [consumer EXCEPT !.at = "nacking", !.copy = state[tasks[Current].page]]
  /\ UNCHANGED <<state, tasks, index, lost>>

(* The state row went away or was inserted by somebody else. *)
Conflict ==
  LET r == tasks[Current]
      s == state[r.page]
  IN  \/ consumer.copy.exists /\ ~s.exists /\ (r.op = "UPSERT" \/ consumer.at = "acking")
      \/ ~consumer.copy.exists /\ s.exists /\ r.op = "UPSERT"

(* Mutant: the state row tells the version of the page and not of the task. *)
AckedAsCurrent(r, row) ==
  IF r.op = "UPSERT" THEN [exists |-> TRUE, status |-> "INDEXED", version |-> page[r.page].version]
  ELSE IF row.exists THEN NoState ELSE state[r.page]

(* What ack makes of the state row it read. *)
Acked(r, row) ==
  IF r.op = "UPSERT" THEN [exists |-> TRUE, status |-> "INDEXED", version |-> r.version]
  ELSE IF row.exists THEN NoState ELSE state[r.page]

(* After an answer that does not arrive the consumer sends a nack. *)
Ack ==
  LET r == tasks[Current]
  IN  /\ At("acking")
      /\ ~Conflict
      /\ state' = [state EXCEPT ![r.page] = Acked(r, consumer.copy)]
      /\ Finish([r EXCEPT !.status = "DONE"])
      /\ UNCHANGED index

AckAnswerLost ==
  LET r == tasks[Current]
  IN  /\ At("acking")
      /\ ~Conflict
      /\ "http" \in weather
      /\ state' = [state EXCEPT ![r.page] = Acked(r, consumer.copy)]
      /\ tasks' = [tasks EXCEPT ![Current].status = "DONE"]
      /\ Go("nack")
      /\ UNCHANGED <<index, lost>>

(* The status of the answer is not looked at: an error counts as an answer. *)
AckRefused ==
  /\ At("acking")
  /\ Conflict \/ "http" \in weather
  /\ Finish(tasks[Current])
  /\ UNCHANGED <<state, index>>

AckNotSent ==
  /\ At("acking")
  /\ "http" \in weather
  /\ Go("nack")
  /\ UNCHANGED <<state, tasks, index, lost>>

(* Mutant: the task waits again however often it failed. *)
NackedAgain(r) == [r EXCEPT !.retry = @ + 1, !.status = "PENDING"]

Nacked(r) ==
  [r EXCEPT !.retry = @ + 1,
            !.status = IF r.retry + 1 >= RetryMax THEN "DEAD" ELSE "PENDING"]

Nack ==
  LET r == tasks[Current]
  IN  /\ At("nacking")
      /\ ~Conflict
      /\ state' = IF r.op = "UPSERT"
                  THEN [state EXCEPT ![r.page] = [consumer.copy EXCEPT !.exists = TRUE, !.status = "FAILED"]]
                  ELSE state
      /\ Finish(Nacked(r))
      /\ UNCHANGED index

NackLost ==
  /\ At("nacking")
  /\ Conflict \/ "http" \in weather
  /\ Finish(tasks[Current])
  /\ UNCHANGED <<state, index>>

(* What the process had in its hands stays PROCESSING. *)
Restart ==
  /\ "restart" \in weather
  /\ consumer.at # "idle"
  /\ consumer' = Resting
  /\ Store([i \in DOMAIN tasks |-> [tasks[i] EXCEPT !.held = FALSE]])
  /\ UNCHANGED <<weather, page, state, index, editor, scanner, dropped>>

Work ==
  \/ FetchText \/ FetchFails \/ Remove \/ IngestRemove \/ Insert \/ InsertFails
  \/ AnswerRead \/ Ack \/ AckAnswerLost \/ AckRefused \/ AckNotSent \/ Nack \/ NackLost

Next ==
  \/ \E p \in Pages : SaveRead(p) \/ DeletePage(p) \/ ScanRead(p)
  \/ \E P \in SUBSET Pages : DeleteSpace(P)
  \/ SaveCommit \/ ScanCommit
  \/ Poll \/ PollLost \/ Work \/ Restart

Spec == Init /\ [][Next]_vars

(* The consumer's loop and the scheduler go on, transactions end, and what  *)
(* is tried again and again succeeds again and again: the poll, the fetch,  *)
(* the insertion and the ack.  Nobody has to edit.                          *)
Fairness ==
  /\ WF_vars(Work) /\ WF_vars(SaveCommit) /\ WF_vars(ScanCommit)
  /\ \A p \in Pages : SF_vars(ScanRead(p))
  /\ SF_vars(Poll) /\ SF_vars(FetchText) /\ SF_vars(Insert) /\ SF_vars(Ack)

FairSpec == Spec /\ Fairness

-----------------------------------------------------------------------------
(* What the index promises *)

Working(p) == Held # {} /\ tasks[Current].page = p

(* Calls of the backend or of LightRAG fail, one of the two; the consumer    *)
(* lives on, pages have a text and get fetched.                             *)
OnlyCallsFail == \E fault \in {"http", "rag"} : weather \subseteq {fault}

(* A page that is INDEXED at a version has in the index a text at least as  *)
(* new, unless the consumer is replacing it.                                *)
IndexedMeansThere ==
  OnlyCallsFail => \A p \in Pages :
    page[p].exists /\ state[p].status = "INDEXED" /\ ~Working(p) => index[p] >= state[p].version

(* What may undo a removal. *)
RemovalsMayFail == weather \cap {"http", "rag", "restart"} # {}

(* What the index holds of a page that was deleted by itself is still to be *)
(* removed, or the removal was given up, which takes a failed call or a     *)
(* restart.  Of a page that went with its space the index keeps what it     *)
(* has: nobody is told.                                                     *)
DeletionIsPending ==
  \A p \in Pages :
    ~page[p].exists /\ index[p] # 0 =>
      \/ p \in dropped
      \/ p \in lost /\ RemovalsMayFail
      \/ \E i \in DOMAIN tasks : tasks[i].page = p /\ tasks[i].op = "DELETE"

(* However calls fail and whatever is edited meanwhile, the current text of *)
(* a page gets into the index.                                              *)
PagesAreIndexed ==
  \A p \in Pages, v \in 1..MaxVersion :
    OnlyCallsFail /\ page[p].exists /\ page[p].version = v
      ~> ~page[p].exists \/ page[p].version # v \/ index[p] = v

(* No state row of a deleted page stays. *)
DeletedPagesForgotten ==
  \A p \in Pages : []<>(page[p].exists \/ ~state[p].exists)

=============================================================================
