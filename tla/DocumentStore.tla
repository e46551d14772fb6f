--------------------------- MODULE DocumentStore ---------------------------
(***************************************************************************)
(* The document store service: rows of the DocumentStore table, whose      *)
(* loaders are one JSON column, the DocumentStoreFileChunk table, and the  *)
(* requests that change them.                                              *)
(*                                                                         *)
(* Each database call is a step.  A request reads the whole row, changes   *)
(* it in memory and saves it whole, long after when it splits a document   *)
(* or fills the vector store in between; a save of a row that was deleted  *)
(* meanwhile inserts it again.  A request may fail, and the process may    *)
(* die, before each of its steps; the chunks a failed request was about to *)
(* insert in parallel may still land long after it is answered.            *)
(*                                                                         *)
(* A request names what is there when it is made, and a client that sends  *)
(* loaders of its own (PUT) sends those it is shown then.  Left out:       *)
(* uploaded files, storage usage, the upsert history and what the vector   *)
(* store holds, which decide nothing here; configurations (a missing one   *)
(* fails the request); items of a refresh that create stores; null bytes,  *)
(* which sanitizeChunkContent removes from the pages but not from          *)
(* totalChars.                                                             *)
(***************************************************************************)
EXTENDS Integers, FiniteSets, Functions

CONSTANTS
  Store, Loader,   \* ids of stores and of loaders, given out once
  NoStore, NoLoader, NoChunk,
  Length,          \* characters of a chunk
  Overlap,         \* may requests of one store overlap?
  MaxRequests,     \* bound: requests
  MaxPages,        \* bound: pages a document is split into
  MaxChunks,       \* bound: chunk ids ever given out
  MaxFailures      \* bound: requests that fail half-way

LoaderRow == [status : {"SYNCING", "SYNC"}, totalChunks : Int, totalChars : Int]
Status == {"EMPTY", "SYNC", "STALE", "UPSERTING", "UPSERTED"}
IsStoreRow(row) ==
  /\ DOMAIN row.loaders \subseteq Loader /\ row.status \in Status
  /\ \A d \in DOMAIN row.loaders : row.loaders[d] \in LoaderRow
Chunk == [id : 1 .. MaxChunks, doc : Loader, store : Store, length : Length]
Request == 1 .. MaxRequests

ASSUME StoreBounds == {MaxRequests, MaxPages, MaxChunks, MaxFailures} \subseteq Nat
ASSUME StoreConstants == Length \subseteq Nat /\ Overlap \in BOOLEAN
ASSUME StoreDistinct ==
  NoStore \notin Store /\ NoLoader \notin Loader /\ NoChunk \notin Chunk

VARIABLES
  stores,    \* the DocumentStore table: a row for each store there is
  chunks,    \* the DocumentStoreFileChunk table
  known,     \* ids of stores and loaders given out so far
  made,      \* chunk ids given out so far
  req,       \* requests
  copy,      \* request -> its copy of the row of its store
  failures,
  torn       \* loaders that a failed request left half changed (for the properties)

vars == <<stores, chunks, known, made, req, copy, failures, torn>>

Kinds == {"create", "save", "process", "upsert", "refresh", "insert", "config", "touch",
          "deleteLoader", "deleteChunk", "editChunk", "deleteStore"}

EmptyRow == [loaders |-> [d \in {} |-> NoLoader], status |-> "EMPTY"]

(* The pages of a request and those of them whose insert is running; the   *)
(* loaders a refresh is asked for, those of them it is to add, and those   *)
(* it has not come to.                                                     *)
Idle == [pc |-> "idle", kind |-> "none", store |-> NoStore, doc |-> NoLoader,
         chunk |-> NoChunk, pages |-> {}, running |-> {},
         asked |-> {}, added |-> {}, todo |-> {}]

Init ==
  /\ stores = [s \in {} |-> EmptyRow]
  /\ chunks = {}
  /\ known = {}
  /\ made = 0
  /\ req = [r \in Request |-> Idle]
  /\ copy = [r \in Request |-> EmptyRow]
  /\ failures = 0
  /\ torn = {}

-----------------------------------------------------------------------------
(* Rows.                                                                   *)

Docs(row) == DOMAIN row.loaders

(* A table, or the loaders of a row, with a row for k, and without it.     *)
Put(f, k, v) == [x \in DOMAIN f \cup {k} |-> IF x = k THEN v ELSE f[x]]
Drop(f, k) == [x \in DOMAIN f \ {k} |-> f[x]]

With(row, d, loader) == [loaders |-> Put(row.loaders, d, loader), status |-> row.status]
Without(row, d) == [loaders |-> Drop(row.loaders, d), status |-> row.status]
WithStatus(row, status) == [loaders |-> row.loaders, status |-> status]

CharsOf(cs) == SumFunction([c \in cs |-> c.length])

(* Mutant: a loader starts as NEW.                                         *)
ProcessingNew == [status |-> "NEW", totalChunks |-> 0, totalChars |-> 0]

(* saveProcessingLoader: the loader starts over.                           *)
Processing == [status |-> "SYNCING", totalChunks |-> 0, totalChars |-> 0]

(* Mutant: the totals are taken over from the loader that is replaced.     *)
ProcessedStale(row, d, pages) ==
  With(row, d, [row.loaders[d] EXCEPT !.status = "SYNC"])

(* The loader with the metrics of its new pages.                           *)
Processed(row, d, pages) ==
  With(row, d, [status |-> "SYNC", totalChunks |-> Cardinality(pages),
                totalChars |-> CharsOf(pages)])

Synced(row) == \A d \in Docs(row) : row.loaders[d].status = "SYNC"

(* The row that _saveChunksToStorage writes.                               *)
AfterProcess(row, d, pages) ==
  LET new == Processed(row, d, pages)
  IN  WithStatus(new, IF Synced(new) THEN "SYNC" ELSE "STALE")

(* A store that is upserted stays so when its configuration is saved.      *)
AfterConfig(row, named) ==
  IF named /\ row.status # "UPSERTED" THEN WithStatus(row, "SYNC") ELSE row

Recount(loader, number, chars) ==
  [loader EXCEPT !.totalChunks = @ + number, !.totalChars = @ + chars]

-----------------------------------------------------------------------------
(* Requests.                                                               *)

Busy(r) == req[r].pc \notin {"idle", "done", "late"}
At(r, pc) == req[r].pc = pc
StoreOf(r) == req[r].store
DocOf(r) == req[r].doc

Becomes(r, locals, row) ==
  /\ req' = [req EXCEPT ![r] = locals]
  /\ copy' = [copy EXCEPT ![r] = row]
Moves(r, locals) == Becomes(r, locals, copy[r])
Goto(r, pc) == Moves(r, [req[r] EXCEPT !.pc = pc])

(* The answer ends a request.                                              *)
Answer(r) == Becomes(r, [Idle EXCEPT !.pc = "done"], EmptyRow)

Undisturbed(s) == Overlap \/ \A q \in Request : Busy(q) => req[q].store # s

Begins(r, s) ==
  /\ req[r].pc = "idle" /\ \A q \in Request : q < r => req[q].pc # "idle"
  /\ Undisturbed(s)

Asks(r, kind, pc, s, d) ==
  Moves(r, [Idle EXCEPT !.pc = pc, !.kind = kind, !.store = s, !.doc = d])

(* A store is created by its own request, or by an upsert that brings its  *)
(* first loader along.                                                     *)
BeginNewStore(r, s) ==
  /\ Begins(r, s) /\ s \notin known
  /\ \/ /\ Asks(r, "create", "create", s, NoLoader)
        /\ known' = known \cup {s}
     \/ \E d \in Loader \ known :
          /\ Asks(r, "upsert", "create", s, d)
          /\ known' = known \cup {s, d}
  /\ UNCHANGED <<stores, chunks, made, failures, torn>>

(* A loader is added or saved again; the upsert API goes on to process it  *)
(* and to fill the vector store.                                           *)
BeginLoader(r, s, d, kind) ==
  /\ Begins(r, s) /\ s \in DOMAIN stores
  /\ d \notin known \/ d \in Docs(stores[s])
  /\ kind \in {"save", "upsert"}
  /\ Asks(r, kind, "readForSave", s, d)
  /\ known' = known \cup {d}
  /\ UNCHANGED <<stores, chunks, made, failures, torn>>

(* A loader is processed: the UI asks for it once the loader is saved.     *)
BeginProcess(r, s, d) ==
  /\ Begins(r, s) /\ s \in DOMAIN stores /\ d \in Docs(stores[s])
  /\ Asks(r, "process", "readForProcess", s, d)
  /\ UNCHANGED <<stores, chunks, known, made, failures, torn>>

(* A refresh of the loaders its items name, and of one more for each item  *)
(* that names none.                                                        *)
BeginRefreshOf(r, s, asked) ==
  /\ Begins(r, s) /\ s \in DOMAIN stores
  /\ asked # {} /\ asked \cap known \subseteq Docs(stores[s])
  /\ Moves(r, [Idle EXCEPT !.pc = "next", !.kind = "refresh", !.store = s,
                           !.asked = asked, !.added = asked \ known, !.todo = asked])
  /\ known' = known \cup asked
  /\ UNCHANGED <<stores, chunks, made, failures, torn>>

(* Requests about a whole store.                                           *)
BeginOnStore(r, s, kind) ==
  /\ Begins(r, s) /\ s \in DOMAIN stores
  /\ kind \in {"refresh", "insert", "config", "deleteStore"}
  /\ Asks(r, kind, CASE kind = "refresh" -> "list"
                     [] kind \in {"insert", "config"} -> "readForConfig"
                     [] OTHER -> "read", s, NoLoader)
  /\ UNCHANGED <<stores, chunks, known, made, failures, torn>>

(* The row is updated by a client that was shown it.                       *)
BeginTouch(r, s) ==
  /\ Begins(r, s) /\ s \in DOMAIN stores
  /\ Becomes(r, [Idle EXCEPT !.pc = "read", !.kind = "touch", !.store = s], stores[s])
  /\ UNCHANGED <<stores, chunks, known, made, failures, torn>>

(* A loader is deleted.                                                    *)
BeginDeleteLoader(r, s, d) ==
  /\ Begins(r, s) /\ s \in DOMAIN stores /\ d \in Docs(stores[s])
  /\ Asks(r, "deleteLoader", "read", s, d)
  /\ UNCHANGED <<stores, chunks, known, made, failures, torn>>

(* A chunk the user sees is deleted or edited.                             *)
BeginOnChunk(r, c, kind) ==
  /\ Begins(r, c.store) /\ c.store \in DOMAIN stores
  /\ kind \in {"deleteChunk", "editChunk"}
  /\ Moves(r, [Idle EXCEPT !.pc = "read", !.kind = kind, !.store = c.store,
                           !.doc = c.doc, !.chunk = c])
  /\ UNCHANGED <<stores, chunks, known, made, failures, torn>>

-----------------------------------------------------------------------------
(* Steps.                                                                  *)

(* A save updates the row, or inserts it when there is none.               *)
Save(r, row) == stores' = Put(stores, StoreOf(r), row)

(* The row as findOneBy returns it.                                        *)
Row(r) == stores[StoreOf(r)]

(* A request that does not find its store, or its loader, is refused.      *)
Missing(r) ==
  \/ StoreOf(r) \notin DOMAIN stores
  \/ req[r].kind \in {"deleteLoader", "deleteChunk", "editChunk"}
       /\ DocOf(r) \notin Docs(Row(r))

Reads(r, next) ==
  IF Missing(r) THEN Answer(r) ELSE Becomes(r, [req[r] EXCEPT !.pc = next], Row(r))

CreateStore(r) ==
  /\ At(r, "create")
  /\ Save(r, EmptyRow)
  /\ IF req[r].kind = "create" THEN Answer(r) ELSE Goto(r, "readForSave")
  /\ UNCHANGED <<chunks, known, made, failures, torn>>

(* Mutant: loaders that are SYNC are not refreshed.                        *)
RefreshedStale(row) == {d \in Docs(row) : row.loaders[d].status # "SYNC"}

Refreshed(row) == Docs(row)

(* A refresh without items lists the loaders of the store.                 *)
ListLoaders(r) ==
  /\ At(r, "list")
  /\ IF Missing(r) THEN Answer(r)
     ELSE Moves(r, [req[r] EXCEPT !.pc = "next", !.asked = Docs(Row(r)),
                                  !.todo = Refreshed(Row(r))])
  /\ UNCHANGED <<stores, chunks, known, made, failures, torn>>

(* The loaders are upserted one after the other; upsertDocStore looks up   *)
(* the one it is to replace.                                               *)
NextLoader(r) ==
  /\ At(r, "next")
  /\ IF req[r].todo = {} THEN Answer(r)
     ELSE \E d \in req[r].todo :
            IF d \notin req[r].added /\ (Missing(r) \/ d \notin Docs(Row(r))) THEN Answer(r)
            ELSE Moves(r, [req[r] EXCEPT !.pc = "readForSave", !.doc = d, !.todo = @ \ {d}])
  /\ UNCHANGED <<stores, chunks, known, made, failures, torn>>

ReadForSave(r) ==
  /\ At(r, "readForSave")
  /\ Reads(r, "saveLoader")
  /\ UNCHANGED <<stores, chunks, known, made, failures, torn>>

SaveLoader(r) ==
  /\ At(r, "saveLoader")
  /\ Save(r, With(copy[r], DocOf(r), Processing))
  /\ IF req[r].kind = "save" THEN Answer(r) ELSE Goto(r, "readForProcess")
  /\ UNCHANGED <<chunks, known, made, failures, torn>>

ReadForProcess(r) ==
  /\ At(r, "readForProcess")
  /\ Reads(r, "split")
  /\ UNCHANGED <<stores, chunks, known, made, failures, torn>>

(* The document is loaded and split; its pages get their ids, the shorter  *)
(* pages the lower ones: what follows does not depend on their order.      *)
Split(r) ==
  /\ At(r, "split")
  /\ \E n \in 0 .. MaxPages : \E text \in [1 .. n -> Length] :
       /\ made + n =< MaxChunks /\ \A i, j \in 1 .. n : i =< j => text[i] =< text[j]
       /\ made' = made + n
       /\ LET new == {[id |-> made + i, doc |-> DocOf(r), store |-> StoreOf(r),
                        length |-> text[i]] : i \in 1 .. n}
          IN  Moves(r, [req[r] EXCEPT !.pc = "dropChunks", !.pages = new, !.running = new])
  /\ UNCHANGED <<stores, chunks, known, failures, torn>>

(* Mutant: chunks are only ever deleted by loader.                         *)
ChunksLeftOfLoader(r) == {c \in chunks : c.doc # DocOf(r)}

(* The previous chunks of the loader, or all chunks of the store, go.      *)
ChunksLeft(r) ==
  {c \in chunks : IF req[r].kind = "deleteStore" THEN c.store # StoreOf(r)
                  ELSE c.doc # DocOf(r)}

(* Inserts of a loader that a failed request left running.                 *)
Late(d) == {c \in UNION {req[q].running : q \in {q \in Request : At(q, "late")}} : c.doc = d}

(* A loader whose chunks are replaced, or which goes, is whole again,      *)
(* unless an insert of an earlier request may still land.                  *)
DropChunks(r) ==
  /\ At(r, "dropChunks")
  /\ chunks' = ChunksLeft(r)
  /\ torn' = IF Late(DocOf(r)) = {} THEN torn \ {DocOf(r)} ELSE torn
  /\ Goto(r, CASE req[r].kind = "deleteLoader" -> "write"
               [] req[r].kind = "deleteStore" -> "deleteRow"
               [] OTHER -> "insertChunks")
  /\ UNCHANGED <<stores, known, made, failures>>

(* An insert ends.                                                         *)
Inserted(r, c) ==
  /\ chunks' = chunks \cup {c}
  /\ Moves(r, [req[r] EXCEPT !.running = @ \ {c}])
  /\ UNCHANGED <<stores, known, made, failures, torn>>

(* The new chunks are saved in parallel.                                   *)
InsertChunk(r) ==
  /\ At(r, "insertChunks")
  /\ \E c \in req[r].running : Inserted(r, c)

(* Promise.all rejects at the first failure; the other inserts go on.      *)
InsertLate(r) ==
  /\ At(r, "late")
  /\ \E c \in req[r].running : Inserted(r, c)

(* Then the loader gets its metrics.  When the row read before the split   *)
(* does not list it, the request ends in a TypeError; the chunks stay.     *)
SaveProcessed(r) ==
  /\ At(r, "insertChunks") /\ req[r].running = {}
  /\ IF DocOf(r) \in Docs(copy[r])
     THEN /\ Save(r, AfterProcess(copy[r], DocOf(r), req[r].pages))
          /\ Becomes(r, [req[r] EXCEPT !.pc = "readChunks", !.pages = {}], EmptyRow)
     ELSE Answer(r) /\ UNCHANGED stores
  /\ UNCHANGED <<chunks, known, made, failures, torn>>

(* The chunks are read back for the answer.                                *)
ReadChunks(r) ==
  /\ At(r, "readChunks")
  /\ IF Missing(r) \/ DocOf(r) \notin Docs(Row(r)) \/ req[r].kind = "process"
     THEN Answer(r) ELSE Goto(r, "readForConfig")
  /\ UNCHANGED <<stores, chunks, known, made, failures, torn>>

ReadForConfig(r) ==
  /\ At(r, "readForConfig")
  /\ Reads(r, "saveConfig")
  /\ UNCHANGED <<stores, chunks, known, made, failures, torn>>

(* saveVectorStoreConfig; an upsert always names its parts.                *)
SaveConfig(r) ==
  /\ At(r, "saveConfig")
  /\ \E named \in BOOLEAN :
       /\ named \/ req[r].kind = "config"
       /\ LET row == AfterConfig(copy[r], named)
          IN  /\ Save(r, row)
              /\ IF req[r].kind = "config" THEN Answer(r)
                 ELSE Becomes(r, [req[r] EXCEPT !.pc = "mark"], row)
  /\ UNCHANGED <<chunks, known, made, failures, torn>>

MarkUpserting(r) ==
  /\ At(r, "mark")
  /\ Save(r, WithStatus(copy[r], "UPSERTING"))
  /\ Goto(r, "readForUpsert")
  /\ UNCHANGED <<chunks, known, made, failures, torn>>

(* _insertIntoVectorStoreWorkerThread: the row is read, the vector store   *)
(* is filled, the row is saved.                                            *)
ReadForUpsert(r) ==
  /\ At(r, "readForUpsert")
  /\ Reads(r, "upserted")
  /\ UNCHANGED <<stores, chunks, known, made, failures, torn>>

SaveUpserted(r) ==
  /\ At(r, "upserted")
  /\ Save(r, WithStatus(copy[r], "UPSERTED"))
  /\ IF req[r].kind = "refresh" THEN Goto(r, "next") ELSE Answer(r)
  /\ UNCHANGED <<chunks, known, made, failures, torn>>

-----------------------------------------------------------------------------
(* Deletions and edits.                                                    *)

Read(r) ==
  /\ At(r, "read") /\ req[r].kind # "touch"
  /\ Reads(r, IF req[r].kind \in {"deleteChunk", "editChunk"} THEN "readChunk" ELSE "dropChunks")
  /\ UNCHANGED <<stores, chunks, known, made, failures, torn>>

(* An update takes the loaders of the body, when it has any.               *)
ReadForTouch(r) ==
  /\ At(r, "read") /\ req[r].kind = "touch"
  /\ IF Missing(r) THEN Answer(r)
     ELSE \E loaders \in {Row(r).loaders, copy[r].loaders} :
            Becomes(r, [req[r] EXCEPT !.pc = "write"],
                    [loaders |-> loaders, status |-> Row(r).status])
  /\ UNCHANGED <<stores, chunks, known, made, failures, torn>>

ReadChunk(r) ==
  /\ At(r, "readChunk")
  /\ LET found == {c \in chunks : c.id = req[r].chunk.id}
     IN  IF found = {} THEN Answer(r)
         ELSE \E c \in found : Moves(r, [req[r] EXCEPT !.pc = "changeChunk", !.chunk = c])
  /\ UNCHANGED <<stores, chunks, known, made, failures, torn>>

(* The chunk is deleted, or saved with its new content, and the copy of    *)
(* the row is brought up to date.                                          *)
ChangeChunk(r) ==
  /\ At(r, "changeChunk")
  /\ LET c == req[r].chunk
         others == {x \in chunks : x.id # c.id}
         Counted(number, chars) ==
           With(copy[r], DocOf(r), Recount(copy[r].loaders[DocOf(r)], number, chars))
         ToWrite(row) == Becomes(r, [req[r] EXCEPT !.pc = "write"], row)
     IN  IF req[r].kind = "deleteChunk"
         THEN chunks' = others /\ ToWrite(Counted(-1, - c.length))
         ELSE \E length \in Length :
                /\ chunks' = others \cup {[c EXCEPT !.length = length]}
                /\ ToWrite(Counted(0, length - c.length))
  /\ UNCHANGED <<stores, known, made, failures, torn>>

RowToWrite(r) ==
  IF req[r].kind = "deleteLoader" THEN Without(copy[r], DocOf(r)) ELSE copy[r]

Write(r) ==
  /\ At(r, "write")
  /\ Save(r, RowToWrite(r))
  /\ Answer(r)
  /\ UNCHANGED <<chunks, known, made, failures, torn>>

DeleteRow(r) ==
  /\ At(r, "deleteRow")
  /\ stores' = Drop(stores, StoreOf(r))
  /\ Answer(r)
  /\ UNCHANGED <<chunks, known, made, failures, torn>>

(* The loaders a request leaves half changed when it fails: their chunks   *)
(* are not those their row counts.                                         *)
HalfChanged(r) ==
  CASE At(r, "deleteRow") -> Docs(copy[r])
    [] At(r, "insertChunks") -> {DocOf(r)}
    [] At(r, "write") /\ req[r].kind # "touch" -> {DocOf(r)}
    [] OTHER -> {}

(* The answer to a request of which inserts are still running.             *)
AnswerEarly(r, left) ==
  Becomes(r, [Idle EXCEPT !.pc = "late", !.kind = req[r].kind, !.store = StoreOf(r),
                          !.doc = DocOf(r), !.pages = left, !.running = left], EmptyRow)

(* A request fails half-way: the process dies, or a call fails, which may  *)
(* be the insert of one of the pages.                                      *)
Fail(r) ==
  /\ Busy(r) /\ failures < MaxFailures
  /\ failures' = failures + 1
  /\ torn' = torn \cup HalfChanged(r)
  /\ \/ Answer(r)
     \/ /\ At(r, "insertChunks")
        /\ \E c \in req[r].running :
             req[r].running # {c} /\ AnswerEarly(r, req[r].running \ {c})
  /\ UNCHANGED <<stores, chunks, known, made>>

-----------------------------------------------------------------------------
Begin(r) ==
  \/ \E s \in Store : BeginNewStore(r, s)
  \/ \E s \in Store, d \in Loader, kind \in Kinds : BeginLoader(r, s, d, kind)
  \/ \E s \in Store, d \in Loader : BeginProcess(r, s, d)
  \/ \E s \in Store, asked \in SUBSET Loader : BeginRefreshOf(r, s, asked)
  \/ \E s \in Store, kind \in Kinds : BeginOnStore(r, s, kind)
  \/ \E s \in Store : BeginTouch(r, s)
  \/ \E s \in Store, d \in Loader : BeginDeleteLoader(r, s, d)
  \/ \E c \in chunks, kind \in Kinds : BeginOnChunk(r, c, kind)

Proceed(r) ==
  \/ CreateStore(r) \/ ListLoaders(r) \/ NextLoader(r)
  \/ ReadForSave(r) \/ SaveLoader(r) \/ ReadForProcess(r) \/ Split(r)
  \/ DropChunks(r) \/ InsertChunk(r) \/ SaveProcessed(r) \/ ReadChunks(r)
  \/ ReadForConfig(r) \/ SaveConfig(r) \/ MarkUpserting(r)
  \/ ReadForUpsert(r) \/ SaveUpserted(r)
  \/ Read(r) \/ ReadForTouch(r) \/ ReadChunk(r) \/ ChangeChunk(r) \/ Write(r) \/ DeleteRow(r)

Next == \E r \in Request : Begin(r) \/ Proceed(r) \/ InsertLate(r) \/ Fail(r)

Spec == Init /\ [][Next]_vars
=============================================================================
