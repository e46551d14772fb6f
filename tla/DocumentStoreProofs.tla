------------------------- MODULE DocumentStoreProofs -------------------------
(***************************************************************************)
(* Machine-checked proofs about the document store, for any number of      *)
(* stores, loaders, chunks and requests, any of which may fail at any step *)
(* and of which those of one store do not overlap: types, that no chunk is *)
(* left without its loader or its store, that the totals of a loader are   *)
(* those of its chunks, and that a refresh which is done has synchronised  *)
(* every loader it was asked for.  Inserts that outlive their request are  *)
(* followed to their end: they are what the first two except.  The totals  *)
(* are sums over the table, so facts about sums are proved first.          *)
(***************************************************************************)
EXTENDS DocumentStoreProperties, FiniteSetTheorems, NaturalsInduction, TLAPS

Pcs == {"idle", "done", "create", "list", "next", "readForSave", "saveLoader", "readForProcess",
        "split", "dropChunks", "insertChunks", "readChunks", "readForConfig", "saveConfig",
        "mark", "readForUpsert", "upserted", "read", "readChunk", "changeChunk", "write",
        "deleteRow", "late"}

RequestRow == [pc : Pcs, kind : Kinds \cup {"none"}, store : Store \cup {NoStore},
               doc : Loader \cup {NoLoader}, chunk : Chunk \cup {NoChunk},
               pages : SUBSET Chunk, running : SUBSET Chunk,
               asked : SUBSET Loader, added : SUBSET Loader, todo : SUBSET Loader]

(* Types, of which those of the rows are left out: no chunk is lost        *)
(* whatever a loader counts.                                               *)
TablesInv ==
  /\ chunks \subseteq Chunk
  /\ made \in Nat
  /\ DOMAIN stores \subseteq Store \cap known
  /\ \A s \in DOMAIN stores : Docs(stores[s]) \subseteq Loader

RequestTypes ==
  /\ req \in [Request -> RequestRow]
  /\ copy = [r \in Request |-> copy[r]]
  /\ \A r \in Request : Docs(copy[r]) \subseteq Loader

(* A chunk, wherever it is held, keeps the loader and store its id was     *)
(* given out for.                                                          *)
Held ==
  {c \in Chunk : c \in chunks \/ \E r \in Request : c \in req[r].pages \/ c = req[r].chunk}
SameRow(b, c) == b.id = c.id /\ b.doc = c.doc /\ b.store = c.store
IdInv ==
  /\ \A c \in Held : c.id =< made
  /\ \A b, c \in Held : b.id = c.id => SameRow(b, c)

Exclusive == \A q, r \in Request : Busy(q) /\ Busy(r) /\ StoreOf(q) = StoreOf(r) => q = r

Splits(r) ==
  \/ At(r, "insertChunks")
  \/ At(r, "dropChunks") /\ req[r].kind \notin {"deleteLoader", "deleteStore"}

(* The steps at which a request has pages.                                 *)
Files(r) == Splits(r) \/ At(r, "late")

(* The steps at which the copy of a request lists the loaders of its store *)
(* as they are, and those at which its loader is one of them.              *)
CopyIsCurrent(r) ==
  \/ req[r].pc \in {"saveLoader", "split", "dropChunks", "insertChunks", "saveConfig", "mark",
                    "upserted", "write", "readChunk", "changeChunk", "deleteRow"}
  \/ At(r, "read") /\ req[r].kind = "touch"
LoaderIsListed(r) ==
  \/ req[r].pc \in {"readForProcess", "split", "insertChunks", "readChunk", "changeChunk"}
  \/ At(r, "dropChunks") /\ req[r].kind # "deleteStore"

(* The steps of a request that is about to fill a loader.                  *)
FillsLoader(r) ==
  \/ req[r].pc \in {"readForSave", "saveLoader", "readForProcess", "split"}
  \/ At(r, "create") /\ req[r].kind # "create"

(* What holds between a request and its store at each of its steps.        *)
RequestInv(r) ==
  LET s == StoreOf(r)
      d == DocOf(r)
  IN  /\ Busy(r) => s \in Store \cap known
      /\ At(r, "create") => s \notin DOMAIN stores
      /\ FillsLoader(r) => d \in Loader
      /\ At(r, "read") =>
           req[r].kind \in {"touch", "deleteStore", "deleteLoader", "deleteChunk", "editChunk"}
      /\ CopyIsCurrent(r) => s \in DOMAIN stores /\ Docs(copy[r]) = Docs(stores[s])
      /\ LoaderIsListed(r) => s \in DOMAIN stores /\ d \in Docs(stores[s])
      /\ Files(r) => \A c \in req[r].pages : c.doc = d /\ c.store = s
      /\ req[r].running \subseteq req[r].pages
      /\ req[r].pc \in {"read", "readChunk", "changeChunk"}
           /\ req[r].kind \in {"deleteChunk", "editChunk"} =>
           req[r].chunk \in Chunk /\ req[r].chunk.doc = d /\ req[r].chunk.store = s
      /\ req[r].pc \in {"readChunk", "changeChunk"} => req[r].kind \in {"deleteChunk", "editChunk"}
      /\ At(r, "write") /\ req[r].kind = "deleteLoader" =>
           \A c \in chunks : c.store = s /\ c.doc = d => Stray(c)
      /\ At(r, "deleteRow") => \A c \in chunks : c.store = s => Stray(c)

OrphanInv ==
  /\ TablesInv /\ RequestTypes /\ IdInv /\ Exclusive /\ NoOrphans
  /\ \A r \in Request : RequestInv(r)

-----------------------------------------------------------------------------
(* What a step of one request leaves alone.                                *)

(* Only the row of store s and its chunks change.                          *)
Frame(s) ==
  /\ known \subseteq known'
  /\ \A t \in Store : t # s =>
       /\ t \in DOMAIN stores' <=> t \in DOMAIN stores
       /\ t \in DOMAIN stores => stores'[t] = stores[t]
  /\ \A c \in chunks' : c \in chunks \/ c.store = s

(* Only request r moves, and works on store s as long as it is busy.       *)
OnlyRequest(r, s) ==
  /\ req' = [req EXCEPT ![r] = req'[r]]
  /\ copy' = [copy EXCEPT ![r] = copy'[r]]
  /\ req'[r] \in RequestRow
  /\ Docs(copy'[r]) \subseteq Loader
  /\ req'[r].pc \notin {"idle", "done", "late"} => req'[r].store = s

(* No other request works on store s.                                      *)
Alone(r, s) == \A q \in Request \ {r} : Busy(q) => StoreOf(q) # s

(* A chunk is at home, or was astray before.                               *)
StayHome ==
  \A c \in chunks' :
    Stray(c) \/ (c.store \in DOMAIN stores' /\ c.doc \in Docs(stores'[c.store]))

(* No step takes back that a chunk came late.                              *)
LEMMA StrayStays ==
  ASSUME req \in [Request -> RequestRow], NEW r \in Request, req' = [req EXCEPT ![r] = req'[r]],
         At(r, "late") => At(r, "late")' /\ req'[r].pages = req[r].pages,
         NEW c, Stray(c)
  PROVE  Stray(c)'
<1>1. PICK q \in Request : At(q, "late") /\ \E p \in req[q].pages : p.id = c.id
  BY DEF Stray
<1>2. At(q, "late")' /\ req'[q].pages = req[q].pages
  BY <1>1 DEF At
<1> QED
  BY <1>1, <1>2 DEF Stray

(* What a step must show, but for the ids of chunks.                       *)
LEMMA StepKeeps ==
  ASSUME OrphanInv, NEW r \in Request, NEW s, Alone(r, s), Frame(s), OnlyRequest(r, s),
         ~ At(r, "late"), TablesInv', StayHome, IdInv', RequestInv(r)'
  PROVE  OrphanInv'
<1>1. req \in [Request -> RequestRow] /\ copy = [q \in Request |-> copy[q]]
  BY DEF OrphanInv, RequestTypes
<1>2. \A q \in Request : q # r => req'[q] = req[q] /\ copy'[q] = copy[q]
  BY <1>1 DEF OnlyRequest
<1>3. RequestTypes'
  <2>1. req' \in [Request -> RequestRow]
    BY <1>1 DEF OnlyRequest
  <2>2. copy' = [q \in Request |-> copy'[q]]
    BY <1>1 DEF OnlyRequest
  <2>3. \A q \in Request : Docs(copy'[q]) \subseteq Loader
    BY <1>2 DEF OnlyRequest, OrphanInv, RequestTypes, Docs
  <2> QED
    BY <2>1, <2>2, <2>3 DEF RequestTypes, Docs
<1>4. Exclusive'
  BY <1>1, <1>2 DEF Exclusive, OrphanInv, OnlyRequest, Alone, Busy, StoreOf
<1>s. ASSUME NEW c, Stray(c) PROVE Stray(c)'
  BY <1>1, <1>s, StrayStays DEF OnlyRequest
<1>h. NoOrphans'
  <2> SUFFICES ASSUME NEW c \in chunks'
               PROVE  Stray(c)' \/ (c.store \in DOMAIN stores' /\ c.doc \in Docs(stores'[c.store]))
    BY DEF NoOrphans, Docs
  <2> QED
    BY <1>s DEF StayHome
<1>5. ASSUME NEW q \in Request, q # r PROVE RequestInv(q)'
  <2>1. RequestInv(q) /\ req'[q] = req[q] /\ copy'[q] = copy[q]
    BY <1>2, <1>5 DEF OrphanInv
  <2>2. CASE ~ Busy(q)
    BY <2>1, <2>2
    DEF RequestInv, Busy, At, CopyIsCurrent, LoaderIsListed, FillsLoader, Splits, Files, StoreOf,
        DocOf
  <2>3. CASE Busy(q)
    <3> DEFINE t == StoreOf(q)
    <3>1. t \in Store /\ t # s
      BY <2>1, <2>3, <1>5 DEF Alone, RequestInv
    <3>2. /\ t \in DOMAIN stores' <=> t \in DOMAIN stores
          /\ t \in DOMAIN stores => stores'[t] = stores[t]
          /\ \A c \in chunks' : c.store = t => c \in chunks
          /\ known \subseteq known'
      BY <3>1 DEF Frame
    <3> HIDE DEF t
    <3>3. t = StoreOf(q)
      BY DEF t
    <3> QED
      BY <1>s, <2>1, <3>2, <3>3
      DEF RequestInv, Busy, At, CopyIsCurrent, LoaderIsListed, FillsLoader, Splits, Files, StoreOf,
          DocOf, Docs
  <2> QED
    BY <2>2, <2>3
<1> QED
  BY <1>3, <1>4, <1>5, <1>h DEF OrphanInv

(* A step that makes no new chunk id.                                      *)
LEMMA IdsStay ==
  ASSUME OrphanInv, NEW r \in Request, made' = made,
         req' = [req EXCEPT ![r] = req'[r]],
         \A c \in chunks' \cup req'[r].pages \cup {req'[r].chunk} :
           c \in Chunk => \E b \in Held : SameRow(b, c)
  PROVE  IdInv'
<1>1. req \in [Request -> RequestRow]
  BY DEF OrphanInv, RequestTypes
<1>2. ASSUME NEW c \in Held' PROVE \E b \in Held : SameRow(b, c)
  <2>1. c \in Chunk
    BY DEF Held, Chunk
  <2>2. PICK q \in Request : c \in chunks' \/ c \in req'[q].pages \/ c = req'[q].chunk
    BY DEF Held
  <2>3. CASE c \in chunks' \/ q = r
    BY <2>1, <2>2, <2>3
  <2>4. CASE c \notin chunks' /\ q # r
    <3>1. req'[q] = req[q]
      BY <1>1, <2>4
    <3> QED
      BY <2>1, <2>2, <2>4, <3>1 DEF Held, SameRow
  <2> QED
    BY <2>3, <2>4
<1>3. \A c \in Held' : c.id =< made'
  BY <1>2 DEF OrphanInv, IdInv, SameRow
<1>4. ASSUME NEW b \in Held', NEW c \in Held', b.id = c.id PROVE SameRow(b, c)
  <2>1. PICK x \in Held : SameRow(x, b)
    BY <1>2
  <2>2. PICK y \in Held : SameRow(y, c)
    BY <1>2
  <2> QED
    BY <1>4, <2>1, <2>2 DEF OrphanInv, IdInv, SameRow
<1> QED
  BY <1>3, <1>4 DEF IdInv, SameRow

(* Steps that bring no chunk into play that was not there.                 *)
LEMMA ProceedKeeps ==
  ASSUME OrphanInv, NEW r \in Request, Busy(r), Frame(StoreOf(r)), OnlyRequest(r, StoreOf(r)),
         TablesInv', StayHome, RequestInv(r)', made' = made,
         \A c \in chunks' \cup req'[r].pages \cup {req'[r].chunk} :
           c \in Chunk => \E b \in Held : SameRow(b, c)
  PROVE  OrphanInv'
<1>1. IdInv'
  BY IdsStay DEF OnlyRequest
<1>2. Alone(r, StoreOf(r))
  BY DEF OrphanInv, Exclusive, Alone
<1> QED
  BY <1>1, <1>2, StepKeeps DEF Busy, At

LEMMA ChunkIsHeld ==
  ASSUME NEW r \in Request, NEW c \in Chunk,
         c \in chunks \/ c \in req[r].pages \/ c = req[r].chunk
  PROVE  \E b \in Held : SameRow(b, c)
<1>1. c \in Held
  BY DEF Held
<1> QED
  BY <1>1 DEF SameRow

LEMMA AnswerIsLocal ==
  ASSUME OrphanInv, NEW r \in Request, Answer(r)
  PROVE  /\ OnlyRequest(r, StoreOf(r)) /\ RequestInv(r)'
         /\ req'[r].pages = {} /\ req'[r].chunk = NoChunk
<1> DEFINE locals == [Idle EXCEPT !.pc = "done"]
<1>1. req[r] \in RequestRow /\ req \in [Request -> RequestRow] /\ copy = [q \in Request |-> copy[q]]
  BY DEF OrphanInv, RequestTypes
<1>2. /\ locals \in RequestRow /\ locals.pc = "done" /\ locals.pages = {} /\ locals.running = {}
      /\ locals.chunk = NoChunk
  BY <1>1 DEF RequestRow, Idle, Pcs, StoreOf
<1> HIDE DEF locals
<1>3. Becomes(r, locals, EmptyRow)
  BY DEF Answer, locals
<1>4. /\ req' = [req EXCEPT ![r] = req'[r]] /\ copy' = [copy EXCEPT ![r] = copy'[r]]
      /\ req'[r] = locals /\ copy'[r] = EmptyRow
  BY <1>1, <1>3 DEF Becomes
<1>5. Docs(EmptyRow) \subseteq Loader
  BY DEF Docs, EmptyRow
<1> QED
  BY <1>2, <1>4, <1>5
  DEF OnlyRequest, RequestInv, Busy, At, CopyIsCurrent, LoaderIsListed, FillsLoader, Splits, Files,
      StoreOf, DocOf, Docs

LEMMA MoveIsLocal ==
  ASSUME OrphanInv, NEW r \in Request, NEW locals \in RequestRow, NEW row, Docs(row) \subseteq
         Loader,
         Becomes(r, locals, row), locals.store = StoreOf(r)
  PROVE  OnlyRequest(r, StoreOf(r)) /\ req'[r] = locals /\ copy'[r] = row
<1>1. req \in [Request -> RequestRow] /\ copy = [q \in Request |-> copy[q]]
  BY DEF OrphanInv, RequestTypes
<1>2. /\ req' = [req EXCEPT ![r] = req'[r]] /\ copy' = [copy EXCEPT ![r] = copy'[r]]
      /\ req'[r] = locals /\ copy'[r] = row
  BY <1>1 DEF Becomes
<1> QED
  BY <1>2 DEF OnlyRequest, Docs

(* A step that changes no table.                                           *)
LEMMA TablesStay ==
  ASSUME OrphanInv, NEW r \in Request, UNCHANGED <<stores, chunks, known, made>>
  PROVE  Frame(StoreOf(r)) /\ TablesInv' /\ StayHome
BY DEF Frame, OrphanInv, TablesInv, NoOrphans, StayHome, Docs

LEMMA RefusalKeeps ==
  ASSUME OrphanInv, NEW r \in Request, Busy(r), Answer(r), UNCHANGED <<stores, chunks, known, made>>
  PROVE  OrphanInv'
<1>1. Frame(StoreOf(r)) /\ TablesInv' /\ StayHome
  BY TablesStay
<1>2. /\ OnlyRequest(r, StoreOf(r)) /\ RequestInv(r)'
      /\ req'[r].pages = {} /\ req'[r].chunk = NoChunk
  BY AnswerIsLocal
<1>3. \A c \in chunks' \cup req'[r].pages \cup {req'[r].chunk} :
        c \in Chunk => \E b \in Held : SameRow(b, c)
  BY <1>2, ChunkIsHeld, StoreDistinct
<1> QED
  BY <1>1, <1>2, <1>3, ProceedKeeps

LEMMA LookKeeps ==
  ASSUME OrphanInv, NEW r \in Request, Busy(r), UNCHANGED <<stores, chunks, known, made>>,
         NEW locals \in RequestRow, NEW row, Docs(row) \subseteq Loader, Becomes(r, locals, row),
         locals.store = StoreOf(r), locals.pages \subseteq req[r].pages,
         locals.chunk \in chunks \cup {req[r].chunk, NoChunk},
         RequestInv(r)'
  PROVE  OrphanInv'
<1>1. Frame(StoreOf(r)) /\ TablesInv' /\ StayHome
  BY TablesStay
<1>2. OnlyRequest(r, StoreOf(r)) /\ req'[r] = locals
  BY MoveIsLocal
<1>3. \A c \in chunks' \cup req'[r].pages \cup {req'[r].chunk} :
        c \in Chunk => \E b \in Held : SameRow(b, c)
  BY <1>2, ChunkIsHeld, StoreDistinct
<1> QED
  BY <1>1, <1>2, <1>3, ProceedKeeps

(* A save of a row that lists every loader of a chunk of its store, but    *)
(* for chunks astray.                                                      *)
Lists(row, s) == \A c \in chunks : c.store = s => Stray(c) \/ c.doc \in Docs(row)

LEMMA SaveKeepsTables ==
  ASSUME OrphanInv, NEW r \in Request, Busy(r), NEW row, Docs(row) \subseteq Loader, Save(r, row),
         UNCHANGED <<chunks, known, made>>,
         Lists(row, StoreOf(r))
  PROVE  /\ Frame(StoreOf(r)) /\ TablesInv' /\ StayHome
         /\ StoreOf(r) \in DOMAIN stores' /\ stores'[StoreOf(r)] = row
<1> DEFINE s == StoreOf(r)
<1>1. s \in Store \cap known
  BY DEF OrphanInv, RequestInv
<1>2. /\ DOMAIN stores' = DOMAIN stores \cup {s} /\ stores'[s] = row
      /\ \A t \in DOMAIN stores : t # s => stores'[t] = stores[t]
  BY DEF Save, Put
<1> HIDE DEF s
<1>3. s = StoreOf(r)
  BY DEF s
<1>4. Frame(s)
  BY <1>2 DEF Frame
<1>5. TablesInv'
  BY <1>1, <1>2 DEF TablesInv, OrphanInv, Docs
<1>6. StayHome
  BY <1>2, <1>3 DEF StayHome, Lists, NoOrphans, OrphanInv, Docs
<1> QED
  BY <1>2, <1>3, <1>4, <1>5, <1>6

LEMMA SaveKeeps ==
  ASSUME OrphanInv, NEW r \in Request, Busy(r), NEW row, Docs(row) \subseteq Loader, Save(r, row),
         UNCHANGED <<chunks, known, made>>,
         Lists(row, StoreOf(r)),
         OnlyRequest(r, StoreOf(r)),
         req'[r].pages \in {{}, req[r].pages}, req'[r].chunk \in {NoChunk, req[r].chunk},
         RequestInv(r)'
  PROVE  OrphanInv'
<1>1. Frame(StoreOf(r)) /\ TablesInv' /\ StayHome
  BY SaveKeepsTables
<1>2. \A c \in chunks' \cup req'[r].pages \cup {req'[r].chunk} :
        c \in Chunk => \E b \in Held : SameRow(b, c)
  BY ChunkIsHeld, StoreDistinct
<1> QED
  BY <1>1, <1>2, ProceedKeeps

-----------------------------------------------------------------------------
(* The steps that change no table.                                         *)

LEMMA RequestRowFacts ==
  ASSUME OrphanInv, NEW r \in Request
  PROVE  req[r] \in RequestRow /\ RequestInv(r) /\ Docs(copy[r]) \subseteq Loader
BY DEF OrphanInv, RequestTypes

(* A request reads the row of its store.                                   *)
LEMMA ReadsKeeps ==
  ASSUME OrphanInv, NEW r \in Request, Busy(r), NEW next \in Pcs, Reads(r, next),
         UNCHANGED <<stores, chunks, known, made>>,
         next \in {"saveLoader", "split", "saveConfig", "upserted", "readChunk", "dropChunks"},
         next = "split" => At(r, "readForProcess"),
         next = "saveLoader" => At(r, "readForSave"),
         next = "dropChunks" => req[r].kind \in {"deleteLoader", "deleteStore"},
         next = "readChunk" => At(r, "read") /\ req[r].kind \in {"deleteChunk", "editChunk"}
  PROVE  OrphanInv'
<1>1. CASE Missing(r)
  BY <1>1, RefusalKeeps DEF Reads
<1>2. CASE ~ Missing(r)
  <2> DEFINE locals == [req[r] EXCEPT !.pc = next]
  <2>1. req[r] \in RequestRow /\ RequestInv(r)
    BY RequestRowFacts
  <2>2. /\ locals \in RequestRow /\ locals.pc = next /\ locals.kind = req[r].kind
        /\ locals.store = StoreOf(r) /\ locals.doc = DocOf(r) /\ locals.pages = req[r].pages
        /\ locals.chunk = req[r].chunk /\ locals.running = req[r].running
    BY <2>1 DEF RequestRow, StoreOf, DocOf
  <2>3. Becomes(r, locals, Row(r))
    BY <1>2 DEF Reads
  <2> HIDE DEF locals
  <2>4. StoreOf(r) \in DOMAIN stores
    BY <1>2 DEF Missing
  <2>5. Docs(Row(r)) \subseteq Loader
    BY <2>4 DEF Row, OrphanInv, TablesInv
  <2>6. OnlyRequest(r, StoreOf(r)) /\ req'[r] = locals /\ copy'[r] = Row(r)
    BY <2>2, <2>3, <2>5, MoveIsLocal
  <2>7. req[r].kind \in {"deleteLoader", "deleteChunk", "editChunk"} => DocOf(r) \in Docs(Row(r))
    BY <1>2 DEF Missing
  <2>8. RequestInv(r)'
    BY <2>1, <2>2, <2>4, <2>6, <2>7
    DEF RequestInv, Busy, At, CopyIsCurrent, LoaderIsListed, FillsLoader, Splits, Files,
        StoreOf, DocOf, Row, Docs
  <2> QED
    BY <2>2, <2>3, <2>5, <2>8, LookKeeps
<1> QED
  BY <1>1, <1>2

LEMMA ReadForSaveKeeps ==
  ASSUME OrphanInv, NEW r \in Request, ReadForSave(r)
  PROVE  OrphanInv'
BY ReadsKeeps DEF ReadForSave, Busy, At, Pcs

LEMMA ReadForProcessKeeps ==
  ASSUME OrphanInv, NEW r \in Request, ReadForProcess(r)
  PROVE  OrphanInv'
BY ReadsKeeps DEF ReadForProcess, Busy, At, Pcs

LEMMA ReadForConfigKeeps ==
  ASSUME OrphanInv, NEW r \in Request, ReadForConfig(r)
  PROVE  OrphanInv'
BY ReadsKeeps DEF ReadForConfig, Busy, At, Pcs

LEMMA ReadForUpsertKeeps ==
  ASSUME OrphanInv, NEW r \in Request, ReadForUpsert(r)
  PROVE  OrphanInv'
BY ReadsKeeps DEF ReadForUpsert, Busy, At, Pcs

LEMMA ReadKeeps ==
  ASSUME OrphanInv, NEW r \in Request, Read(r)
  PROVE  OrphanInv'
<1>1. req[r].kind \in {"deleteStore", "deleteLoader", "deleteChunk", "editChunk"}
  BY RequestRowFacts DEF Read, RequestInv
<1>2. Busy(r) /\ UNCHANGED <<stores, chunks, known, made>>
  BY DEF Read, Busy, At
<1>4. CASE req[r].kind \in {"deleteChunk", "editChunk"}
  BY <1>2, <1>4, ReadsKeeps DEF Read, Pcs
<1>5. CASE req[r].kind \in {"deleteStore", "deleteLoader"}
  BY <1>2, <1>5, ReadsKeeps DEF Read, Pcs
<1> QED
  BY <1>1, <1>4, <1>5

(* The row of the table takes the loaders the client sends, which are those*)
(* it was shown.                                                           *)
LEMMA ReadForTouchKeeps ==
  ASSUME OrphanInv, NEW r \in Request, ReadForTouch(r)
  PROVE  OrphanInv'
<1>1. Busy(r) /\ CopyIsCurrent(r) /\ UNCHANGED <<stores, chunks, known, made>>
  BY DEF ReadForTouch, Busy, At, CopyIsCurrent
<1>2. CASE Answer(r)
  BY <1>1, <1>2, RefusalKeeps
<1>3. CASE ~ Answer(r)
  <2>1. PICK loaders \in {Row(r).loaders, copy[r].loaders} :
          Becomes(r, [req[r] EXCEPT !.pc = "write"],
                  [loaders |-> loaders, status |-> Row(r).status])
    BY <1>3 DEF ReadForTouch
  <2> DEFINE locals == [req[r] EXCEPT !.pc = "write"]
             row == [loaders |-> loaders, status |-> Row(r).status]
  <2>2. req[r] \in RequestRow /\ RequestInv(r) /\ Docs(copy[r]) \subseteq Loader
    BY RequestRowFacts
  <2>3. /\ locals \in RequestRow /\ locals.pc = "write" /\ locals.kind = "touch"
        /\ locals.store = StoreOf(r) /\ locals.doc = DocOf(r) /\ locals.pages = req[r].pages
        /\ locals.chunk = req[r].chunk /\ locals.running = req[r].running
    BY <2>2 DEF RequestRow, StoreOf, DocOf, Pcs, ReadForTouch
  <2>4. StoreOf(r) \in DOMAIN stores /\ Docs(copy[r]) = Docs(stores[StoreOf(r)])
    BY <1>1, <2>2 DEF RequestInv
  <2>5. Docs(row) = Docs(stores[StoreOf(r)]) /\ Docs(row) \subseteq Loader
    BY <2>1, <2>2, <2>4 DEF Row, Docs
  <2>6. Becomes(r, locals, row)
    BY <2>1
  <2> HIDE DEF locals, row
  <2>7. OnlyRequest(r, StoreOf(r)) /\ req'[r] = locals /\ copy'[r] = row
    BY <2>3, <2>5, <2>6, MoveIsLocal
  <2>8. RequestInv(r)'
    BY <1>1, <2>2, <2>3, <2>4, <2>5, <2>7
    DEF RequestInv, Busy, At, CopyIsCurrent, LoaderIsListed, FillsLoader, Splits, Files, StoreOf,
        DocOf, Docs
  <2> QED
    BY <1>1, <2>3, <2>5, <2>6, <2>8, LookKeeps
<1> QED
  BY <1>2, <1>3

(* A request looks something up and moves on to a step at which nothing is *)
(* asked of its copy.                                                      *)
LEMMA LookUpKeeps ==
  ASSUME OrphanInv, NEW r \in Request, Busy(r), UNCHANGED <<stores, chunks, known, made>>,
         NEW locals \in RequestRow, Moves(r, locals),
         locals.store = StoreOf(r), locals.pages = req[r].pages, locals.chunk = req[r].chunk,
         locals.running = req[r].running,
         \/ locals.pc \in {"next", "readForConfig"}
         \/ locals.pc = "readForSave" /\ locals.doc \in Loader
  PROVE  OrphanInv'
<1>1. Becomes(r, locals, copy[r]) /\ Docs(copy[r]) \subseteq Loader /\ RequestInv(r)
  BY RequestRowFacts DEF Moves
<1>2. req'[r] = locals
  BY <1>1, MoveIsLocal
<1>3. RequestInv(r)'
  BY <1>1, <1>2
  DEF RequestInv, Busy, At, CopyIsCurrent, LoaderIsListed, FillsLoader, Splits, Files, StoreOf,
      DocOf
<1> QED
  BY <1>1, <1>3, LookKeeps

LEMMA ListLoadersKeeps ==
  ASSUME OrphanInv, NEW r \in Request, ListLoaders(r)
  PROVE  OrphanInv'
<1>1. Busy(r) /\ UNCHANGED <<stores, chunks, known, made>>
  BY DEF ListLoaders, Busy, At
<1>2. CASE Missing(r)
  BY <1>1, <1>2, RefusalKeeps DEF ListLoaders
<1>3. CASE ~ Missing(r)
  <2> DEFINE locals == [req[r] EXCEPT !.pc = "next", !.asked = Docs(Row(r)),
                                   !.todo = Refreshed(Row(r))]
  <2>1. Refreshed(Row(r)) \subseteq Loader /\ Docs(Row(r)) \subseteq Loader
    BY <1>3 DEF Refreshed, Row, Missing, OrphanInv, TablesInv
  <2>a. req[r] \in RequestRow
    BY RequestRowFacts
  <2>b. locals \in RequestRow
    BY <2>1, <2>a DEF RequestRow, Pcs
  <2>2. /\ locals \in RequestRow /\ locals.pc = "next" /\ locals.store = StoreOf(r)
        /\ locals.pages = req[r].pages /\ locals.chunk = req[r].chunk
        /\ locals.running = req[r].running
    BY <2>a, <2>b DEF RequestRow, StoreOf
  <2>3. Moves(r, locals)
    BY <1>3 DEF ListLoaders
  <2> HIDE DEF locals
  <2> QED
    BY <1>1, <2>2, <2>3, LookUpKeeps
<1> QED
  BY <1>2, <1>3

LEMMA NextLoaderKeeps ==
  ASSUME OrphanInv, NEW r \in Request, NextLoader(r)
  PROVE  OrphanInv'
<1>1. Busy(r) /\ UNCHANGED <<stores, chunks, known, made>>
  BY DEF NextLoader, Busy, At
<1>2. CASE Answer(r)
  BY <1>1, <1>2, RefusalKeeps
<1>3. CASE ~ Answer(r)
  <2>1. PICK d \in req[r].todo :
          Moves(r, [req[r] EXCEPT !.pc = "readForSave", !.doc = d, !.todo = @ \ {d}])
    BY <1>3 DEF NextLoader
  <2> DEFINE locals == [req[r] EXCEPT !.pc = "readForSave", !.doc = d, !.todo = @ \ {d}]
  <2>a. req[r] \in RequestRow /\ d \in Loader
    BY RequestRowFacts DEF RequestRow
  <2>b. locals \in RequestRow
    BY <2>a DEF RequestRow, Pcs
  <2>2. /\ locals \in RequestRow /\ locals.pc = "readForSave" /\ locals.store = StoreOf(r)
        /\ locals.pages = req[r].pages /\ locals.chunk = req[r].chunk /\ locals.doc \in Loader
        /\ locals.running = req[r].running
    BY <2>a, <2>b DEF RequestRow, StoreOf
  <2>3. Moves(r, locals)
    BY <2>1
  <2> HIDE DEF locals
  <2> QED
    BY <1>1, <2>2, <2>3, LookUpKeeps
<1> QED
  BY <1>2, <1>3

LEMMA ReadChunksKeeps ==
  ASSUME OrphanInv, NEW r \in Request, ReadChunks(r)
  PROVE  OrphanInv'
<1>1. Busy(r) /\ UNCHANGED <<stores, chunks, known, made>>
  BY DEF ReadChunks, Busy, At
<1>2. CASE Answer(r)
  BY <1>1, <1>2, RefusalKeeps
<1>3. CASE ~ Answer(r)
  <2> DEFINE locals == [req[r] EXCEPT !.pc = "readForConfig"]
  <2>1. /\ locals \in RequestRow /\ locals.pc = "readForConfig" /\ locals.store = StoreOf(r)
        /\ locals.pages = req[r].pages /\ locals.chunk = req[r].chunk
        /\ locals.running = req[r].running
    BY RequestRowFacts DEF RequestRow, StoreOf, Pcs
  <2>2. Moves(r, locals)
    BY <1>3 DEF ReadChunks, Goto
  <2> HIDE DEF locals
  <2> QED
    BY <1>1, <2>1, <2>2, LookUpKeeps
<1> QED
  BY <1>2, <1>3

LEMMA ReadChunkKeeps ==
  ASSUME OrphanInv, NEW r \in Request, ReadChunk(r)
  PROVE  OrphanInv'
<1>1. Busy(r) /\ UNCHANGED <<stores, chunks, known, made>>
  BY DEF ReadChunk, Busy, At
<1>2. CASE Answer(r)
  BY <1>1, <1>2, RefusalKeeps
<1>3. CASE ~ Answer(r)
  <2>1. PICK c \in chunks :
          /\ c.id = req[r].chunk.id
          /\ Moves(r, [req[r] EXCEPT !.pc = "changeChunk", !.chunk = c])
    BY <1>3 DEF ReadChunk
  <2> DEFINE locals == [req[r] EXCEPT !.pc = "changeChunk", !.chunk = c]
  <2>2. req[r] \in RequestRow /\ RequestInv(r) /\ Docs(copy[r]) \subseteq Loader /\ c \in Chunk
    BY RequestRowFacts DEF OrphanInv, TablesInv
  <2>3. /\ locals \in RequestRow /\ locals.pc = "changeChunk" /\ locals.store = StoreOf(r)
        /\ locals.pages = req[r].pages /\ locals.chunk = c /\ locals.kind = req[r].kind
        /\ locals.doc = DocOf(r) /\ locals.running = req[r].running
    BY <2>2 DEF RequestRow, StoreOf, DocOf, Pcs
  <2>4. Becomes(r, locals, copy[r])
    BY <2>1 DEF Moves
  <2> HIDE DEF locals
  <2>5. req'[r] = locals /\ copy'[r] = copy[r]
    BY <2>2, <2>3, <2>4, MoveIsLocal
  (* The chunk found is the one the request asked for.                     *)
  <2>6. c.doc = DocOf(r) /\ c.store = StoreOf(r)
    <3>1. /\ req[r].chunk \in Chunk /\ req[r].chunk.doc = DocOf(r)
          /\ req[r].chunk.store = StoreOf(r)
      BY <2>2 DEF RequestInv, ReadChunk, At
    <3>2. c \in Held /\ req[r].chunk \in Held
      BY <2>2, <3>1 DEF Held
    <3> QED
      BY <2>1, <3>1, <3>2 DEF OrphanInv, IdInv, SameRow
  <2>7. RequestInv(r)'
    BY <1>1, <2>2, <2>3, <2>5, <2>6
    DEF RequestInv, ReadChunk, Busy, At, CopyIsCurrent, LoaderIsListed, FillsLoader, Splits, Files,
        StoreOf, DocOf, Docs
  <2> QED
    BY <1>1, <2>2, <2>3, <2>4, <2>7, LookKeeps
<1> QED
  BY <1>2, <1>3

(* The pages of which inserts still run are those of the request.          *)
LEMMA AnswerEarlyKeeps ==
  ASSUME OrphanInv, NEW r \in Request, At(r, "insertChunks"), NEW left \in SUBSET req[r].running,
         AnswerEarly(r, left), UNCHANGED <<stores, chunks, known, made>>
  PROVE  OrphanInv'
<1> DEFINE locals == [Idle EXCEPT !.pc = "late", !.kind = req[r].kind, !.store = StoreOf(r),
                                  !.doc = DocOf(r), !.pages = left, !.running = left]
<1>1. req[r] \in RequestRow /\ RequestInv(r)
  BY RequestRowFacts
<1>2. Busy(r) /\ Files(r)
  BY DEF Busy, At, Files, Splits
<1>3. left \subseteq req[r].pages
  BY <1>1 DEF RequestInv
<1>4. /\ locals \in RequestRow /\ locals.pc = "late" /\ locals.store = StoreOf(r)
      /\ locals.doc = DocOf(r) /\ locals.pages = left /\ locals.running = left
      /\ locals.chunk = NoChunk
  BY <1>1, <1>3 DEF RequestRow, Idle, Pcs, StoreOf, DocOf
<1>5. Docs(EmptyRow) \subseteq Loader
  BY DEF Docs, EmptyRow
<1>6. Becomes(r, locals, EmptyRow)
  BY DEF AnswerEarly
<1> HIDE DEF locals
<1>7. req'[r] = locals /\ copy'[r] = EmptyRow
  BY <1>4, <1>5, <1>6, MoveIsLocal
<1>8. RequestInv(r)'
  BY <1>1, <1>2, <1>3, <1>4, <1>7
  DEF RequestInv, Busy, At, CopyIsCurrent, LoaderIsListed, FillsLoader, Splits, Files, StoreOf,
      DocOf
<1> QED
  BY <1>2, <1>3, <1>4, <1>5, <1>6, <1>8, LookKeeps

LEMMA FailKeeps ==
  ASSUME OrphanInv, NEW r \in Request, Fail(r)
  PROVE  OrphanInv'
<1>1. Busy(r) /\ UNCHANGED <<stores, chunks, known, made>>
  BY DEF Fail
<1>2. CASE Answer(r)
  BY <1>1, <1>2, RefusalKeeps
<1>3. CASE ~ Answer(r)
  BY <1>1, <1>3, AnswerEarlyKeeps DEF Fail
<1> QED
  BY <1>2, <1>3

-----------------------------------------------------------------------------
(* The steps that save the row.                                            *)

(* A current copy lists the loader of every chunk of its store that is not *)
(* astray.                                                                 *)
LEMMA CopyListsAll ==
  ASSUME OrphanInv, NEW r \in Request, CopyIsCurrent(r)
  PROVE  /\ \A row : Docs(copy[r]) \subseteq Docs(row) => Lists(row, StoreOf(r))
         /\ Docs(copy[r]) \subseteq Loader /\ StoreOf(r) \in DOMAIN stores
BY RequestRowFacts DEF OrphanInv, RequestInv, NoOrphans, Lists

LEMMA DocsOfRows ==
  /\ \A row, status : Docs(WithStatus(row, status)) = Docs(row)
  /\ \A row, d, loader : Docs(With(row, d, loader)) = Docs(row) \cup {d}
  /\ \A row, d : Docs(Without(row, d)) = Docs(row) \ {d}
BY DEF Docs, WithStatus, With, Without, Put, Drop

LEMMA SaveAndAnswerKeeps ==
  ASSUME OrphanInv, NEW r \in Request, Busy(r), NEW row, Docs(row) \subseteq Loader, Save(r, row),
         UNCHANGED <<chunks, known, made>>,
         Lists(row, StoreOf(r)),
         Answer(r)
  PROVE  OrphanInv'
<1>1. /\ OnlyRequest(r, StoreOf(r)) /\ RequestInv(r)'
      /\ req'[r].pages = {} /\ req'[r].chunk = NoChunk
  BY AnswerIsLocal
<1> QED
  BY <1>1, SaveKeeps

LEMMA SaveAndMoveKeeps ==
  ASSUME OrphanInv, NEW r \in Request, Busy(r), NEW row, Docs(row) \subseteq Loader, Save(r, row),
         UNCHANGED <<chunks, known, made>>,
         Lists(row, StoreOf(r)),
         NEW locals \in RequestRow, NEW mine, Docs(mine) \subseteq Loader, Becomes(r, locals, mine),
         locals.store = StoreOf(r), locals.pages \in {{}, req[r].pages},
         locals.running \subseteq locals.pages, locals.chunk = req[r].chunk,
         \/ locals.pc \in {"next", "readChunks", "readForUpsert"}
         \/ locals.pc = "readForSave" /\ locals.doc \in Loader
         \/ locals.pc = "mark" /\ mine = row
         \/ locals.pc = "readForProcess" /\ locals.doc \in Docs(row) /\ locals.doc \in Loader
  PROVE  OrphanInv'
<1>1. /\ OnlyRequest(r, StoreOf(r)) /\ req'[r] = locals /\ copy'[r] = mine
  BY MoveIsLocal
<1>2. StoreOf(r) \in DOMAIN stores' /\ stores'[StoreOf(r)] = row
  BY SaveKeepsTables
<1>3. RequestInv(r)'
  BY <1>1, <1>2, RequestRowFacts
  DEF RequestInv, Busy, At, CopyIsCurrent, LoaderIsListed, FillsLoader, Splits, Files, StoreOf,
      DocOf, Docs
<1> QED
  BY <1>1, <1>3, SaveKeeps

LEMMA CreateStoreKeeps ==
  ASSUME OrphanInv, NEW r \in Request, CreateStore(r)
  PROVE  OrphanInv'
<1>1. Busy(r) /\ Save(r, EmptyRow) /\ UNCHANGED <<chunks, known, made>>
  BY DEF CreateStore, Busy, At
<1>2. Docs(EmptyRow) \subseteq Loader
  BY DEF Docs, EmptyRow
(* There is no such store yet, and no chunk of it but strays.              *)
<1>3. Lists(EmptyRow, StoreOf(r))
  BY RequestRowFacts DEF CreateStore, RequestInv, OrphanInv, NoOrphans, Lists
<1>4. CASE Answer(r)
  BY <1>1, <1>2, <1>3, <1>4, SaveAndAnswerKeeps
<1>5. CASE ~ Answer(r)
  <2> DEFINE locals == [req[r] EXCEPT !.pc = "readForSave"]
  <2>1. /\ locals \in RequestRow /\ locals.pc = "readForSave" /\ locals.store = StoreOf(r)
        /\ locals.pages = req[r].pages /\ locals.chunk = req[r].chunk /\ locals.doc \in Loader
        /\ locals.running \subseteq locals.pages
    BY <1>5, RequestRowFacts
    DEF RequestRow, StoreOf, DocOf, Pcs, CreateStore, RequestInv, FillsLoader, At
  <2>2. Becomes(r, locals, copy[r]) /\ Docs(copy[r]) \subseteq Loader
    BY <1>5, RequestRowFacts DEF CreateStore, Goto, Moves
  <2> HIDE DEF locals
  <2> QED
    BY <1>1, <1>2, <1>3, <2>1, <2>2, SaveAndMoveKeeps
<1> QED
  BY <1>4, <1>5

LEMMA SaveLoaderKeeps ==
  ASSUME OrphanInv, NEW r \in Request, SaveLoader(r)
  PROVE  OrphanInv'
<1> DEFINE row == With(copy[r], DocOf(r), Processing)
           locals == [req[r] EXCEPT !.pc = "readForProcess"]
<1>1. Busy(r) /\ CopyIsCurrent(r) /\ Save(r, row) /\ UNCHANGED <<chunks, known, made>>
  BY DEF SaveLoader, Busy, At, CopyIsCurrent
<1>2. Docs(row) = Docs(copy[r]) \cup {DocOf(r)}
  BY DocsOfRows
<1>3. Docs(row) \subseteq Loader /\ DocOf(r) \in Loader /\ Lists(row, StoreOf(r))
  BY <1>1, <1>2, CopyListsAll, RequestRowFacts DEF SaveLoader, RequestInv, FillsLoader, At
<1>4. /\ locals \in RequestRow /\ locals.pc = "readForProcess" /\ locals.store = StoreOf(r)
      /\ locals.pages = req[r].pages /\ locals.chunk = req[r].chunk /\ locals.doc = DocOf(r)
      /\ locals.running \subseteq locals.pages
  BY RequestRowFacts DEF RequestRow, RequestInv, StoreOf, DocOf, Pcs
<1>5. Answer(r) \/ Becomes(r, locals, copy[r])
  BY DEF SaveLoader, Goto, Moves
<1>6. Docs(copy[r]) \subseteq Loader
  BY RequestRowFacts
<1> HIDE DEF row, locals
<1>7. CASE Answer(r)
  BY <1>1, <1>3, <1>7, SaveAndAnswerKeeps
<1>8. CASE Becomes(r, locals, copy[r])
  BY <1>1, <1>2, <1>3, <1>4, <1>6, <1>8, SaveAndMoveKeeps
<1> QED
  BY <1>5, <1>7, <1>8

LEMMA SaveProcessedKeeps ==
  ASSUME OrphanInv, NEW r \in Request, SaveProcessed(r)
  PROVE  OrphanInv'
<1>1. Busy(r) /\ CopyIsCurrent(r) /\ UNCHANGED <<chunks, known, made>>
  BY DEF SaveProcessed, Busy, At, CopyIsCurrent
<1>2. CASE DocOf(r) \in Docs(copy[r])
  <2> DEFINE row == AfterProcess(copy[r], DocOf(r), req[r].pages)
             locals == [req[r] EXCEPT !.pc = "readChunks", !.pages = {}]
  <2>1. Save(r, row) /\ Becomes(r, locals, EmptyRow)
    BY <1>2 DEF SaveProcessed
  <2>2. Docs(row) = Docs(copy[r])
    <3> DEFINE loader == [status |-> "SYNC", totalChunks |-> Cardinality(req[r].pages),
                          totalChars |-> CharsOf(req[r].pages)]
               filled == With(copy[r], DocOf(r), loader)
               status == IF Synced(filled) THEN "SYNC" ELSE "STALE"
    <3>1. row = WithStatus(filled, status)
      BY DEF AfterProcess, Processed
    <3> HIDE DEF loader, status, row
    <3>2. Docs(row) = Docs(filled)
      BY <3>1, DocsOfRows
    <3>3. Docs(filled) = Docs(copy[r]) \cup {DocOf(r)}
      BY DocsOfRows
    <3> HIDE DEF filled
    <3> QED
      BY <1>2, <3>2, <3>3
  <2>3. Docs(copy[r]) \subseteq Loader /\ Lists(row, StoreOf(r))
    BY <1>1, <2>2, CopyListsAll
  <2>a. req[r] \in RequestRow /\ req[r].running = {}
    BY RequestRowFacts DEF SaveProcessed
  <2>b. locals \in RequestRow
    BY <2>a DEF RequestRow, Pcs
  <2>4. /\ locals \in RequestRow /\ locals.pc = "readChunks" /\ locals.store = StoreOf(r)
        /\ locals.pages = {} /\ locals.chunk = req[r].chunk /\ locals.running = {}
    BY <2>a, <2>b DEF RequestRow, StoreOf
  <2>5. Docs(EmptyRow) \subseteq Loader
    BY DEF Docs, EmptyRow
  <2> HIDE DEF row, locals
  <2> QED
    BY <1>1, <2>1, <2>2, <2>3, <2>4, <2>5, SaveAndMoveKeeps
<1>3. CASE DocOf(r) \notin Docs(copy[r])
  BY <1>1, <1>3, RefusalKeeps DEF SaveProcessed
<1> QED
  BY <1>2, <1>3

LEMMA SaveConfigKeeps ==
  ASSUME OrphanInv, NEW r \in Request, SaveConfig(r)
  PROVE  OrphanInv'
<1>1. Busy(r) /\ CopyIsCurrent(r) /\ UNCHANGED <<chunks, known, made>>
  BY DEF SaveConfig, Busy, At, CopyIsCurrent
<1>2. PICK named \in BOOLEAN :
        /\ Save(r, AfterConfig(copy[r], named))
        /\ \/ Answer(r)
           \/ Becomes(r, [req[r] EXCEPT !.pc = "mark"], AfterConfig(copy[r], named))
  BY DEF SaveConfig
<1> DEFINE row == AfterConfig(copy[r], named)
           locals == [req[r] EXCEPT !.pc = "mark"]
<1>3. Docs(row) = Docs(copy[r])
  BY DocsOfRows DEF AfterConfig
<1>4. Docs(copy[r]) \subseteq Loader /\ Lists(row, StoreOf(r))
  BY <1>1, <1>3, CopyListsAll
<1>5. /\ locals \in RequestRow /\ locals.pc = "mark" /\ locals.store = StoreOf(r)
      /\ locals.pages = req[r].pages /\ locals.chunk = req[r].chunk
      /\ locals.running \subseteq locals.pages
  BY RequestRowFacts DEF RequestRow, RequestInv, StoreOf, Pcs
<1>6. Save(r, row) /\ (Answer(r) \/ Becomes(r, locals, row))
  BY <1>2
<1> HIDE DEF row, locals
<1>7. CASE Answer(r)
  BY <1>1, <1>3, <1>4, <1>6, <1>7, SaveAndAnswerKeeps
<1>8. CASE Becomes(r, locals, row)
  BY <1>1, <1>3, <1>4, <1>5, <1>6, <1>8, SaveAndMoveKeeps
<1> QED
  BY <1>6, <1>7, <1>8

LEMMA MarkUpsertingKeeps ==
  ASSUME OrphanInv, NEW r \in Request, MarkUpserting(r)
  PROVE  OrphanInv'
<1> DEFINE row == WithStatus(copy[r], "UPSERTING")
           locals == [req[r] EXCEPT !.pc = "readForUpsert"]
<1>1. Busy(r) /\ CopyIsCurrent(r) /\ Save(r, row) /\ UNCHANGED <<chunks, known, made>>
  BY DEF MarkUpserting, Busy, At, CopyIsCurrent
<1>2. Docs(row) = Docs(copy[r])
  BY DocsOfRows
<1>3. Docs(copy[r]) \subseteq Loader /\ Lists(row, StoreOf(r))
  BY <1>1, <1>2, CopyListsAll
<1>4. /\ locals \in RequestRow /\ locals.pc = "readForUpsert" /\ locals.store = StoreOf(r)
      /\ locals.pages = req[r].pages /\ locals.chunk = req[r].chunk
      /\ locals.running \subseteq locals.pages
  BY RequestRowFacts DEF RequestRow, RequestInv, StoreOf, Pcs
<1>5. Becomes(r, locals, copy[r])
  BY DEF MarkUpserting, Goto, Moves
<1> HIDE DEF row, locals
<1> QED
  BY <1>1, <1>2, <1>3, <1>4, <1>5, SaveAndMoveKeeps

LEMMA SaveUpsertedKeeps ==
  ASSUME OrphanInv, NEW r \in Request, SaveUpserted(r)
  PROVE  OrphanInv'
<1> DEFINE row == WithStatus(copy[r], "UPSERTED")
           locals == [req[r] EXCEPT !.pc = "next"]
<1>1. Busy(r) /\ CopyIsCurrent(r) /\ Save(r, row) /\ UNCHANGED <<chunks, known, made>>
  BY DEF SaveUpserted, Busy, At, CopyIsCurrent
<1>2. Docs(row) = Docs(copy[r])
  BY DocsOfRows
<1>3. Docs(copy[r]) \subseteq Loader /\ Lists(row, StoreOf(r))
  BY <1>1, <1>2, CopyListsAll
<1>4. /\ locals \in RequestRow /\ locals.pc = "next" /\ locals.store = StoreOf(r)
      /\ locals.pages = req[r].pages /\ locals.chunk = req[r].chunk
      /\ locals.running \subseteq locals.pages
  BY RequestRowFacts DEF RequestRow, RequestInv, StoreOf, Pcs
<1>5. Answer(r) \/ Becomes(r, locals, copy[r])
  BY DEF SaveUpserted, Goto, Moves
<1> HIDE DEF row, locals
<1>6. CASE Answer(r)
  BY <1>1, <1>2, <1>3, <1>6, SaveAndAnswerKeeps
<1>7. CASE Becomes(r, locals, copy[r])
  BY <1>1, <1>2, <1>3, <1>4, <1>7, SaveAndMoveKeeps
<1> QED
  BY <1>5, <1>6, <1>7

(* The loader that a save drops has no chunk left that is not astray.      *)
LEMMA WriteKeeps ==
  ASSUME OrphanInv, NEW r \in Request, Write(r)
  PROVE  OrphanInv'
<1>1. /\ Busy(r) /\ CopyIsCurrent(r) /\ Save(r, RowToWrite(r)) /\ Answer(r)
      /\ UNCHANGED <<chunks, known, made>>
  BY DEF Write, Busy, At, CopyIsCurrent
<1>2. Docs(copy[r]) \subseteq Loader /\ Lists(copy[r], StoreOf(r))
  BY <1>1, CopyListsAll
<1>3. req[r].kind = "deleteLoader" =>
        \A c \in chunks : c.store = StoreOf(r) /\ c.doc = DocOf(r) => Stray(c)
  BY RequestRowFacts DEF Write, RequestInv
<1>4. Docs(RowToWrite(r)) =
        IF req[r].kind = "deleteLoader" THEN Docs(copy[r]) \ {DocOf(r)} ELSE Docs(copy[r])
  BY DocsOfRows DEF RowToWrite
<1>5. Docs(RowToWrite(r)) \subseteq Loader /\ Lists(RowToWrite(r), StoreOf(r))
  BY <1>2, <1>3, <1>4 DEF Lists
<1> QED
  BY <1>1, <1>5, SaveAndAnswerKeeps

-----------------------------------------------------------------------------
(* The steps that change the chunks.                                       *)

(* The pages of a document get ids that no chunk has had.                  *)
LEMMA SplitKeeps ==
  ASSUME OrphanInv, NEW r \in Request, Split(r)
  PROVE  OrphanInv'
<1>a. PICK n \in 0 .. MaxPages : \E text \in [1 .. n -> Length] :
        /\ made + n =< MaxChunks
        /\ made' = made + n
        /\ LET new == {[id |-> made + i, doc |-> DocOf(r), store |-> StoreOf(r),
                         length |-> text[i]] : i \in 1 .. n}
           IN  Moves(r, [req[r] EXCEPT !.pc = "dropChunks", !.pages = new, !.running = new])
  BY DEF Split
<1>1. PICK text \in [1 .. n -> Length] :
        /\ made + n =< MaxChunks
        /\ made' = made + n
        /\ LET new == {[id |-> made + i, doc |-> DocOf(r), store |-> StoreOf(r),
                         length |-> text[i]] : i \in 1 .. n}
           IN  Moves(r, [req[r] EXCEPT !.pc = "dropChunks", !.pages = new, !.running = new])
  BY <1>a
<1> DEFINE page(i) == [id |-> made + i, doc |-> DocOf(r), store |-> StoreOf(r), length |-> text[i]]
           new == {page(i) : i \in 1 .. n}
           locals == [req[r] EXCEPT !.pc = "dropChunks", !.pages = new, !.running = new]
<1>2. /\ Busy(r) /\ CopyIsCurrent(r) /\ LoaderIsListed(r) /\ FillsLoader(r)
      /\ UNCHANGED <<stores, chunks, known>>
  BY DEF Split, Busy, At, CopyIsCurrent, LoaderIsListed, FillsLoader
<1>3. /\ req[r] \in RequestRow /\ RequestInv(r) /\ Docs(copy[r]) \subseteq Loader
      /\ DocOf(r) \in Loader /\ StoreOf(r) \in Store /\ made \in Nat /\ n \in Nat
      /\ req \in [Request -> RequestRow]
  BY <1>2, RequestRowFacts, StoreBounds DEF RequestInv, OrphanInv, TablesInv, RequestTypes
<1>4. \A i \in 1 .. n :
        /\ page(i) \in Chunk /\ page(i).id = made + i
        /\ page(i).doc = DocOf(r) /\ page(i).store = StoreOf(r)
  BY <1>1, <1>3, StoreBounds DEF Chunk
<1>5. /\ new \subseteq Chunk
      /\ \A c \in new : /\ c.doc = DocOf(r) /\ c.store = StoreOf(r)
                        /\ c.id > made /\ c.id =< made'
  BY <1>1, <1>3, <1>4
<1>6. \A b, c \in new : b.id = c.id => b = c
  BY <1>3, <1>4
<1>7. Becomes(r, locals, copy[r])
  BY <1>1 DEF Moves
<1> HIDE DEF page, new
<1>8. /\ locals \in RequestRow /\ locals.pc = "dropChunks" /\ locals.pages = new
      /\ locals.store = StoreOf(r) /\ locals.doc = DocOf(r) /\ locals.chunk = req[r].chunk
      /\ locals.kind = req[r].kind /\ locals.running = new
  BY <1>3, <1>5 DEF RequestRow, StoreOf, DocOf, Pcs
<1> HIDE DEF locals
<1>9. OnlyRequest(r, StoreOf(r)) /\ req'[r] = locals /\ copy'[r] = copy[r]
  BY <1>3, <1>7, <1>8, MoveIsLocal
<1>10. Alone(r, StoreOf(r))
  BY <1>2 DEF OrphanInv, Exclusive, Alone
<1>11. Frame(StoreOf(r)) /\ TablesInv' /\ StayHome
  BY <1>1, <1>2, <1>3 DEF Frame, OrphanInv, TablesInv, NoOrphans, StayHome, Docs
<1>12. RequestInv(r)'
  BY <1>2, <1>3, <1>5, <1>8, <1>9
  DEF RequestInv, Split, Busy, At, CopyIsCurrent, LoaderIsListed, FillsLoader, Splits, Files,
      StoreOf, DocOf, Docs
<1>13. Held' \subseteq Held \cup new
  BY <1>2, <1>3, <1>8, <1>9 DEF Held, OnlyRequest
<1>14. IdInv'
  <2>1. \A c \in Held' : c \in Chunk /\ c.id \in Int
    BY DEF Held, Chunk
  <2>2. \A c \in Held : c.id =< made /\ c.id \in Int
    BY DEF OrphanInv, IdInv, Held, Chunk
  <2>3. \A c \in Held' : c.id =< made'
    BY <1>1, <1>3, <1>5, <1>13, <2>2
  <2>4. ASSUME NEW b \in Held', NEW c \in Held', b.id = c.id PROVE SameRow(b, c)
    <3>1. CASE b \in Held /\ c \in Held
      BY <2>4, <3>1 DEF OrphanInv, IdInv
    <3>2. CASE b \in new /\ c \in new
      BY <1>6, <2>4, <3>2 DEF SameRow
    <3>3. CASE (b \in Held /\ c \in new) \/ (b \in new /\ c \in Held)
      BY <1>3, <1>5, <2>1, <2>2, <2>4, <3>3
    <3> QED
      BY <1>13, <3>1, <3>2, <3>3
  <2> QED
    BY <2>3, <2>4 DEF IdInv, SameRow
<1> QED
  BY <1>2, <1>9, <1>10, <1>11, <1>12, <1>14, StepKeeps DEF Busy, At

LEMMA DropChunksKeeps ==
  ASSUME OrphanInv, NEW r \in Request, DropChunks(r)
  PROVE  OrphanInv'
<1> DEFINE next == CASE req[r].kind = "deleteLoader" -> "write"
                     [] req[r].kind = "deleteStore" -> "deleteRow"
                     [] OTHER -> "insertChunks"
           locals == [req[r] EXCEPT !.pc = next]
<1>1. /\ Busy(r) /\ CopyIsCurrent(r) /\ At(r, "dropChunks") /\ chunks' = ChunksLeft(r)
      /\ UNCHANGED <<stores, known, made>> /\ Becomes(r, locals, copy[r])
  BY DEF DropChunks, Busy, At, CopyIsCurrent, Goto, Moves
<1>2. req[r] \in RequestRow /\ RequestInv(r) /\ Docs(copy[r]) \subseteq Loader
  BY RequestRowFacts
<1>3. next \in Pcs
  BY DEF Pcs
<1>4. /\ req[r].kind = "deleteLoader" => next = "write"
      /\ req[r].kind = "deleteStore" => next = "deleteRow"
      /\ req[r].kind \notin {"deleteLoader", "deleteStore"} => next = "insertChunks"
  OBVIOUS
<1> HIDE DEF next
<1>5. /\ locals \in RequestRow /\ locals.pc = next /\ locals.kind = req[r].kind
      /\ locals.store = StoreOf(r) /\ locals.doc = DocOf(r) /\ locals.pages = req[r].pages
      /\ locals.chunk = req[r].chunk /\ locals.running = req[r].running
  BY <1>2, <1>3 DEF RequestRow, StoreOf, DocOf
<1> HIDE DEF locals
<1>6. OnlyRequest(r, StoreOf(r)) /\ req'[r] = locals /\ copy'[r] = copy[r]
  BY <1>1, <1>2, <1>5, MoveIsLocal
<1>7. /\ chunks' \subseteq chunks
      /\ req[r].kind = "deleteStore" => \A c \in chunks' : c.store # StoreOf(r)
      /\ req[r].kind # "deleteStore" => \A c \in chunks' : c.doc # DocOf(r)
  BY <1>1 DEF ChunksLeft
<1>8. Frame(StoreOf(r)) /\ TablesInv' /\ StayHome
  BY <1>1, <1>7 DEF Frame, OrphanInv, TablesInv, NoOrphans, StayHome, Docs
<1>9. RequestInv(r)'
  BY <1>1, <1>2, <1>4, <1>5, <1>6, <1>7
  DEF RequestInv, Busy, At, CopyIsCurrent, LoaderIsListed, FillsLoader, Splits, Files, StoreOf,
      DocOf, Docs
<1>10. \A c \in chunks' \cup req'[r].pages \cup {req'[r].chunk} :
         c \in Chunk => \E b \in Held : SameRow(b, c)
  BY <1>5, <1>6, <1>7, ChunkIsHeld
<1> QED
  BY <1>1, <1>6, <1>8, <1>9, <1>10, ProceedKeeps

(* The loader of a new chunk was listed before.                            *)
LEMMA InsertChunkKeeps ==
  ASSUME OrphanInv, NEW r \in Request, InsertChunk(r)
  PROVE  OrphanInv'
<1>1. PICK c \in req[r].running : Inserted(r, c)
  BY DEF InsertChunk
<1> DEFINE locals == [req[r] EXCEPT !.running = @ \ {c}]
<1>2. /\ Busy(r) /\ LoaderIsListed(r) /\ Files(r) /\ At(r, "insertChunks")
      /\ chunks' = chunks \cup {c} /\ UNCHANGED <<stores, known, made>>
      /\ Becomes(r, locals, copy[r])
  BY <1>1 DEF InsertChunk, Inserted, Moves, Busy, At, LoaderIsListed, Files, Splits
<1>3. req[r] \in RequestRow /\ RequestInv(r) /\ Docs(copy[r]) \subseteq Loader
  BY RequestRowFacts
<1>4. /\ c \in Chunk /\ c.doc = DocOf(r) /\ c.store = StoreOf(r) /\ c \in req[r].pages
      /\ StoreOf(r) \in DOMAIN stores /\ DocOf(r) \in Docs(stores[StoreOf(r)])
  BY <1>2, <1>3 DEF RequestInv, RequestRow
<1>5. /\ locals \in RequestRow /\ locals.pc = req[r].pc /\ locals.kind = req[r].kind
      /\ locals.store = StoreOf(r) /\ locals.doc = DocOf(r) /\ locals.pages = req[r].pages
      /\ locals.chunk = req[r].chunk /\ locals.running \subseteq req[r].running
  BY <1>3 DEF RequestRow, StoreOf, DocOf
<1> HIDE DEF locals
<1>6. OnlyRequest(r, StoreOf(r)) /\ req'[r] = locals /\ copy'[r] = copy[r]
  BY <1>2, <1>3, <1>5, MoveIsLocal
<1>7. Frame(StoreOf(r)) /\ TablesInv' /\ StayHome
  BY <1>2, <1>4 DEF Frame, OrphanInv, TablesInv, NoOrphans, StayHome, Docs
<1>8. RequestInv(r)'
  BY <1>2, <1>3, <1>5, <1>6
  DEF RequestInv, Busy, At, CopyIsCurrent, LoaderIsListed, FillsLoader, Splits, Files, StoreOf,
      DocOf, Docs
<1>9. \A b \in chunks' \cup req'[r].pages \cup {req'[r].chunk} :
        b \in Chunk => \E x \in Held : SameRow(x, b)
  BY <1>2, <1>4, <1>5, <1>6, ChunkIsHeld
<1> QED
  BY <1>2, <1>6, <1>7, <1>8, <1>9, ProceedKeeps

(* An insert that comes late leaves a chunk astray.                        *)
LEMMA InsertLateKeeps ==
  ASSUME OrphanInv, NEW r \in Request, InsertLate(r)
  PROVE  OrphanInv'
<1>1. PICK c \in req[r].running : Inserted(r, c)
  BY DEF InsertLate
<1> DEFINE locals == [req[r] EXCEPT !.running = @ \ {c}]
<1>2. /\ At(r, "late") /\ chunks' = chunks \cup {c} /\ UNCHANGED <<stores, known, made>>
      /\ Becomes(r, locals, copy[r])
  BY <1>1 DEF InsertLate, Inserted, Moves
<1>3. /\ req[r] \in RequestRow /\ RequestInv(r) /\ Docs(copy[r]) \subseteq Loader
      /\ req \in [Request -> RequestRow] /\ copy = [q \in Request |-> copy[q]]
  BY RequestRowFacts DEF OrphanInv, RequestTypes
<1>4. c \in Chunk /\ c \in req[r].pages
  BY <1>3 DEF RequestInv, RequestRow
<1>5. /\ locals \in RequestRow /\ locals.pc = "late" /\ locals.kind = req[r].kind
      /\ locals.store = StoreOf(r) /\ locals.doc = DocOf(r) /\ locals.pages = req[r].pages
      /\ locals.chunk = req[r].chunk /\ locals.running \subseteq req[r].running
  BY <1>2, <1>3 DEF RequestRow, StoreOf, DocOf, At
<1> HIDE DEF locals
<1>6. /\ req' = [req EXCEPT ![r] = req'[r]] /\ copy' = [copy EXCEPT ![r] = copy'[r]]
      /\ req'[r] = locals /\ copy'[r] = copy[r]
  BY <1>2, <1>3 DEF Becomes
<1>7. \A q \in Request : q # r => req'[q] = req[q] /\ copy'[q] = copy[q]
  BY <1>3, <1>6
<1>8. RequestTypes'
  <2>1. req' \in [Request -> RequestRow]
    BY <1>3, <1>5, <1>6
  <2>2. copy' = copy
    BY <1>3, <1>6
  <2> QED
    BY <2>1, <2>2 DEF OrphanInv, RequestTypes, Docs
<1>9. TablesInv'
  BY <1>2, <1>4 DEF OrphanInv, TablesInv, Docs
<1>10. ASSUME NEW b, Stray(b) PROVE Stray(b)'
  BY <1>2, <1>3, <1>5, <1>6, <1>10, StrayStays DEF At
<1>11. Stray(c)'
  BY <1>4, <1>5, <1>6 DEF Stray, At
<1>12. NoOrphans'
  <2> SUFFICES ASSUME NEW b \in chunks'
               PROVE  Stray(b)' \/ (b.store \in DOMAIN stores' /\ b.doc \in Docs(stores'[b.store]))
    BY DEF NoOrphans, Docs
  <2> QED
    BY <1>2, <1>10, <1>11 DEF OrphanInv, NoOrphans
<1>13. Exclusive'
  BY <1>2, <1>3, <1>5, <1>6, <1>7 DEF OrphanInv, Exclusive, Busy, StoreOf, At
<1>14. IdInv'
  <2>1. \A b \in chunks' \cup req'[r].pages \cup {req'[r].chunk} :
          b \in Chunk => \E x \in Held : SameRow(x, b)
    BY <1>2, <1>4, <1>5, <1>6, ChunkIsHeld
  <2> QED
    BY <1>2, <1>6, <2>1, IdsStay
<1>15. ASSUME NEW q \in Request PROVE RequestInv(q)'
  <2>1. RequestInv(q)
    BY DEF OrphanInv
  <2>2. CASE q = r
    BY <1>2, <1>5, <1>6, <2>1, <2>2
    DEF RequestInv, Busy, At, CopyIsCurrent, LoaderIsListed, FillsLoader, Splits, Files, StoreOf,
        DocOf
  <2>3. CASE q # r
    <3>1. req'[q] = req[q] /\ copy'[q] = copy[q]
      BY <1>7, <2>3
    <3>2. \A b \in chunks' : b \in chunks \/ Stray(b)'
      BY <1>2, <1>11
    <3> QED
      BY <1>2, <1>10, <2>1, <3>1, <3>2
      DEF RequestInv, Busy, At, CopyIsCurrent, LoaderIsListed, FillsLoader, Splits, Files,
          StoreOf, DocOf, Docs
  <2> QED
    BY <2>2, <2>3
<1> QED
  BY <1>8, <1>9, <1>12, <1>13, <1>14, <1>15 DEF OrphanInv

(* An edited chunk stays with its loader.                                  *)
LEMMA ChangeChunkKeeps ==
  ASSUME OrphanInv, NEW r \in Request, ChangeChunk(r)
  PROVE  OrphanInv'
<1> DEFINE c == req[r].chunk
           others == {x \in chunks : x.id # c.id}
           locals == [req[r] EXCEPT !.pc = "write"]
<1>1. /\ Busy(r) /\ CopyIsCurrent(r) /\ LoaderIsListed(r) /\ At(r, "changeChunk")
      /\ UNCHANGED <<stores, known, made>>
  BY DEF ChangeChunk, Busy, At, CopyIsCurrent, LoaderIsListed
<1>2. PICK loader :
        /\ \/ chunks' = others
           \/ \E length \in Length : chunks' = others \cup {[c EXCEPT !.length = length]}
        /\ Becomes(r, locals, With(copy[r], DocOf(r), loader))
  BY DEF ChangeChunk
<1>3. req[r] \in RequestRow /\ RequestInv(r) /\ Docs(copy[r]) \subseteq Loader
  BY RequestRowFacts
<1>4. /\ c \in Chunk /\ c.doc = DocOf(r) /\ c.store = StoreOf(r)
      /\ req[r].kind \in {"deleteChunk", "editChunk"}
      /\ StoreOf(r) \in DOMAIN stores /\ DocOf(r) \in Docs(stores[StoreOf(r)])
      /\ Docs(copy[r]) = Docs(stores[StoreOf(r)])
  BY <1>1, <1>3 DEF RequestInv, At
<1>5. /\ locals \in RequestRow /\ locals.pc = "write" /\ locals.kind = req[r].kind
      /\ locals.store = StoreOf(r) /\ locals.doc = DocOf(r) /\ locals.pages = req[r].pages
      /\ locals.chunk = req[r].chunk /\ locals.running = req[r].running
  BY <1>3 DEF RequestRow, StoreOf, DocOf, Pcs
<1>6. Docs(With(copy[r], DocOf(r), loader)) = Docs(copy[r])
  <2>1. Docs(With(copy[r], DocOf(r), loader)) = Docs(copy[r]) \cup {DocOf(r)}
    BY DocsOfRows
  <2>2. DocOf(r) \in Docs(copy[r])
    BY <1>4
  <2> QED
    BY <2>1, <2>2
<1> HIDE DEF locals
<1>7. /\ OnlyRequest(r, StoreOf(r)) /\ req'[r] = locals
      /\ copy'[r] = With(copy[r], DocOf(r), loader)
  BY <1>2, <1>3, <1>5, <1>6, MoveIsLocal
<1>8. \A b \in chunks' :
        b \in chunks \/ (b \in Chunk /\ SameRow(c, b) /\ b.doc = DocOf(r) /\ b.store = StoreOf(r))
  BY <1>2, <1>4 DEF SameRow, Chunk
<1>9. Frame(StoreOf(r)) /\ TablesInv' /\ StayHome
  BY <1>1, <1>4, <1>8 DEF Frame, OrphanInv, TablesInv, NoOrphans, StayHome, Docs
<1>10. RequestInv(r)'
  BY <1>1, <1>3, <1>4, <1>5, <1>6, <1>7
  DEF RequestInv, Busy, At, CopyIsCurrent, LoaderIsListed, FillsLoader, Splits, Files, StoreOf,
      DocOf, Docs
<1>11. c \in Held
  BY <1>4 DEF Held
<1>12. \A b \in chunks' \cup req'[r].pages \cup {req'[r].chunk} :
         b \in Chunk => \E x \in Held : SameRow(x, b)
  BY <1>5, <1>7, <1>8, <1>11, ChunkIsHeld
<1> QED
  BY <1>1, <1>7, <1>9, <1>10, <1>12, ProceedKeeps

(* The store goes after its chunks, but for those astray.                  *)
LEMMA DeleteRowKeeps ==
  ASSUME OrphanInv, NEW r \in Request, DeleteRow(r)
  PROVE  OrphanInv'
<1>1. /\ Busy(r) /\ At(r, "deleteRow") /\ Answer(r) /\ stores' = Drop(stores, StoreOf(r))
      /\ UNCHANGED <<chunks, known, made>>
  BY DEF DeleteRow, Busy, At
<1>2. \A c \in chunks : c.store = StoreOf(r) => Stray(c)
  BY <1>1, RequestRowFacts DEF RequestInv
<1>3. /\ DOMAIN stores' = DOMAIN stores \ {StoreOf(r)}
      /\ \A s \in DOMAIN stores : s # StoreOf(r) => stores'[s] = stores[s]
  BY <1>1 DEF Drop
<1>4. Frame(StoreOf(r)) /\ TablesInv' /\ StayHome
  BY <1>1, <1>2, <1>3 DEF Frame, OrphanInv, TablesInv, NoOrphans, StayHome, Docs
<1>5. /\ OnlyRequest(r, StoreOf(r)) /\ RequestInv(r)'
      /\ req'[r].pages = {} /\ req'[r].chunk = NoChunk
  BY <1>1, AnswerIsLocal
<1>6. \A c \in chunks' \cup req'[r].pages \cup {req'[r].chunk} :
        c \in Chunk => \E b \in Held : SameRow(b, c)
  BY <1>1, <1>5, ChunkIsHeld, StoreDistinct
<1> QED
  BY <1>1, <1>4, <1>5, <1>6, ProceedKeeps

-----------------------------------------------------------------------------
(* The steps that begin a request.                                         *)

(* A request of a store begins when no other works on it.                  *)
LEMMA BeginKeeps ==
  ASSUME Overlap = FALSE, OrphanInv, NEW r \in Request, NEW s \in Store, Begins(r, s),
         UNCHANGED <<stores, chunks, made>>, known \subseteq known', s \in known',
         NEW locals \in RequestRow, NEW row, Docs(row) \subseteq Loader, Becomes(r, locals, row),
         locals.store = s, locals.pages = {}, locals.running = {},
         locals.chunk \in {NoChunk} \cup chunks,
         \/ locals.pc = "create" /\ s \notin DOMAIN stores
              /\ (locals.kind = "create" \/ locals.doc \in Loader)
         \/ locals.pc = "readForSave" /\ locals.doc \in Loader
         \/ locals.pc = "readForProcess" /\ locals.doc \in Loader
              /\ s \in DOMAIN stores /\ locals.doc \in Docs(stores[s])
         \/ locals.pc \in {"list", "next", "readForConfig"}
         \/ locals.pc = "read" /\ locals.kind = "touch"
              /\ s \in DOMAIN stores /\ row = stores[s]
         \/ locals.pc = "read" /\ locals.kind \in {"deleteStore", "deleteLoader"}
         \/ locals.pc = "read" /\ locals.kind \in {"deleteChunk", "editChunk"}
              /\ locals.chunk \in Chunk
              /\ locals.chunk.doc = locals.doc /\ locals.chunk.store = s
  PROVE  OrphanInv'
<1>1. req \in [Request -> RequestRow] /\ copy = [q \in Request |-> copy[q]]
  BY DEF OrphanInv, RequestTypes
<1>2. /\ req' = [req EXCEPT ![r] = req'[r]] /\ copy' = [copy EXCEPT ![r] = copy'[r]]
      /\ req'[r] = locals /\ copy'[r] = row
  BY <1>1 DEF Becomes
<1>3. OnlyRequest(r, s)
  BY <1>1, <1>2 DEF OnlyRequest, Docs
<1>4. Alone(r, s)
  BY DEF Begins, Undisturbed, Alone, StoreOf
<1>5. Frame(s) /\ TablesInv' /\ StayHome
  BY DEF Frame, OrphanInv, TablesInv, NoOrphans, StayHome, Docs
<1>6. RequestInv(r)'
  BY <1>2 DEF RequestInv, Busy, At, CopyIsCurrent, LoaderIsListed, FillsLoader, Splits, Files,
              StoreOf, DocOf, Docs
<1>7. IdInv'
  <2>1. \A c \in chunks' \cup req'[r].pages \cup {req'[r].chunk} :
          c \in Chunk => \E b \in Held : SameRow(b, c)
    BY <1>2, ChunkIsHeld, StoreDistinct
  <2> QED
    BY <1>2, <2>1, IdsStay
<1> QED
  BY <1>3, <1>4, <1>5, <1>6, <1>7, StepKeeps DEF Begins, At

(* A request that begins without a row.                                    *)
LEMMA BeginBlankKeeps ==
  ASSUME Overlap = FALSE, OrphanInv, NEW r \in Request, NEW s \in Store, Begins(r, s),
         UNCHANGED <<stores, chunks, made>>, known \subseteq known', s \in known',
         NEW locals \in RequestRow, Moves(r, locals),
         locals.store = s, locals.pages = {}, locals.running = {},
         locals.chunk \in {NoChunk} \cup chunks,
         \/ locals.pc = "create" /\ s \notin DOMAIN stores
              /\ (locals.kind = "create" \/ locals.doc \in Loader)
         \/ locals.pc = "readForSave" /\ locals.doc \in Loader
         \/ locals.pc = "readForProcess" /\ locals.doc \in Loader
              /\ s \in DOMAIN stores /\ locals.doc \in Docs(stores[s])
         \/ locals.pc \in {"list", "next", "readForConfig"}
         \/ locals.pc = "read" /\ locals.kind \in {"deleteStore", "deleteLoader"}
         \/ locals.pc = "read" /\ locals.kind \in {"deleteChunk", "editChunk"}
              /\ locals.chunk \in Chunk
              /\ locals.chunk.doc = locals.doc /\ locals.chunk.store = s
  PROVE  OrphanInv'
BY RequestRowFacts, BeginKeeps DEF Moves

LEMMA BeginNewStoreKeeps ==
  ASSUME Overlap = FALSE, OrphanInv, NEW r \in Request, NEW s \in Store, BeginNewStore(r, s)
  PROVE  OrphanInv'
<1>1. s \notin DOMAIN stores
  BY DEF BeginNewStore, OrphanInv, TablesInv
<1>2. Begins(r, s) /\ UNCHANGED <<stores, chunks, made>>
  BY DEF BeginNewStore
<1>3. CASE Asks(r, "create", "create", s, NoLoader) /\ known' = known \cup {s}
  <2> DEFINE locals == [Idle EXCEPT !.pc = "create", !.kind = "create", !.store = s,
                                    !.doc = NoLoader]
  <2>1. /\ locals \in RequestRow /\ locals.pc = "create" /\ locals.kind = "create"
        /\ locals.store = s /\ locals.pages = {} /\ locals.running = {} /\ locals.chunk = NoChunk
    BY DEF RequestRow, Idle, Pcs, Kinds
  <2>2. Moves(r, locals)
    BY <1>3 DEF Asks
  <2> HIDE DEF locals
  <2> QED
    BY <1>1, <1>2, <1>3, <2>1, <2>2, BeginBlankKeeps
<1>4. CASE \E d \in Loader \ known :
             Asks(r, "upsert", "create", s, d) /\ known' = known \cup {s, d}
  <2>1. PICK d \in Loader \ known :
          Asks(r, "upsert", "create", s, d) /\ known' = known \cup {s, d}
    BY <1>4
  <2> DEFINE locals == [Idle EXCEPT !.pc = "create", !.kind = "upsert", !.store = s, !.doc = d]
  <2>2. /\ locals \in RequestRow /\ locals.pc = "create" /\ locals.doc \in Loader
        /\ locals.store = s /\ locals.pages = {} /\ locals.running = {} /\ locals.chunk = NoChunk
    BY DEF RequestRow, Idle, Pcs, Kinds
  <2>3. Moves(r, locals)
    BY <2>1 DEF Asks
  <2> HIDE DEF locals
  <2> QED
    BY <1>1, <1>2, <2>1, <2>2, <2>3, BeginBlankKeeps
<1> QED
  BY <1>3, <1>4 DEF BeginNewStore

LEMMA BeginLoaderKeeps ==
  ASSUME Overlap = FALSE, OrphanInv, NEW r \in Request, NEW s \in Store, NEW d \in Loader,
         NEW kind \in Kinds, BeginLoader(r, s, d, kind)
  PROVE  OrphanInv'
<1> DEFINE locals == [Idle EXCEPT !.pc = "readForSave", !.kind = kind, !.store = s, !.doc = d]
<1>1. /\ Begins(r, s) /\ Moves(r, locals) /\ known' = known \cup {d}
      /\ UNCHANGED <<stores, chunks, made>>
  BY DEF BeginLoader, Asks
<1>2. s \in known'
  BY <1>1 DEF BeginLoader, OrphanInv, TablesInv
<1>3. /\ locals \in RequestRow /\ locals.pc = "readForSave" /\ locals.doc \in Loader
      /\ locals.store = s /\ locals.pages = {} /\ locals.running = {} /\ locals.chunk = NoChunk
  BY DEF RequestRow, Idle, Pcs
<1> HIDE DEF locals
<1> QED
  BY <1>1, <1>2, <1>3, BeginBlankKeeps

LEMMA BeginOnStoreKeeps ==
  ASSUME Overlap = FALSE, OrphanInv, NEW r \in Request, NEW s \in Store, NEW kind \in Kinds,
         BeginOnStore(r, s, kind)
  PROVE  OrphanInv'
<1> DEFINE pc == CASE kind = "refresh" -> "list"
                   [] kind \in {"insert", "config"} -> "readForConfig"
                   [] OTHER -> "read"
           locals == [Idle EXCEPT !.pc = pc, !.kind = kind, !.store = s, !.doc = NoLoader]
<1>1. /\ Begins(r, s) /\ Moves(r, locals)
      /\ UNCHANGED <<stores, chunks, made, known>>
  BY DEF BeginOnStore, Asks
<1>2. s \in known'
  BY <1>1 DEF BeginOnStore, OrphanInv, TablesInv
<1>3. /\ pc \in {"list", "readForConfig", "read"}
      /\ pc = "read" => kind = "deleteStore"
  BY DEF BeginOnStore
<1> HIDE DEF pc
<1>4. /\ locals \in RequestRow /\ locals.pc = pc /\ locals.kind = kind
      /\ locals.store = s /\ locals.pages = {} /\ locals.running = {} /\ locals.chunk = NoChunk
  BY <1>3 DEF RequestRow, Idle, Pcs
<1> HIDE DEF locals
<1> QED
  BY <1>1, <1>2, <1>3, <1>4, BeginBlankKeeps

LEMMA BeginProcessKeeps ==
  ASSUME Overlap = FALSE, OrphanInv, NEW r \in Request, NEW s \in Store, NEW d \in Loader,
         BeginProcess(r, s, d)
  PROVE  OrphanInv'
<1> DEFINE locals == [Idle EXCEPT !.pc = "readForProcess", !.kind = "process", !.store = s,
                                  !.doc = d]
<1>1. /\ Begins(r, s) /\ Moves(r, locals) /\ s \in DOMAIN stores /\ d \in Docs(stores[s])
      /\ UNCHANGED <<stores, chunks, made, known>>
  BY DEF BeginProcess, Asks
<1>2. s \in known'
  BY <1>1 DEF OrphanInv, TablesInv
<1>3. /\ locals \in RequestRow /\ locals.pc = "readForProcess" /\ locals.doc = d
      /\ locals.store = s /\ locals.pages = {} /\ locals.running = {} /\ locals.chunk = NoChunk
  BY DEF RequestRow, Idle, Pcs, Kinds
<1> HIDE DEF locals
<1> QED
  BY <1>1, <1>2, <1>3, BeginBlankKeeps

LEMMA BeginRefreshOfKeeps ==
  ASSUME Overlap = FALSE, OrphanInv, NEW r \in Request, NEW s \in Store,
         NEW asked \in SUBSET Loader, BeginRefreshOf(r, s, asked)
  PROVE  OrphanInv'
<1> DEFINE locals == [Idle EXCEPT !.pc = "next", !.kind = "refresh", !.store = s, !.asked = asked,
                                  !.added = asked \ known, !.todo = asked]
<1>1. /\ Begins(r, s) /\ Moves(r, locals) /\ known' = known \cup asked
      /\ UNCHANGED <<stores, chunks, made>>
  BY DEF BeginRefreshOf
<1>2. s \in known'
  BY <1>1 DEF BeginRefreshOf, OrphanInv, TablesInv
<1>3. /\ locals \in RequestRow /\ locals.pc = "next"
      /\ locals.store = s /\ locals.pages = {} /\ locals.running = {} /\ locals.chunk = NoChunk
  BY DEF RequestRow, Idle, Pcs, Kinds
<1> HIDE DEF locals
<1> QED
  BY <1>1, <1>2, <1>3, BeginBlankKeeps

LEMMA BeginTouchKeeps ==
  ASSUME Overlap = FALSE, OrphanInv, NEW r \in Request, NEW s \in Store, BeginTouch(r, s)
  PROVE  OrphanInv'
<1> DEFINE locals == [Idle EXCEPT !.pc = "read", !.kind = "touch", !.store = s]
<1>1. /\ Begins(r, s) /\ Becomes(r, locals, stores[s]) /\ s \in DOMAIN stores
      /\ UNCHANGED <<stores, chunks, made, known>>
  BY DEF BeginTouch
<1>2. s \in known' /\ Docs(stores[s]) \subseteq Loader
  BY <1>1 DEF OrphanInv, TablesInv
<1>3. /\ locals \in RequestRow /\ locals.pc = "read" /\ locals.kind = "touch"
      /\ locals.store = s /\ locals.pages = {} /\ locals.running = {} /\ locals.chunk = NoChunk
  BY DEF RequestRow, Idle, Pcs, Kinds
<1> HIDE DEF locals
<1> QED
  BY <1>1, <1>2, <1>3, BeginKeeps

LEMMA BeginDeleteLoaderKeeps ==
  ASSUME Overlap = FALSE, OrphanInv, NEW r \in Request, NEW s \in Store, NEW d \in Loader,
         BeginDeleteLoader(r, s, d)
  PROVE  OrphanInv'
<1> DEFINE locals == [Idle EXCEPT !.pc = "read", !.kind = "deleteLoader", !.store = s, !.doc = d]
<1>1. /\ Begins(r, s) /\ Moves(r, locals)
      /\ UNCHANGED <<stores, chunks, made, known>>
  BY DEF BeginDeleteLoader, Asks
<1>2. s \in known'
  BY <1>1 DEF BeginDeleteLoader, OrphanInv, TablesInv
<1>3. /\ locals \in RequestRow /\ locals.pc = "read" /\ locals.kind = "deleteLoader"
      /\ locals.store = s /\ locals.pages = {} /\ locals.running = {} /\ locals.chunk = NoChunk
  BY DEF RequestRow, Idle, Pcs, Kinds
<1> HIDE DEF locals
<1> QED
  BY <1>1, <1>2, <1>3, BeginBlankKeeps

LEMMA BeginOnChunkKeeps ==
  ASSUME Overlap = FALSE, OrphanInv, NEW r \in Request, NEW c \in chunks, NEW kind \in Kinds,
         BeginOnChunk(r, c, kind)
  PROVE  OrphanInv'
<1> DEFINE locals == [Idle EXCEPT !.pc = "read", !.kind = kind, !.store = c.store,
                                  !.doc = c.doc, !.chunk = c]
<1>1. /\ Begins(r, c.store) /\ Moves(r, locals) /\ kind \in {"deleteChunk", "editChunk"}
      /\ UNCHANGED <<stores, chunks, made, known>>
  BY DEF BeginOnChunk
<1>2. c \in Chunk /\ c.store \in Store /\ c.doc \in Loader
  BY DEF OrphanInv, TablesInv, Chunk
<1>3. c.store \in known'
  BY <1>1 DEF BeginOnChunk, OrphanInv, TablesInv
<1>4. /\ locals \in RequestRow /\ locals.pc = "read" /\ locals.kind = kind
      /\ locals.store = c.store /\ locals.doc = c.doc /\ locals.pages = {} /\ locals.chunk = c
      /\ locals.running = {}
  BY <1>2 DEF RequestRow, Idle, Pcs
<1> HIDE DEF locals
<1> QED
  BY <1>1, <1>2, <1>3, <1>4, BeginBlankKeeps

-----------------------------------------------------------------------------
LEMMA OrphanInvStarts == Init => OrphanInv
<1> SUFFICES ASSUME Init PROVE OrphanInv
  OBVIOUS
<1>1. /\ Idle \in RequestRow /\ Idle.pc = "idle" /\ Idle.pages = {} /\ Idle.chunk = NoChunk
      /\ Idle.running = {}
  BY DEF Idle, RequestRow, Pcs
<1>2. /\ DOMAIN stores = {} /\ chunks = {} /\ known = {} /\ made = 0
      /\ \A r \in Request : req[r] = Idle /\ copy[r] = EmptyRow
  BY DEF Init
<1>3. TablesInv /\ NoOrphans
  BY <1>2 DEF TablesInv, NoOrphans
<1>4. RequestTypes
  BY <1>1, <1>2 DEF RequestTypes, Init, Docs, EmptyRow
<1>5. Held = {}
  BY <1>1, <1>2, StoreDistinct DEF Held
<1>6. IdInv /\ Exclusive
  BY <1>1, <1>2, <1>5 DEF IdInv, Exclusive, Busy
<1>7. \A r \in Request : RequestInv(r)
  BY <1>1, <1>2
  DEF RequestInv, Busy, At, CopyIsCurrent, LoaderIsListed, FillsLoader, Splits, Files
<1> QED
  BY <1>3, <1>4, <1>6, <1>7 DEF OrphanInv

LEMMA OrphanInvStays ==
  ASSUME Overlap = FALSE
  PROVE  OrphanInv /\ [Next]_vars => OrphanInv'
<1> SUFFICES ASSUME OrphanInv, [Next]_vars PROVE OrphanInv'
  OBVIOUS
<1>1. CASE UNCHANGED vars
  BY <1>1 DEF vars, OrphanInv, TablesInv, RequestTypes, IdInv, Held, SameRow, Exclusive, NoOrphans,
              Stray, RequestInv, Busy, At, CopyIsCurrent, LoaderIsListed, FillsLoader, Splits,
              Files, StoreOf, DocOf, Docs
<1>2. CASE Next
  <2>1. PICK r \in Request : Begin(r) \/ Proceed(r) \/ InsertLate(r) \/ Fail(r)
    BY <1>2 DEF Next
  <2>2. CASE Begin(r)
    BY <2>2, BeginNewStoreKeeps, BeginLoaderKeeps, BeginProcessKeeps, BeginRefreshOfKeeps,
       BeginOnStoreKeeps, BeginTouchKeeps, BeginDeleteLoaderKeeps, BeginOnChunkKeeps DEF Begin
  <2>3. CASE Proceed(r)
    BY <2>3, CreateStoreKeeps, ListLoadersKeeps, NextLoaderKeeps, ReadForSaveKeeps,
       SaveLoaderKeeps, ReadForProcessKeeps, SplitKeeps, DropChunksKeeps, InsertChunkKeeps,
       SaveProcessedKeeps, ReadChunksKeeps, ReadForConfigKeeps, SaveConfigKeeps,
       MarkUpsertingKeeps, ReadForUpsertKeeps, SaveUpsertedKeeps, ReadKeeps, ReadForTouchKeeps,
       ReadChunkKeeps, ChangeChunkKeeps, WriteKeeps, DeleteRowKeeps DEF Proceed
  <2>4. CASE InsertLate(r)
    BY <2>4, InsertLateKeeps
  <2>5. CASE Fail(r)
    BY <2>5, FailKeeps
  <2> QED
    BY <2>1, <2>2, <2>3, <2>4, <2>5
<1> QED
  BY <1>1, <1>2

(* However many requests of different stores overlap, and wherever one     *)
(* fails, every chunk belongs to a loader its store lists, as long as the  *)
(* requests of one store come one after the other: the deletions delete    *)
(* chunks first (161, 332), the insertions save the loader first (760).    *)
(* The chunks excepted are those whose insert was running when its request *)
(* failed (1047): they may land after the loader or the store is deleted.  *)
THEOREM ChunksHaveLoaders ==
  ASSUME Overlap = FALSE
  PROVE  Spec => []NoOrphans
<1>1. Init => OrphanInv
  BY OrphanInvStarts
<1>2. OrphanInv /\ [Next]_vars => OrphanInv'
  BY OrphanInvStays
<1>3. OrphanInv => NoOrphans
  BY DEF OrphanInv
<1> QED
  BY <1>1, <1>2, <1>3, PTL DEF Spec

-----------------------------------------------------------------------------
(* Sums of finite sets.                                                    *)

(* Every set of naturals that is not empty has a least element.            *)
LEMMA Least ==
  ASSUME NEW S \in SUBSET Nat, S # {}
  PROVE  \E m \in S : \A x \in S : m <= x
<1> DEFINE R == {ss \in Nat \X Nat : ss[1] < ss[2]}
<1>1. R = OpToRel(<, Nat)
  BY DEF OpToRel
<1>2. IsWellFoundedOn(R, Nat)
  BY <1>1, NatLessThanWellFounded
<1>3. PICK m \in S : \A x \in S : ~(<<x, m>> \in R)
  BY <1>2, WFMin
<1>4. \A x \in S : ~(x < m)
  BY <1>3
<1> QED
  BY <1>4

(* Some member of a set, the one at which the sums below start.            *)
Any(s) == CHOOSE x \in s : TRUE

(* g sums the lengths of each subset of S.                                 *)
Sums(g, S) ==
  g = [s \in SUBSET S |-> IF s = {} THEN 0 ELSE Any(s).length + g[s \ {Any(s)}]]

(* CharsOf chooses such a g, if there is one.                              *)
LEMMA CharsOfIsSum ==
  ASSUME NEW cs, NEW h, Sums(h, cs)
  PROVE  \E g : Sums(g, cs) /\ CharsOf(cs) = g[cs]
<1> DEFINE f == [c \in cs |-> c.length]
           Chosen(g) == g = [s \in SUBSET cs |-> IF s = {} THEN 0
                               ELSE f[CHOOSE x \in s : TRUE] + g[s \ {CHOOSE x \in s : TRUE}]]
<1>1. DOMAIN f = cs
  OBVIOUS
<1>2. CharsOf(cs) = (CHOOSE g : Chosen(g))[cs]
  BY <1>1 DEF CharsOf, SumFunction, SumFunctionOnSet, FoldFunctionOnSet, MapThenFoldSet
<1>3. ASSUME NEW s \in SUBSET cs, s # {}
      PROVE  f[Any(s)] = Any(s).length
  BY <1>3 DEF Any
<1> HIDE DEF f
<1>4. ASSUME NEW g
      PROVE  Sums(g, cs) <=> Chosen(g)
  <2>1. \A s \in SUBSET cs :
           (IF s = {} THEN 0 ELSE f[Any(s)] + g[s \ {Any(s)}])
             = (IF s = {} THEN 0 ELSE Any(s).length + g[s \ {Any(s)}])
    BY <1>3
  <2>2. Chosen(g) <=> g = [s \in SUBSET cs |-> IF s = {} THEN 0 ELSE f[Any(s)] + g[s \ {Any(s)}]]
    BY DEF Any
  <2> QED
    BY <2>1, <2>2 DEF Sums
<1> HIDE DEF Chosen
<1> QED
  BY <1>2, <1>4

(* The same for the subsets of at most n members.                          *)
Small(S, n) == {s \in SUBSET S : Cardinality(s) <= n}
SumsTo(g, S, n) ==
  g = [s \in Small(S, n) |-> IF s = {} THEN 0 ELSE Any(s).length + g[s \ {Any(s)}]]

LEMMA WithoutAny ==
  ASSUME NEW s, IsFiniteSet(s), s # {}
  PROVE  /\ Any(s) \in s /\ IsFiniteSet(s \ {Any(s)})
         /\ Cardinality(s) \in Nat /\ Cardinality(s \ {Any(s)}) \in Nat
         /\ Cardinality(s) = Cardinality(s \ {Any(s)}) + 1
<1>1. Any(s) \in s
  BY DEF Any
<1>2. Cardinality(s) \in Nat /\ Cardinality(s \ {Any(s)}) \in Nat
  BY FS_CardinalityType, FS_RemoveElement
<1>3. Cardinality(s \ {Any(s)}) = Cardinality(s) - 1
  BY <1>1, FS_RemoveElement
<1> QED
  BY <1>1, <1>2, <1>3, FS_RemoveElement

(* Sums up to n - 1 members extend to n.                                   *)
LEMMA SumsExtend ==
  ASSUME NEW S, IsFiniteSet(S), NEW n \in Nat, NEW g, SumsTo(g, S, n)
  PROVE  \E h : SumsTo(h, S, n + 1)
<1> DEFINE h == [s \in Small(S, n + 1) |-> IF s = {} THEN 0 ELSE Any(s).length + g[s \ {Any(s)}]]
<1>1. ASSUME NEW s \in Small(S, n + 1), s # {}
      PROVE  s \ {Any(s)} \in Small(S, n) /\ s \ {Any(s)} \in Small(S, n + 1)
  <2>1. IsFiniteSet(s) /\ s \subseteq S
    BY <1>1, FS_Subset DEF Small
  <2> QED
    BY <1>1, <2>1, WithoutAny DEF Small
<1>2. ASSUME NEW s \in Small(S, n) PROVE s \in Small(S, n + 1) /\ h[s] = g[s]
  <2>1. IsFiniteSet(s) /\ s \subseteq S
    BY FS_Subset DEF Small
  <2>2. s \in Small(S, n + 1)
    BY <2>1, FS_CardinalityType DEF Small
  <2>3. g[s] = IF s = {} THEN 0 ELSE Any(s).length + g[s \ {Any(s)}]
    BY DEF SumsTo
  <2> QED
    BY <2>2, <2>3
<1>3. h = [s \in Small(S, n + 1) |-> IF s = {} THEN 0 ELSE Any(s).length + h[s \ {Any(s)}]]
  <2>1. \A s \in Small(S, n + 1) : s # {} => h[s \ {Any(s)}] = g[s \ {Any(s)}]
    BY <1>1, <1>2
  <2> QED
    BY <2>1
<1> QED
  BY <1>3 DEF SumsTo

LEMMA SumsStart ==
  ASSUME NEW S, IsFiniteSet(S)
  PROVE  \E g : SumsTo(g, S, 0)
<1> DEFINE g == [s \in Small(S, 0) |-> 0]
<1>1. \A s \in Small(S, 0) : s = {}
  BY FS_Subset, FS_EmptySet, FS_CardinalityType DEF Small
<1>2. g = [s \in Small(S, 0) |-> IF s = {} THEN 0 ELSE Any(s).length + g[s \ {Any(s)}]]
  BY <1>1
<1> QED
  BY <1>2 DEF SumsTo

LEMMA SumsExist ==
  ASSUME NEW S, IsFiniteSet(S)
  PROVE  \E g : Sums(g, S)
<1> DEFINE Bad == {n \in Nat : ~ \E g : SumsTo(g, S, n)}
<1>1. Bad = {}
  <2>1. SUFFICES ASSUME Bad # {} PROVE FALSE
    OBVIOUS
  <2>2. PICK m \in Bad : \A x \in Bad : m <= x
    <3>1. Bad \in SUBSET Nat
      OBVIOUS
    <3> HIDE DEF Bad
    <3> QED
      BY <2>1, <3>1, Least
  <2>3. m # 0
    BY SumsStart
  <2>4. m \in Nat /\ m - 1 \in Nat /\ (m - 1) + 1 = m
    BY <2>3
  <2>5. m - 1 \notin Bad
    <3> HIDE DEF Bad
    <3> QED
      BY <2>2, <2>4
  <2>6. \E g : SumsTo(g, S, m - 1)
    BY <2>4, <2>5
  <2>7. \E g : SumsTo(g, S, m)
    BY <2>4, <2>6, SumsExtend
  <2> QED
    BY <2>7
<1>2. Cardinality(S) \in Nat
  BY FS_CardinalityType
<1>3. PICK g : SumsTo(g, S, Cardinality(S))
  BY <1>1, <1>2
<1>4. Small(S, Cardinality(S)) = SUBSET S
  BY FS_Subset DEF Small
<1> QED
  BY <1>3, <1>4 DEF SumsTo, Sums
(* A set of fewest members among the subsets of S of which P is a set.     *)
LEMMA Fewest ==
  ASSUME NEW S, IsFiniteSet(S), NEW P \in SUBSET SUBSET S, P # {}
  PROVE  \E s \in P : \A t \in P : Cardinality(s) <= Cardinality(t)
<1> DEFINE N == {Cardinality(s) : s \in P}
<1>1. N \in SUBSET Nat /\ N # {}
  BY FS_Subset, FS_CardinalityType
<1>2. PICK m \in N : \A n \in N : m <= n
  <2> HIDE DEF N
  <2> QED
    BY <1>1, Least
<1> QED
  BY <1>2

(* What a subset sums to does not depend on the set it is taken from.      *)
LEMMA SumsAgree ==
  ASSUME NEW S, IsFiniteSet(S), NEW T, IsFiniteSet(T), NEW g, Sums(g, S), NEW h, Sums(h, T),
         NEW s \in SUBSET S, s \subseteq T
  PROVE  g[s] = h[s]
<1> DEFINE Bad == {t \in SUBSET S : t \subseteq T /\ g[t] # h[t]}
<1>1. Bad = {}
  <2>1. SUFFICES ASSUME Bad # {} PROVE FALSE
    OBVIOUS
  <2>2. PICK t \in Bad : \A u \in Bad : Cardinality(t) <= Cardinality(u)
    <3>1. Bad \in SUBSET SUBSET S
      OBVIOUS
    <3> HIDE DEF Bad
    <3> QED
      BY <2>1, <3>1, Fewest
  <2>3. t \in SUBSET S /\ t \in SUBSET T /\ IsFiniteSet(t) /\ g[t] # h[t]
    BY FS_Subset
  <2>4. /\ g[t] = IF t = {} THEN 0 ELSE Any(t).length + g[t \ {Any(t)}]
        /\ h[t] = IF t = {} THEN 0 ELSE Any(t).length + h[t \ {Any(t)}]
    BY <2>3 DEF Sums
  <2>5. t # {}
    BY <2>3, <2>4
  <2>6. t \ {Any(t)} \notin Bad
    <3>1. /\ Cardinality(t) = Cardinality(t \ {Any(t)}) + 1
          /\ Cardinality(t) \in Nat /\ Cardinality(t \ {Any(t)}) \in Nat
      BY <2>3, <2>5, WithoutAny
    <3> HIDE DEF Bad
    <3> QED
      BY <2>2, <3>1
  <2>7. g[t \ {Any(t)}] = h[t \ {Any(t)}]
    <3>1. t \ {Any(t)} \in SUBSET S /\ t \ {Any(t)} \subseteq T
      BY <2>3
    <3> QED
      BY <2>6, <3>1
  <2> QED
    BY <2>3, <2>4, <2>7
<1> QED
  BY <1>1

LEMMA SumIsInt ==
  ASSUME NEW S, IsFiniteSet(S), \A c \in S : c.length \in Int, NEW g, Sums(g, S),
         NEW s \in SUBSET S
  PROVE  g[s] \in Int
<1> DEFINE Bad == {t \in SUBSET S : g[t] \notin Int}
<1>1. Bad = {}
  <2>1. SUFFICES ASSUME Bad # {} PROVE FALSE
    OBVIOUS
  <2>2. PICK t \in Bad : \A u \in Bad : Cardinality(t) <= Cardinality(u)
    <3>1. Bad \in SUBSET SUBSET S
      OBVIOUS
    <3> HIDE DEF Bad
    <3> QED
      BY <2>1, <3>1, Fewest
  <2>3. t \in SUBSET S /\ IsFiniteSet(t) /\ g[t] \notin Int
    BY FS_Subset
  <2>4. g[t] = IF t = {} THEN 0 ELSE Any(t).length + g[t \ {Any(t)}]
    BY <2>3 DEF Sums
  <2>5. t # {}
    BY <2>3, <2>4
  <2>6. t \ {Any(t)} \notin Bad /\ Any(t) \in S
    <3> HIDE DEF Bad
    <3> QED
      BY <2>2, <2>3, <2>5, WithoutAny
  <2>7. g[t \ {Any(t)}] \in Int
    BY <2>3, <2>6
  <2> QED
    BY <2>3, <2>4, <2>5, <2>6, <2>7
<1> QED
  BY <1>1

(* Any member may be taken off first.                                      *)
LEMMA SumSplits ==
  ASSUME NEW S, IsFiniteSet(S), \A c \in S : c.length \in Int, NEW g, Sums(g, S),
         NEW s \in SUBSET S, NEW x \in s
  PROVE  g[s] = x.length + g[s \ {x}]
<1> DEFINE Bad == {t \in SUBSET S : \E y \in t : g[t] # y.length + g[t \ {y}]}
<1>1. Bad = {}
  <2>1. SUFFICES ASSUME Bad # {} PROVE FALSE
    OBVIOUS
  <2>2. PICK t \in Bad : \A u \in Bad : Cardinality(t) <= Cardinality(u)
    <3>1. Bad \in SUBSET SUBSET S
      OBVIOUS
    <3> HIDE DEF Bad
    <3> QED
      BY <2>1, <3>1, Fewest
  <2>3. PICK y \in t : g[t] # y.length + g[t \ {y}]
    OBVIOUS
  <2>4. t \in SUBSET S /\ IsFiniteSet(t) /\ t # {}
    BY <2>3, FS_Subset
  <2> DEFINE a == Any(t)
  <2>5. g[t] = a.length + g[t \ {a}] /\ a \in t
    BY <2>4, WithoutAny DEF Sums
  <2>6. /\ t \ {a} \notin Bad /\ t \ {y} \notin Bad
    <3>1. /\ Cardinality(t \ {a}) = Cardinality(t) - 1 /\ Cardinality(t \ {y}) = Cardinality(t) - 1
          /\ Cardinality(t) \in Nat
      BY <2>3, <2>4, <2>5, FS_RemoveElement, FS_CardinalityType
    <3> HIDE DEF Bad
    <3> QED
      BY <2>2, <3>1
  <2> HIDE DEF a
  <2>7. a # y
    BY <2>3, <2>5
  <2>8. g[t \ {a}] = y.length + g[(t \ {a}) \ {y}]
    BY <2>3, <2>4, <2>6, <2>7
  <2>9. g[t \ {y}] = a.length + g[(t \ {y}) \ {a}]
    BY <2>4, <2>5, <2>6, <2>7
  <2>10. (t \ {y}) \ {a} = (t \ {a}) \ {y}
    OBVIOUS
  <2>11. a.length \in Int /\ y.length \in Int /\ g[(t \ {a}) \ {y}] \in Int
    BY <2>3, <2>4, <2>5, SumIsInt
  <2> DEFINE rest == g[(t \ {a}) \ {y}]
  <2>12. g[t] = a.length + (y.length + rest) /\ g[t \ {y}] = a.length + rest
    BY <2>5, <2>8, <2>9, <2>10
  <2> HIDE DEF rest
  <2>13. a.length \in Int /\ y.length \in Int /\ rest \in Int
    BY <2>11 DEF rest
  <2>14. g[t] = y.length + g[t \ {y}]
    BY <2>12, <2>13
  <2> QED
    BY <2>3, <2>14
<1> QED
  BY <1>1

(* What CharsOf computes.                                                  *)
LEMMA CharsOfAll ==
  ASSUME NEW S, IsFiniteSet(S)
  PROVE  \E g : Sums(g, S) /\ CharsOf(S) = g[S]
BY SumsExist, CharsOfIsSum

LEMMA CharsOfNone == CharsOf({}) = 0
<1>1. PICK g : Sums(g, {}) /\ CharsOf({}) = g[{}]
  BY CharsOfAll, FS_EmptySet
<1> QED
  BY <1>1 DEF Sums

LEMMA CharsOfType ==
  ASSUME NEW S, IsFiniteSet(S), \A c \in S : c.length \in Int
  PROVE  CharsOf(S) \in Int
<1>1. PICK g : Sums(g, S) /\ CharsOf(S) = g[S]
  BY CharsOfAll
<1> QED
  BY <1>1, SumIsInt

LEMMA CharsOfAdds ==
  ASSUME NEW S, IsFiniteSet(S), \A c \in S : c.length \in Int, NEW x \in S
  PROVE  CharsOf(S) = x.length + CharsOf(S \ {x})
<1>1. PICK g : Sums(g, S) /\ CharsOf(S) = g[S]
  BY CharsOfAll
<1>2. IsFiniteSet(S \ {x})
  BY FS_RemoveElement
<1>3. PICK h : Sums(h, S \ {x}) /\ CharsOf(S \ {x}) = h[S \ {x}]
  BY <1>2, CharsOfAll
<1>4. g[S \ {x}] = h[S \ {x}]
  BY <1>1, <1>2, <1>3, SumsAgree
<1> QED
  BY <1>1, <1>3, <1>4, SumSplits

-----------------------------------------------------------------------------
(* What loaders count.                                                     *)

(* A loader belongs to one store: the one that lists it, or whose request  *)
(* is about to.                                                            *)
Claims(s, d) ==
  \/ s \in DOMAIN stores /\ d \in Docs(stores[s])
  \/ \E r \in Request :
       Busy(r) /\ StoreOf(r) = s /\ (d = DocOf(r) \/ d \in req[r].todo)

(* A chunk in the table, or a page of a request, is of the store that the  *)
(* loader belongs to, if there is one, and no other store has one of it.   *)
Filed == chunks \cup UNION {req[r].pages : r \in Request}
HomeInv ==
  /\ \A d \in Loader, s \in Store : Claims(s, d) =>
       d \in known /\ \A t \in Store : Claims(t, d) => s = t
  /\ \A c \in Filed : c.doc \in known /\ \A t \in Store : Claims(t, c.doc) => t = c.store
  /\ \A b, c \in Filed : b.doc = c.doc => b.store = c.store

(* Types, and sets of which the members can be counted: no two chunks, no  *)
(* two pages and no chunk and page still to be inserted share an id.       *)
CountInv ==
  /\ \A s \in DOMAIN stores : IsStoreRow(stores[s])
  /\ \A r \in Request : IsStoreRow(copy[r])
  /\ known \subseteq Store \cup Loader /\ torn \subseteq Loader
  /\ made \in 0 .. MaxChunks /\ failures \in 0 .. MaxFailures
  /\ IsFiniteSet(chunks) /\ \A r \in Request : IsFiniteSet(req[r].pages)
  /\ \A b, c \in chunks : b.id = c.id => b = c
  /\ \A r \in Request : \A b, c \in req[r].pages : b.id = c.id => b = c
  /\ \A r \in Request : Files(r) \/ req[r].pages = {}
  /\ \A q, r \in Request : \A b \in req[q].pages, c \in req[r].pages : b.id = c.id => q = r
  /\ \A r \in Request : \A c \in req[r].running : \A b \in chunks : b.id # c.id

(* The totals of a loader, taken for the chunks of d.                      *)
Exact(loader, d) ==
  loader.status = "SYNC" =>
    /\ loader.totalChunks = Cardinality(ChunksOf(d))
    /\ loader.totalChars = CharsOf(ChunksOf(d))
Tallies(loader, d) == d \in torn \/ Exact(loader, d)

(* The copy of a request counts a chunk it changed.                        *)
Counts(r) == At(r, "write") /\ req[r].kind \in {"deleteChunk", "editChunk"}

(* A request of s is about to write what became of the chunks of d.        *)
Settles(r, s, d) ==
  /\ StoreOf(r) = s
  /\ \/ At(r, "deleteRow")
     \/ At(r, "insertChunks") /\ DocOf(r) = d
     \/ At(r, "write") /\ DocOf(r) = d
          /\ req[r].kind \in {"deleteLoader", "deleteChunk", "editChunk"}

StoreTally(s) ==
  s \in DOMAIN stores => \A d \in Docs(stores[s]) :
    Tallies(stores[s].loaders[d], d) \/ \E r \in Request : Settles(r, s, d)

(* The steps of a refresh at which a loader is not there yet.              *)
Fetches(r) ==
  req[r].pc \in {"readForSave", "saveLoader", "readForProcess", "split"} \/ Splits(r)

(* The copy of a request has the loaders of the row, but for the one whose *)
(* chunk it changed, and the table holds the pages that are inserted.      *)
RequestTally(r) ==
  LET s == StoreOf(r)
      d == DocOf(r)
  IN  /\ CopyIsCurrent(r) /\ ~Counts(r) => copy[r].loaders = stores[s].loaders
      /\ Counts(r) =>
           /\ \A e \in Docs(stores[s]) : e # d => copy[r].loaders[e] = stores[s].loaders[e]
           /\ d \in Docs(stores[s]) /\ Tallies(copy[r].loaders[d], d)
      /\ At(r, "insertChunks") => d \in torn \/ ChunksOf(d) = req[r].pages \ req[r].running
      /\ At(r, "dropChunks") => req[r].running = req[r].pages
      /\ At(r, "late") => \A c \in req[r].running : c.doc \in torn
      /\ At(r, "changeChunk") => req[r].chunk \in chunks
      /\ FillsLoader(r) => req[r].kind \in {"save", "process", "upsert", "refresh"}
      /\ At(r, "write") /\ req[r].kind # "touch" => d \in Loader

(* What a refresh has done of what it was asked for.                       *)
Refreshes(r) == req[r].kind = "refresh" /\ Busy(r) /\ ~At(r, "list")
RequestRefresh(r) ==
  LET s == StoreOf(r)
      done == req[r].asked \ req[r].todo
  IN  /\ req[r].pc \in {"list", "next"} => req[r].kind = "refresh"
      /\ req[r].todo \subseteq req[r].asked
      /\ Refreshes(r) =>
           /\ s \in DOMAIN stores /\ req[r].todo \ req[r].added \subseteq Docs(stores[s])
           /\ ~At(r, "next") => DocOf(r) \in done
           /\ \A d \in done : \/ d \in Docs(stores[s]) /\ stores[s].loaders[d].status = "SYNC"
                              \/ Fetches(r) /\ d = DocOf(r)
           /\ At(r, "next") /\ done # {} => stores[s].status = "UPSERTED"

TallyInv ==
  /\ HomeInv /\ CountInv
  /\ \A s \in Store : StoreTally(s)
  /\ \A r \in Request : RequestTally(r) /\ RequestRefresh(r)
-----------------------------------------------------------------------------
(* What a step of one request leaves alone of the counts.                  *)

(* Chunks of other stores stay.                                            *)
Others(s) == \A c \in chunks : c.store # s => c \in chunks'

(* A loader is whole again only by a request of its store, and with no     *)
(* insert left that may land on it.                                        *)
Healed(s) == \A d \in torn \ torn' : Claims(s, d) /\ Late(d) = {}

(* The chunks of a loader are in the store it belongs to.                  *)
LEMMA ChunksAtHome ==
  ASSUME HomeInv, NEW t \in Store, NEW d \in Loader, Claims(t, d)
  PROVE  \A c \in ChunksOf(d) : c.store = t
BY DEF HomeInv, Filed, ChunksOf

LEMMA ChunksElsewhere ==
  ASSUME HomeInv, HomeInv', NEW s \in Store, NEW t \in Store, t # s,
         NEW d \in Loader, Claims(t, d), Claims(t, d)', Frame(s), Others(s)
  PROVE  ChunksOf(d)' = ChunksOf(d)
<1>1. \A c \in ChunksOf(d) : c.store = t
  BY ChunksAtHome
<1>2. \A c \in chunks' : c.doc = d => c.store = t
  BY DEF HomeInv, Filed
<1>3. \A c \in ChunksOf(d) : c \in chunks'
  BY <1>1 DEF Others, ChunksOf
<1>4. \A c \in ChunksOf(d)' : c \in chunks
  BY <1>2 DEF Frame, ChunksOf
<1> QED
  BY <1>3, <1>4 DEF ChunksOf

LEMMA TornElsewhere ==
  ASSUME HomeInv, CountInv, NEW s \in Store, NEW t \in Store, t # s, Healed(s),
         NEW d \in torn, Claims(t, d)
  PROVE  d \in torn'
BY DEF Healed, HomeInv, CountInv

LEMMA SameTallies ==
  ASSUME NEW d, ChunksOf(d)' = ChunksOf(d), d \in torn => d \in torn', NEW loader
  PROVE  Tallies(loader, d) => Tallies(loader, d)'
BY DEF Exact, Tallies

(* The row of another store counts as before.                              *)
LEMMA StoreTallyElsewhere ==
  ASSUME OrphanInv, OrphanInv', TallyInv, HomeInv', NEW r \in Request, NEW s \in Store,
         Frame(s), Others(s), Healed(s), OnlyRequest(r, s), Busy(r) => StoreOf(r) = s,
         NEW t \in Store, t # s
  PROVE  StoreTally(t)'
<1> SUFFICES ASSUME t \in DOMAIN stores', NEW d \in Docs(stores'[t])
             PROVE  \/ Tallies(stores[t].loaders[d], d)'
                    \/ \E q \in Request : Settles(q, t, d)'
  BY DEF StoreTally, Docs
<1>1. t \in DOMAIN stores /\ stores'[t] = stores[t]
  BY DEF Frame
<1>2. d \in Docs(stores[t]) /\ d \in Loader
  BY <1>1 DEF OrphanInv, TablesInv
<1>3. Claims(t, d) /\ Claims(t, d)'
  BY <1>1, <1>2 DEF Claims, Docs
<1>4. ChunksOf(d)' = ChunksOf(d) /\ (d \in torn => d \in torn')
  BY <1>2, <1>3, ChunksElsewhere, TornElsewhere DEF TallyInv
<1> DEFINE loader == stores[t].loaders[d]
<1>5. Tallies(loader, d) \/ \E q \in Request : Settles(q, t, d)
  BY <1>1, <1>2 DEF TallyInv, StoreTally
<1>6. stores'[t].loaders[d] = loader
  BY <1>1
<1>7. ASSUME NEW q \in Request, Settles(q, t, d) PROVE Settles(q, t, d)'
  <2>1. q # r
    BY <1>7 DEF Settles, Busy, At
  <2>2. req'[q] = req[q]
    BY <2>1 DEF OnlyRequest, OrphanInv, RequestTypes
  <2> QED
    BY <1>7, <2>2 DEF Settles, StoreOf, DocOf, At
<1> HIDE DEF loader
<1>8. Tallies(loader, d) => Tallies(stores[t].loaders[d], d)'
  BY <1>4, <1>6 DEF Tallies, Exact
<1> QED
  BY <1>5, <1>7, <1>8

(* Another request finds what it found before.                             *)
LEMMA RequestTallyElsewhere ==
  ASSUME OrphanInv, OrphanInv', TallyInv, HomeInv', NEW r \in Request, NEW s \in Store,
         Alone(r, s), Frame(s), Others(s), Healed(s), OnlyRequest(r, s),
         NEW q \in Request, q # r
  PROVE  RequestTally(q)' /\ RequestRefresh(q)'
<1>1. req'[q] = req[q] /\ copy'[q] = copy[q]
  BY DEF OnlyRequest, OrphanInv, RequestTypes
<1>2. RequestTally(q) /\ RequestRefresh(q) /\ RequestInv(q)
  BY DEF TallyInv, OrphanInv
<1>3. CASE ~ Busy(q)
  <2>1. ASSUME At(q, "late"), NEW c \in req[q].running PROVE c.doc \in torn'
    <3>1. c.doc \in torn /\ c \in Late(c.doc)
      BY <1>2, <2>1 DEF RequestTally, Late
    <3> QED
      BY <3>1 DEF Healed
  <2> QED
    BY <1>1, <1>2, <1>3, <2>1
    DEF RequestTally, RequestRefresh, Refreshes, Busy, At, CopyIsCurrent, Counts, Splits,
        FillsLoader
<1>4. CASE Busy(q)
  <2> PICK t : t = StoreOf(q)
    OBVIOUS
  <2> PICK d : d = DocOf(q)
    OBVIOUS
  <2>1. t \in Store /\ t # s
    BY <1>2, <1>4 DEF Alone, RequestInv
  <2>2. /\ t \in DOMAIN stores' <=> t \in DOMAIN stores
        /\ t \in DOMAIN stores => stores'[t] = stores[t]
    BY <2>1 DEF Frame
  <2>3. d \in Loader => ChunksOf(d)' = ChunksOf(d) /\ (d \in torn => d \in torn')
    <3>1. Claims(t, d) /\ Claims(t, d)'
      BY <1>1, <1>4 DEF Claims, Busy, StoreOf, DocOf
    <3> QED
      BY <2>1, <3>1, ChunksElsewhere, TornElsewhere DEF TallyInv
  <2>4. /\ StoreOf(q)' = t /\ DocOf(q)' = d
        /\ CopyIsCurrent(q)' = CopyIsCurrent(q) /\ Counts(q)' = Counts(q)
        /\ Fetches(q)' = Fetches(q) /\ Refreshes(q)' = Refreshes(q)
        /\ At(q, "insertChunks")' = At(q, "insertChunks") /\ At(q, "next")' = At(q, "next")
        /\ At(q, "changeChunk")' = At(q, "changeChunk") /\ FillsLoader(q)' = FillsLoader(q)
        /\ At(q, "dropChunks")' = At(q, "dropChunks") /\ At(q, "write")' = At(q, "write")
        /\ ~At(q, "late")' /\ ~At(q, "late")
    BY <1>1, <1>4
    DEF FillsLoader, StoreOf, DocOf, CopyIsCurrent, Counts, Fetches, Refreshes, Splits, At, Busy
  <2>5. Counts(q) => CopyIsCurrent(q)
    BY DEF Counts, CopyIsCurrent, At
  <2>6. /\ CopyIsCurrent(q) => t \in DOMAIN stores
        /\ LoaderIsListed(q) => d \in Docs(stores[t]) /\ t \in DOMAIN stores
    BY <1>2 DEF RequestInv
  <2>7. At(q, "changeChunk") => req[q].chunk \in chunks'
    <3>1. At(q, "changeChunk") => req[q].chunk \in chunks /\ req[q].chunk.store = t
      BY <1>2 DEF RequestTally, RequestInv, At
    <3> QED
      BY <2>1, <3>1 DEF Others
  <2>8. t \in DOMAIN stores => Docs(stores[t]) \subseteq Loader
    BY DEF OrphanInv, TablesInv
  <2>9. \A loader : d \in Loader /\ Tallies(loader, d) => Tallies(loader, d)'
    BY <2>3, SameTallies
  <2>10. RequestTally(q)'
    <3>1. CopyIsCurrent(q) /\ ~Counts(q) => copy'[q].loaders = stores'[t].loaders
      BY <1>1, <1>2, <2>2, <2>6 DEF RequestTally
    <3>2. Counts(q) =>
            /\ \A e \in Docs(stores'[t]) : e # d => copy'[q].loaders[e] = stores'[t].loaders[e]
            /\ d \in Docs(stores'[t])
            /\ \A loader : loader = copy'[q].loaders[d] => Tallies(loader, d)'
      <4>1. SUFFICES ASSUME Counts(q)
                     PROVE  /\ \A e \in Docs(stores'[t]) :
                                 e # d => copy'[q].loaders[e] = stores'[t].loaders[e]
                            /\ d \in Docs(stores'[t])
                            /\ \A loader : loader = copy'[q].loaders[d] => Tallies(loader, d)'
        OBVIOUS
      <4>2. /\ \A e \in Docs(stores[t]) : e # d => copy[q].loaders[e] = stores[t].loaders[e]
            /\ d \in Docs(stores[t]) /\ Tallies(copy[q].loaders[d], d)
        BY <1>2, <4>1 DEF RequestTally
      <4>3. stores'[t] = stores[t] /\ d \in Loader
        BY <2>2, <2>5, <2>6, <2>8, <4>1, <4>2
      <4>4. \A loader : loader = copy'[q].loaders[d] => Tallies(loader, d)'
        BY <1>1, <2>9, <4>2, <4>3
      <4> QED
        BY <1>1, <4>2, <4>3, <4>4
    <3>3. At(q, "insertChunks") =>
            d \in torn' \/ ChunksOf(d)' = req'[q].pages \ req'[q].running
      <4>1. At(q, "insertChunks") => LoaderIsListed(q)
        BY DEF LoaderIsListed, At
      <4>2. At(q, "insertChunks") => ChunksOf(d)' = ChunksOf(d) /\ (d \in torn => d \in torn')
        BY <2>3, <2>6, <2>8, <4>1
      <4> QED
        BY <1>1, <1>2, <4>2 DEF RequestTally
    <3>4. /\ FillsLoader(q) => req'[q].kind \in {"save", "process", "upsert", "refresh"}
          /\ At(q, "dropChunks") => req'[q].running = req'[q].pages
          /\ At(q, "write") /\ req'[q].kind # "touch" => d \in Loader
      BY <1>1, <1>2 DEF RequestTally
    <3> QED
      BY <1>1, <2>4, <2>7, <3>1, <3>2, <3>3, <3>4 DEF RequestTally, Docs
  <2>11. RequestRefresh(q)'
    BY <1>1, <1>2, <2>2, <2>4 DEF RequestRefresh, Docs
  <2> QED
    BY <2>10, <2>11
<1> QED
  BY <1>3, <1>4

(* What a step must show.                                                  *)
LEMMA TallyKeeps ==
  ASSUME OrphanInv, OrphanInv', TallyInv, NEW r \in Request, NEW s \in Store,
         Alone(r, s), Frame(s), Others(s), Healed(s), OnlyRequest(r, s),
         Busy(r) => StoreOf(r) = s,
         HomeInv', CountInv', StoreTally(s)', RequestTally(r)', RequestRefresh(r)'
  PROVE  TallyInv'
<1>1. \A t \in Store : t # s => StoreTally(t)'
  BY StoreTallyElsewhere
<1>2. \A q \in Request : q # r => RequestTally(q)' /\ RequestRefresh(q)'
  BY RequestTallyElsewhere
<1> QED
  BY <1>1, <1>2 DEF TallyInv

Fresh(d) == d \notin known /\ d \in known'
Homed(s, d) == \E c \in Filed : c.doc = d /\ c.store = s

LEMMA FiledTypes ==
  ASSUME OrphanInv, NEW c \in Filed
  PROVE  c \in Chunk /\ c.doc \in Loader /\ c.store \in Store
<1>1. c \in Chunk
  BY DEF Filed, OrphanInv, TablesInv, RequestTypes, RequestRow
<1> QED
  BY <1>1 DEF Chunk

LEMMA HomeKeeps ==
  ASSUME OrphanInv, HomeInv, NEW r \in Request, NEW s \in Store, Frame(s), OnlyRequest(r, s),
         \A d \in Loader : s \in DOMAIN stores' /\ d \in Docs(stores'[s]) =>
           Claims(s, d) \/ Fresh(d),
         Busy(r)' => \A d \in Loader : d = req'[r].doc \/ d \in req'[r].todo =>
                       Claims(s, d) \/ Fresh(d) \/ Homed(s, d),
         \A c \in chunks' \cup req'[r].pages :
           \/ \E b \in Filed : b.doc = c.doc /\ b.store = c.store
           \/ c.store = s /\ c.doc \in Loader /\ Claims(s, c.doc)
  PROVE  HomeInv'
<1>1. ASSUME NEW d \in Loader, NEW t \in Store, Claims(t, d)'
      PROVE  Claims(t, d) \/ (t = s /\ (Fresh(d) \/ Homed(s, d)))
  <2>1. CASE t \in DOMAIN stores' /\ d \in Docs(stores'[t])
    <3>1. CASE t = s
      BY <2>1, <3>1
    <3>2. CASE t # s
      BY <2>1, <3>2 DEF Frame, Claims
    <3> QED
      BY <3>1, <3>2
  <2>2. CASE \E q \in Request :
               Busy(q)' /\ StoreOf(q)' = t /\ (d = DocOf(q)' \/ d \in req'[q].todo)
    <3>1. PICK q \in Request :
            Busy(q)' /\ StoreOf(q)' = t /\ (d = DocOf(q)' \/ d \in req'[q].todo)
      BY <2>2
    <3>2. CASE q = r
      BY <3>1, <3>2 DEF OnlyRequest, Busy, StoreOf, DocOf
    <3>3. CASE q # r
      <4>1. req'[q] = req[q]
        BY <3>3 DEF OnlyRequest, OrphanInv, RequestTypes
      <4> QED
        BY <3>1, <4>1 DEF Claims, Busy, StoreOf, DocOf
    <3> QED
      BY <3>2, <3>3
  <2> QED
    BY <1>1, <2>1, <2>2 DEF Claims, Docs
<1>2. known \subseteq known'
  BY DEF Frame
<1>3. ASSUME NEW c \in Filed'
      PROVE  \/ \E b \in Filed : b.doc = c.doc /\ b.store = c.store
             \/ c.store = s /\ c.doc \in Loader /\ Claims(s, c.doc)
  <2>1. CASE c \in chunks' \cup req'[r].pages
    BY <2>1
  <2>2. CASE c \notin chunks' \cup req'[r].pages
    <3>1. PICK q \in Request : c \in req'[q].pages
      BY <1>3, <2>2 DEF Filed
    <3>2. req'[q] = req[q]
      BY <2>2, <3>1 DEF OnlyRequest, OrphanInv, RequestTypes
    <3> QED
      BY <3>1, <3>2 DEF Filed
  <2> QED
    BY <2>1, <2>2
<1>4. ASSUME NEW c \in Filed'
      PROVE  /\ c.doc \in Loader /\ c.doc \in known
             /\ \A b \in Filed : b.doc = c.doc => b.store = c.store
             /\ \A t \in Store : Claims(t, c.doc) => t = c.store
  <2> PICK d : d = c.doc
    OBVIOUS
  <2>1. \/ \E b \in Filed : b.doc = d /\ b.store = c.store
        \/ c.store = s /\ d \in Loader /\ Claims(s, d)
    BY <1>3
  <2>2. d \in Loader /\ d \in known
    BY <2>1, FiledTypes DEF HomeInv
  <2> QED
    BY <2>1, <2>2 DEF HomeInv
<1>5. ASSUME NEW c \in Filed', NEW t \in Store, Claims(t, c.doc)' PROVE t = c.store
  BY <1>1, <1>4, <1>5 DEF Fresh, Homed
<1>6. ASSUME NEW c \in Filed', NEW b \in Filed', b.doc = c.doc PROVE b.store = c.store
  <2>1. CASE \E x \in Filed : x.doc = b.doc /\ x.store = b.store
    BY <1>4, <1>6, <2>1
  <2>2. CASE b.store = s /\ Claims(s, b.doc)
    BY <1>4, <1>6, <2>2
  <2> QED
    BY <1>3, <1>6, <2>1, <2>2
<1>7. ASSUME NEW d \in Loader, NEW t \in Store, Claims(t, d)', NEW u \in Store, Claims(u, d)'
      PROVE  d \in known' /\ t = u
  <2>1. /\ Homed(s, d) => d \in known /\ \A v \in Store : Claims(v, d) => v = s
        /\ \A v \in Store : Claims(v, d) => d \in known /\ \A w \in Store : Claims(w, d) => v = w
    BY DEF HomeInv, Homed
  <2>2. /\ Claims(t, d) \/ (t = s /\ (Fresh(d) \/ Homed(s, d)))
        /\ Claims(u, d) \/ (u = s /\ (Fresh(d) \/ Homed(s, d)))
    BY <1>1, <1>7
  <2> QED
    BY <1>2, <2>1, <2>2 DEF Fresh
<1> QED
  BY <1>2, <1>4, <1>5, <1>6, <1>7 DEF HomeInv

LEMMA CountKeeps ==
  ASSUME OrphanInv, OrphanInv', CountInv, NEW r \in Request, NEW s \in Store, Frame(s),
         OnlyRequest(r, s),
         s \in DOMAIN stores' => IsStoreRow(stores'[s]), IsStoreRow(copy'[r]),
         known' \subseteq Store \cup Loader, torn' \subseteq Loader,
         made' \in 0 .. MaxChunks, failures' \in 0 .. MaxFailures,
         IsFiniteSet(chunks'), \A b, c \in chunks' : b.id = c.id => b = c,
         \A b \in chunks' : \E x \in chunks \cup (req[r].running \ req'[r].running) : x.id = b.id,
         IsFiniteSet(req'[r].pages), \A b, c \in req'[r].pages : b.id = c.id => b = c,
         \A c \in req'[r].pages : c \in req[r].pages \/ c.id > made,
         \A c \in req'[r].running : c \in req[r].running \/ c.id > made,
         Files(r)' \/ req'[r].pages = {}
  PROVE  CountInv'
<1>1. \A q \in Request : q # r => req'[q] = req[q] /\ copy'[q] = copy[q]
  BY DEF OnlyRequest, OrphanInv, RequestTypes
<1>2. \A q \in Request : q # r => (Files(q)' <=> Files(q))
  BY <1>1 DEF Files, Splits, At
<1>3. \A t \in DOMAIN stores' : IsStoreRow(stores'[t])
  <2> SUFFICES ASSUME NEW t \in DOMAIN stores' PROVE IsStoreRow(stores'[t])
    OBVIOUS
  <2>1. t \in Store
    BY DEF OrphanInv, TablesInv
  <2>2. CASE t # s
    BY <2>1, <2>2 DEF Frame, CountInv
  <2> QED
    BY <2>2
<1>4. \A q \in Request : IsStoreRow(copy'[q]) /\ IsFiniteSet(req'[q].pages)
                         /\ (Files(q)' \/ req'[q].pages = {})
  BY <1>1, <1>2 DEF CountInv
<1>5. \A q \in Request : \A b, c \in req'[q].pages : b.id = c.id => b = c
  BY <1>1 DEF CountInv
<1>6. (\A t \in DOMAIN stores : IsStoreRow(stores[t]))'
  BY <1>3 DEF IsStoreRow
<1>7. (\A q \in Request : IsStoreRow(copy[q]))'
  BY <1>4 DEF IsStoreRow
(* An id that is new is above all that are held.                           *)
<1>8. made \in Nat /\ \A c \in Filed : c.id \in Nat /\ c.id =< made
  BY FiledTypes DEF OrphanInv, TablesInv, IdInv, Held, Filed, Chunk
<1>9. \A q \in Request : /\ req[q].running \subseteq req[q].pages
                         /\ \A c \in req[q].pages : c \in Filed
  BY DEF OrphanInv, RequestInv, Filed
<1>10. ASSUME NEW q \in Request, q # r, NEW b \in req'[q].pages, NEW c \in req'[r].pages,
              b.id = c.id
       PROVE  FALSE
  <2>1. b \in req[q].pages
    BY <1>1, <1>10
  <2>2. CASE c \in req[r].pages
    BY <1>10, <2>1, <2>2 DEF CountInv
  <2>3. CASE c.id > made
    <3>1. b.id \in Nat /\ b.id =< made
      BY <1>8, <1>9, <2>1
    <3> QED
      BY <1>8, <1>10, <2>3, <3>1
  <2> QED
    BY <2>2, <2>3
<1>11. \A q, p \in Request : \A b \in req'[q].pages, c \in req'[p].pages : b.id = c.id => q = p
  <2> SUFFICES ASSUME NEW q \in Request, NEW p \in Request, NEW b \in req'[q].pages,
                      NEW c \in req'[p].pages, b.id = c.id
               PROVE  q = p
    OBVIOUS
  <2>1. CASE q # r /\ p # r
    BY <1>1, <2>1 DEF CountInv
  <2>2. CASE q = r \/ p = r
    BY <1>10, <2>2
  <2> QED
    BY <2>1, <2>2
<1>12. ASSUME NEW q \in Request, NEW c \in req'[q].running, NEW b \in chunks', b.id = c.id
       PROVE  FALSE
  <2>1. PICK x \in chunks \cup (req[r].running \ req'[r].running) : x.id = c.id
    BY <1>12
  <2>2. x \in Filed
    BY <1>9, <2>1 DEF Filed
  <2>3. CASE c \in req[q].running
    <3>1. x \notin chunks
      BY <2>1, <2>3 DEF CountInv
    <3>2. q = r /\ x = c
      BY <1>9, <2>1, <2>3, <3>1 DEF CountInv
    <3> QED
      BY <1>12, <2>1, <3>1, <3>2
  <2>4. CASE c \notin req[q].running
    <3>1. q = r
      BY <1>1, <1>12, <2>4
    <3>2. c.id > made
      BY <1>12, <2>4, <3>1
    <3>3. x.id \in Nat /\ x.id =< made
      BY <1>8, <2>2
    <3> QED
      BY <1>8, <2>1, <3>2, <3>3
  <2> QED
    BY <2>3, <2>4
<1> QED
  BY <1>4, <1>5, <1>6, <1>7, <1>11, <1>12 DEF CountInv

(* A loader that its request is not about to settle is settled, since no   *)
(* other request is at work on the store.                                  *)
LEMMA OwnTallies ==
  ASSUME TallyInv, NEW r \in Request, NEW s \in Store, Alone(r, s), s \in DOMAIN stores,
         NEW d \in Docs(stores[s]), ~Settles(r, s, d)
  PROVE  Tallies(stores[s].loaders[d], d)
<1>1. ASSUME NEW q \in Request, Settles(q, s, d) PROVE q = r
  BY <1>1 DEF Settles, Alone, Busy, At
<1> QED
  BY <1>1 DEF TallyInv, StoreTally

LEMMA BusyFacts ==
  ASSUME OrphanInv, NEW r \in Request, Busy(r)
  PROVE  StoreOf(r) \in Store /\ Alone(r, StoreOf(r))
BY DEF OrphanInv, RequestInv, Exclusive, Alone

(* The steps that change no table.                                         *)
LEMMA LookTallies ==
  ASSUME OrphanInv, OrphanInv', TallyInv, NEW r \in Request, NEW s \in Store, Alone(r, s),
         Busy(r) => StoreOf(r) = s,
         UNCHANGED <<stores, chunks, made>>, known \subseteq known',
         known' \subseteq Store \cup Loader, torn \subseteq torn', torn' \subseteq Loader,
         failures' \in 0 .. MaxFailures,
         OnlyRequest(r, s),
         s \in DOMAIN stores => \A d \in Docs(stores[s]) : Settles(r, s, d) => d \in torn',
         Busy(r)' => \A d \in Loader : d = req'[r].doc \/ d \in req'[r].todo =>
                       Claims(s, d) \/ Fresh(d) \/ Homed(s, d),
         IsStoreRow(copy'[r]),
         \/ req'[r].pages = {}
         \/ /\ req'[r].pages \subseteq req[r].pages /\ req'[r].running \subseteq req[r].running
            /\ Files(r)',
         RequestTally(r)', RequestRefresh(r)'
  PROVE  TallyInv'
<1>1. HomeInv /\ CountInv
  BY DEF TallyInv
<1>2. Frame(s) /\ Others(s) /\ Healed(s)
  BY DEF Frame, Others, Healed
<1>3. /\ req'[r].pages \subseteq req[r].pages /\ req'[r].running \subseteq req[r].running
      /\ Files(r)' \/ req'[r].pages = {}
  BY DEF OrphanInv, RequestInv
<1>4. HomeInv'
  <2>1. \A d \in Loader : s \in DOMAIN stores' /\ d \in Docs(stores'[s]) => Claims(s, d)
    BY DEF Claims, Docs
  <2>2. \A c \in chunks' \cup req'[r].pages : c \in Filed
    BY <1>3 DEF Filed
  <2> QED
    BY <1>1, <1>2, <2>1, <2>2, HomeKeeps
<1>5. CountInv'
  <2>1. /\ s \in DOMAIN stores' => IsStoreRow(stores'[s])
        /\ made' \in 0 .. MaxChunks
        /\ IsFiniteSet(chunks') /\ \A b, c \in chunks' : b.id = c.id => b = c
    BY <1>1 DEF CountInv
  <2>2. IsFiniteSet(req'[r].pages) /\ \A b, c \in req'[r].pages : b.id = c.id => b = c
    BY <1>1, <1>3, FS_Subset DEF CountInv
  <2>3. \A b \in chunks' : b \in chunks
    OBVIOUS
  <2> QED
    BY <1>1, <1>2, <1>3, <2>1, <2>2, <2>3, CountKeeps
<1>6. StoreTally(s)'
  <2> SUFFICES ASSUME s \in DOMAIN stores', NEW d \in Docs(stores'[s])
               PROVE  Tallies(stores[s].loaders[d], d)'
    BY DEF StoreTally, Docs
  <2>1. CASE Settles(r, s, d)
    BY <2>1 DEF Tallies, Docs
  <2>2. CASE ~ Settles(r, s, d)
    <3>1. Tallies(stores[s].loaders[d], d)
      BY <2>2, OwnTallies DEF Docs
    <3> QED
      BY <3>1 DEF Exact, Tallies, ChunksOf
  <2> QED
    BY <2>1, <2>2
<1> QED
  BY <1>2, <1>4, <1>5, <1>6, TallyKeeps

LEMMA EmptyRowType == IsStoreRow(EmptyRow)
BY DEF IsStoreRow, EmptyRow, Status

LEMMA AnswerTally ==
  ASSUME OrphanInv, NEW r \in Request, Answer(r)
  PROVE  /\ OnlyRequest(r, StoreOf(r)) /\ ~Busy(r)' /\ copy'[r] = EmptyRow /\ IsStoreRow(copy'[r])
         /\ req'[r].pages = {} /\ req'[r].chunk = NoChunk /\ req'[r].pc = "done"
         /\ RequestTally(r)' /\ RequestRefresh(r)'
<1>1. /\ OnlyRequest(r, StoreOf(r)) /\ req'[r].pages = {} /\ req'[r].chunk = NoChunk
  BY AnswerIsLocal
<1>2. req'[r].pc = "done" /\ copy'[r] = EmptyRow /\ req'[r].todo = {}
  BY DEF Answer, Becomes, Idle, OrphanInv, RequestTypes
<1>3. RequestTally(r)' /\ RequestRefresh(r)'
  BY <1>2
  DEF RequestTally, RequestRefresh, Refreshes, Busy, At, CopyIsCurrent, Counts, Splits,
      FillsLoader
<1> QED
  BY <1>1, <1>2, <1>3, EmptyRowType DEF Busy

LEMMA RefusalTallies ==
  ASSUME OrphanInv, OrphanInv', TallyInv, NEW r \in Request, Busy(r), Answer(r),
         UNCHANGED <<stores, chunks, known, made>>, torn \subseteq torn', torn' \subseteq Loader,
         failures' \in 0 .. MaxFailures,
         \A d : Settles(r, StoreOf(r), d) =>
           (StoreOf(r) \in DOMAIN stores /\ d \in Docs(stores[StoreOf(r)]) => d \in torn')
  PROVE  TallyInv'
<1>1. StoreOf(r) \in Store /\ Alone(r, StoreOf(r))
  BY BusyFacts
<1>2. known' \subseteq Store \cup Loader
  BY DEF TallyInv, CountInv
<1> QED
  BY <1>1, <1>2, AnswerTally, LookTallies

-----------------------------------------------------------------------------
(* The steps that change no table keep the counts.                         *)

LEMMA ReadsTallies ==
  ASSUME OrphanInv, OrphanInv', TallyInv, NEW r \in Request, NEW next \in Pcs, Reads(r, next),
         UNCHANGED <<stores, chunks, known, made, failures, torn>>,
         \/ At(r, "readForSave") /\ next = "saveLoader"
         \/ At(r, "readForProcess") /\ next = "split"
         \/ At(r, "readForConfig") /\ next = "saveConfig"
         \/ At(r, "readForUpsert") /\ next = "upserted"
         \/ At(r, "read") /\ next = "readChunk"
         \/ At(r, "read") /\ next = "dropChunks" /\ req[r].kind \in {"deleteLoader", "deleteStore"}
  PROVE  TallyInv'
<1>1. /\ Busy(r) /\ \A d : ~Settles(r, StoreOf(r), d)
      /\ ~Files(r) /\ ~At(r, "list") /\ ~At(r, "next")
  BY DEF Busy, At, Settles, Files, Splits
<1>2. /\ StoreOf(r) \in Store /\ Alone(r, StoreOf(r))
      /\ known' \subseteq Store \cup Loader /\ failures' \in 0 .. MaxFailures
      /\ req[r].pages = {} /\ req[r].running = {} /\ torn' = torn /\ torn \subseteq Loader
  BY <1>1, BusyFacts, RequestRowFacts DEF TallyInv, CountInv, Files, RequestInv
<1>3. CASE Missing(r)
  BY <1>1, <1>2, <1>3, RefusalTallies DEF Reads
<1>4. CASE ~ Missing(r)
  <2> DEFINE locals == [req[r] EXCEPT !.pc = next]
  <2>1. req[r] \in RequestRow /\ RequestInv(r) /\ RequestTally(r) /\ RequestRefresh(r)
    BY RequestRowFacts DEF TallyInv
  <2>2. /\ locals \in RequestRow /\ locals.pc = next /\ locals.kind = req[r].kind
        /\ locals.store = StoreOf(r) /\ locals.doc = DocOf(r) /\ locals.pages = req[r].pages
        /\ locals.chunk = req[r].chunk /\ locals.todo = req[r].todo
        /\ locals.running = req[r].running
        /\ locals.asked = req[r].asked /\ locals.added = req[r].added
    BY <2>1 DEF RequestRow, StoreOf, DocOf
  <2>3. Becomes(r, locals, Row(r))
    BY <1>4 DEF Reads
  <2> HIDE DEF locals
  <2>4. StoreOf(r) \in DOMAIN stores /\ IsStoreRow(Row(r)) /\ Docs(Row(r)) \subseteq Loader
    BY <1>4 DEF Missing, Row, TallyInv, CountInv, OrphanInv, TablesInv
  <2>5. OnlyRequest(r, StoreOf(r)) /\ req'[r] = locals /\ copy'[r] = Row(r)
    BY <2>2, <2>3, <2>4, MoveIsLocal
  <2>6. \A d \in Loader : d = req'[r].doc \/ d \in req'[r].todo => Claims(StoreOf(r), d)
    BY <1>1, <2>2, <2>5 DEF Claims, StoreOf, DocOf
  <2>7. IsStoreRow(copy'[r])
    BY <2>4, <2>5
  <2>8. RequestTally(r)'
    <3>1. /\ ~Counts(r)' /\ ~At(r, "insertChunks")' /\ ~At(r, "changeChunk")'
          /\ ~At(r, "late")' /\ ~At(r, "write")'
          /\ FillsLoader(r)' => FillsLoader(r)
      BY <2>2, <2>5 DEF Counts, At, FillsLoader
    <3> QED
      BY <1>2, <2>1, <2>2, <2>4, <2>5, <3>1 DEF RequestTally, StoreOf, DocOf, Row
  <2>9. RequestRefresh(r)'
    <3>1. /\ Refreshes(r)' => Refreshes(r)
          /\ Fetches(r) => Fetches(r)'
          /\ ~At(r, "next")' /\ ~At(r, "list")'
      BY <1>1, <2>1, <2>2, <2>5 DEF RequestInv, Refreshes, Fetches, Splits, At, Busy
    <3> QED
      BY <1>1, <2>1, <2>2, <2>5, <3>1 DEF RequestRefresh, StoreOf, DocOf, Docs, At
  <2> QED
    BY <1>1, <1>2, <2>2, <2>5, <2>6, <2>7, <2>8, <2>9, LookTallies
<1> QED
  BY <1>3, <1>4

LEMMA ReadStepsTally ==
  ASSUME OrphanInv, OrphanInv', TallyInv, NEW r \in Request,
         ReadForSave(r) \/ ReadForProcess(r) \/ ReadForConfig(r) \/ ReadForUpsert(r)
  PROVE  TallyInv'
BY ReadsTallies
DEF ReadForSave, ReadForProcess, ReadForConfig, ReadForUpsert, At, Pcs

LEMMA ReadTallies ==
  ASSUME OrphanInv, OrphanInv', TallyInv, NEW r \in Request, Read(r)
  PROVE  TallyInv'
<1>1. req[r].kind \in {"deleteStore", "deleteLoader", "deleteChunk", "editChunk"}
  BY RequestRowFacts DEF Read, RequestInv
<1>2. CASE req[r].kind \in {"deleteChunk", "editChunk"}
  BY <1>2, ReadsTallies DEF Read, Pcs
<1>3. CASE req[r].kind \in {"deleteStore", "deleteLoader"}
  BY <1>3, ReadsTallies DEF Read, Pcs
<1> QED
  BY <1>1, <1>2, <1>3

(* The row a client is shown is the row there is, as long as no other      *)
(* request of the store comes in between.                                  *)
LEMMA ReadForTouchTallies ==
  ASSUME OrphanInv, OrphanInv', TallyInv, NEW r \in Request, ReadForTouch(r)
  PROVE  TallyInv'
<1> PICK s : s = StoreOf(r)
  OBVIOUS
<1>1. /\ Busy(r) /\ At(r, "read") /\ req[r].kind = "touch" /\ CopyIsCurrent(r) /\ ~Counts(r)
      /\ \A d : ~Settles(r, s, d)
      /\ UNCHANGED <<stores, chunks, known, made, failures, torn>> /\ ~Files(r)
  BY DEF ReadForTouch, Busy, At, CopyIsCurrent, Counts, Settles, Files, Splits
<1>2. /\ s \in Store /\ Alone(r, s) /\ s \in DOMAIN stores
      /\ known' \subseteq Store \cup Loader /\ failures' \in 0 .. MaxFailures
      /\ torn' = torn /\ torn \subseteq Loader /\ req[r].pages = {} /\ req[r].running = {}
      /\ req[r] \in RequestRow /\ RequestTally(r) /\ RequestRefresh(r)
      /\ IsStoreRow(stores[s]) /\ Docs(stores[s]) \subseteq Loader
  BY <1>1, BusyFacts, RequestRowFacts
  DEF TallyInv, CountInv, RequestInv, OrphanInv, TablesInv
<1>3. CASE Answer(r)
  BY <1>1, <1>2, <1>3, RefusalTallies
<1>4. CASE ~ Answer(r)
  <2> DEFINE locals == [req[r] EXCEPT !.pc = "write"]
  <2>1. PICK loaders \in {Row(r).loaders, copy[r].loaders} :
          Becomes(r, locals, [loaders |-> loaders, status |-> Row(r).status])
    BY <1>1, <1>4 DEF ReadForTouch
  <2> PICK row : row = [loaders |-> loaders, status |-> Row(r).status]
    OBVIOUS
  <2>2. /\ row.loaders = stores[s].loaders /\ IsStoreRow(row) /\ Docs(row) \subseteq Loader
    BY <1>1, <1>2, <2>1 DEF Row, RequestTally, IsStoreRow, Docs
  <2>3. /\ locals \in RequestRow /\ locals.pc = "write" /\ locals.kind = "touch"
        /\ locals.store = s /\ locals.doc = DocOf(r) /\ locals.pages = {}
        /\ locals.todo = req[r].todo /\ locals.asked = req[r].asked
    BY <1>1, <1>2 DEF RequestRow, StoreOf, DocOf, Pcs
  <2> HIDE DEF locals
  <2>4. OnlyRequest(r, s) /\ req'[r] = locals /\ copy'[r] = row
    BY <2>1, <2>2, <2>3, MoveIsLocal
  <2>5. /\ StoreOf(r)' = s /\ At(r, "write")' /\ req'[r].kind = "touch" /\ ~Counts(r)'
        /\ ~FillsLoader(r)' /\ req'[r].todo = req[r].todo /\ req'[r].asked = req[r].asked
    BY <2>3, <2>4 DEF StoreOf, At, Counts, FillsLoader
  <2>6. RequestTally(r)'
    BY <1>1, <2>2, <2>4, <2>5 DEF RequestTally, At
  <2>7. RequestRefresh(r)'
    BY <1>2, <2>5 DEF RequestRefresh, Refreshes, At
  <2>8. \A d \in Loader : d = req'[r].doc \/ d \in req'[r].todo => Claims(s, d)
    BY <1>1, <2>3, <2>4 DEF Claims
  <2>9. IsStoreRow(copy'[r]) /\ req'[r].pages = {}
    BY <2>2, <2>3, <2>4
  <2> QED
    BY <1>1, <1>2, <2>4, <2>6, <2>7, <2>8, <2>9, LookTallies
<1> QED
  BY <1>3, <1>4

(* A request looks something up and moves on, its copy unread.             *)
LEMMA LookUpTallies ==
  ASSUME OrphanInv, OrphanInv', TallyInv, NEW r \in Request,
         req[r].pc \in {"list", "next", "readChunks"},
         UNCHANGED <<stores, chunks, known, made, failures, torn>>,
         NEW locals \in RequestRow, Moves(r, locals),
         locals.store = StoreOf(r), locals.pages = req[r].pages,
         locals.pc \in {"next", "readForSave", "readForConfig"},
         locals.pc = "readForSave" => locals.kind = "refresh",
         \A d \in Loader : d = locals.doc \/ d \in locals.todo => Claims(StoreOf(r), d),
         RequestRefresh(r)'
  PROVE  TallyInv'
<1>1. /\ Busy(r) /\ \A d : ~Settles(r, StoreOf(r), d)
      /\ ~Files(r)
  BY DEF Busy, At, Settles, Files, Splits
<1>2. /\ StoreOf(r) \in Store /\ Alone(r, StoreOf(r))
      /\ known' \subseteq Store \cup Loader /\ failures' \in 0 .. MaxFailures
      /\ req[r].pages = {} /\ IsStoreRow(copy[r]) /\ Docs(copy[r]) \subseteq Loader
      /\ torn' = torn /\ torn \subseteq Loader
  BY <1>1, BusyFacts, RequestRowFacts DEF TallyInv, CountInv
<1>3. Becomes(r, locals, copy[r])
  BY DEF Moves
<1>4. OnlyRequest(r, StoreOf(r)) /\ req'[r] = locals /\ copy'[r] = copy[r]
  BY <1>2, <1>3, MoveIsLocal
<1>5. RequestTally(r)'
  BY <1>4 DEF RequestTally, Counts, At, CopyIsCurrent, FillsLoader
<1>6. IsStoreRow(copy'[r])
  BY <1>2, <1>4
<1> QED
  BY <1>1, <1>2, <1>4, <1>5, <1>6, LookTallies

LEMMA ListLoadersTallies ==
  ASSUME OrphanInv, OrphanInv', TallyInv, NEW r \in Request, ListLoaders(r)
  PROVE  TallyInv'
<1>1. /\ Busy(r) /\ At(r, "list") /\ \A d : ~Settles(r, StoreOf(r), d)
      /\ UNCHANGED <<stores, chunks, known, made, failures, torn>>
      /\ failures' \in 0 .. MaxFailures /\ torn' = torn /\ torn \subseteq Loader
  BY DEF ListLoaders, Busy, At, Settles, TallyInv, CountInv
<1>2. CASE Missing(r)
  BY <1>1, <1>2, RefusalTallies DEF ListLoaders
<1>3. CASE ~ Missing(r)
  <2> DEFINE locals == [req[r] EXCEPT !.pc = "next", !.asked = Docs(Row(r)),
                                       !.todo = Docs(Row(r))]
  <2>1. StoreOf(r) \in DOMAIN stores /\ Docs(Row(r)) \subseteq Loader
    BY <1>3 DEF Row, Missing, OrphanInv, TablesInv
  <2>a. req[r] \in RequestRow
    BY RequestRowFacts
  <2>b. locals \in RequestRow
    BY <2>1, <2>a DEF RequestRow, Pcs
  <2>2. /\ locals \in RequestRow /\ locals.pc = "next" /\ locals.store = StoreOf(r)
        /\ locals.pages = req[r].pages /\ locals.chunk = req[r].chunk /\ locals.doc = DocOf(r)
        /\ locals.todo = Docs(Row(r)) /\ locals.kind = req[r].kind
        /\ locals.asked = Docs(Row(r))
    BY <2>a, <2>b DEF RequestRow, StoreOf, DocOf
  <2>3. Moves(r, locals)
    BY <1>3 DEF ListLoaders, Refreshed
  <2> HIDE DEF locals
  <2>4. \A d \in Loader : d = locals.doc \/ d \in locals.todo => Claims(StoreOf(r), d)
    BY <1>1, <2>1, <2>2 DEF Claims, Row
  <2>5. req'[r] = locals
    BY <2>3 DEF Moves, Becomes, OrphanInv, RequestTypes
  <2>6. req[r].kind = "refresh"
    BY <1>1 DEF TallyInv, RequestRefresh, At
  <2>7. RequestRefresh(r)'
    BY <1>1, <2>1, <2>2, <2>5, <2>6 DEF RequestRefresh, Refreshes, At, StoreOf, DocOf, Row, Docs
  <2> QED
    BY <1>1, <2>2, <2>3, <2>4, <2>7, LookUpTallies DEF At
<1> QED
  BY <1>2, <1>3

LEMMA NextLoaderTallies ==
  ASSUME OrphanInv, OrphanInv', TallyInv, NEW r \in Request, NextLoader(r)
  PROVE  TallyInv'
<1>1. /\ Busy(r) /\ At(r, "next") /\ \A d : ~Settles(r, StoreOf(r), d)
      /\ UNCHANGED <<stores, chunks, known, made, failures, torn>>
      /\ failures' \in 0 .. MaxFailures /\ torn' = torn /\ torn \subseteq Loader
  BY DEF NextLoader, Busy, At, Settles, TallyInv, CountInv
<1>2. CASE Answer(r)
  BY <1>1, <1>2, RefusalTallies
<1>3. CASE ~ Answer(r)
  <2>1. PICK d \in req[r].todo :
          Moves(r, [req[r] EXCEPT !.pc = "readForSave", !.doc = d, !.todo = @ \ {d}])
    BY <1>3 DEF NextLoader
  <2> DEFINE locals == [req[r] EXCEPT !.pc = "readForSave", !.doc = d, !.todo = @ \ {d}]
  <2>a. req[r] \in RequestRow /\ d \in Loader
    BY RequestRowFacts DEF RequestRow
  <2>b. locals \in RequestRow
    BY <2>a DEF RequestRow, Pcs
  <2>2. /\ locals \in RequestRow /\ locals.pc = "readForSave" /\ locals.store = StoreOf(r)
        /\ locals.pages = req[r].pages /\ locals.doc = d /\ locals.todo = req[r].todo \ {d}
        /\ locals.kind = req[r].kind
        /\ locals.asked = req[r].asked /\ locals.added = req[r].added
    BY <2>a, <2>b DEF RequestRow, StoreOf
  <2>3. Moves(r, locals)
    BY <2>1
  <2> HIDE DEF locals
  <2>4. \A e \in Loader : e = locals.doc \/ e \in locals.todo => Claims(StoreOf(r), e)
    BY <1>1, <2>1, <2>2 DEF Claims
  <2>5. req'[r] = locals
    BY <2>3 DEF Moves, Becomes, OrphanInv, RequestTypes
  <2>6. RequestRefresh(r) /\ Refreshes(r)
    BY <1>1 DEF TallyInv, RequestRefresh, Refreshes, At
  <2>7. RequestRefresh(r)'
    <3> PICK s : s = StoreOf(r)
      OBVIOUS
    <3>1. /\ s \in DOMAIN stores /\ req[r].todo \ req[r].added \subseteq Docs(stores[s])
          /\ \A e \in req[r].asked \ req[r].todo :
               e \in Docs(stores[s]) /\ stores[s].loaders[e].status = "SYNC"
          /\ req[r].todo \subseteq req[r].asked
      BY <1>1, <2>6 DEF RequestRefresh, Fetches, Splits, At
    <3>2. Fetches(r)' /\ ~At(r, "next")' /\ StoreOf(r)' = s /\ DocOf(r)' = d /\ stores' = stores
      BY <1>1, <2>2, <2>5 DEF Fetches, At, StoreOf, DocOf
    <3>3. /\ req'[r].kind = "refresh" /\ req'[r].todo = req[r].todo \ {d}
          /\ req'[r].asked = req[r].asked /\ req'[r].added = req[r].added
      BY <2>2, <2>5, <2>6 DEF Refreshes
    <3> QED
      BY <2>1, <3>1, <3>2, <3>3 DEF RequestRefresh, Docs
  <2> QED
    BY <1>1, <2>2, <2>3, <2>4, <2>6, <2>7, LookUpTallies DEF At, Refreshes
<1> QED
  BY <1>2, <1>3

LEMMA ReadChunksTallies ==
  ASSUME OrphanInv, OrphanInv', TallyInv, NEW r \in Request, ReadChunks(r)
  PROVE  TallyInv'
<1>1. /\ Busy(r) /\ At(r, "readChunks") /\ \A d : ~Settles(r, StoreOf(r), d)
      /\ UNCHANGED <<stores, chunks, known, made, failures, torn>>
      /\ failures' \in 0 .. MaxFailures /\ torn' = torn /\ torn \subseteq Loader
  BY DEF ReadChunks, Busy, At, Settles, TallyInv, CountInv
<1>2. CASE Answer(r)
  BY <1>1, <1>2, RefusalTallies
<1>3. CASE ~ Answer(r)
  <2> DEFINE locals == [req[r] EXCEPT !.pc = "readForConfig"]
  <2>1. /\ locals \in RequestRow /\ locals.pc = "readForConfig" /\ locals.store = StoreOf(r)
        /\ locals.pages = req[r].pages /\ locals.doc = DocOf(r) /\ locals.todo = req[r].todo
        /\ locals.kind = req[r].kind
        /\ locals.asked = req[r].asked /\ locals.added = req[r].added
    BY RequestRowFacts DEF RequestRow, StoreOf, DocOf, Pcs
  <2>2. Moves(r, locals)
    BY <1>3 DEF ReadChunks, Goto
  <2> HIDE DEF locals
  <2>3. \A e \in Loader : e = locals.doc \/ e \in locals.todo => Claims(StoreOf(r), e)
    BY <1>1, <2>1 DEF Claims
  <2>4. req'[r] = locals
    BY <2>2 DEF Moves, Becomes, OrphanInv, RequestTypes
  <2>5. RequestRefresh(r) /\ ~Fetches(r)
    BY <1>1 DEF TallyInv, Fetches, Splits, At
  <2>6. RequestRefresh(r)'
    BY <1>1, <2>1, <2>4, <2>5 DEF RequestRefresh, Refreshes, At, StoreOf, DocOf, Docs, Busy
  <2> QED
    BY <1>1, <2>1, <2>2, <2>3, <2>6, LookUpTallies DEF At
<1> QED
  BY <1>2, <1>3

LEMMA ReadChunkTallies ==
  ASSUME OrphanInv, OrphanInv', TallyInv, NEW r \in Request, ReadChunk(r)
  PROVE  TallyInv'
<1>1. /\ Busy(r) /\ At(r, "readChunk") /\ \A d : ~Settles(r, StoreOf(r), d)
      /\ UNCHANGED <<stores, chunks, known, made, failures, torn>>
      /\ failures' \in 0 .. MaxFailures /\ torn' = torn /\ torn \subseteq Loader /\ ~Files(r)
  BY DEF ReadChunk, Busy, At, Settles, TallyInv, CountInv, Files, Splits
<1>2. CASE Answer(r)
  BY <1>1, <1>2, RefusalTallies
<1>3. CASE ~ Answer(r)
  <2>1. PICK c \in chunks : Moves(r, [req[r] EXCEPT !.pc = "changeChunk", !.chunk = c])
    BY <1>3 DEF ReadChunk
  <2> DEFINE locals == [req[r] EXCEPT !.pc = "changeChunk", !.chunk = c]
  <2>2. /\ req[r] \in RequestRow /\ RequestInv(r) /\ Docs(copy[r]) \subseteq Loader /\ c \in Chunk
        /\ RequestTally(r) /\ RequestRefresh(r) /\ IsStoreRow(copy[r]) /\ req[r].pages = {}
    BY <1>1, RequestRowFacts DEF OrphanInv, TablesInv, TallyInv, CountInv
  <2>3. /\ locals \in RequestRow /\ locals.pc = "changeChunk" /\ locals.store = StoreOf(r)
        /\ locals.pages = {} /\ locals.chunk = c /\ locals.kind = req[r].kind
        /\ locals.doc = DocOf(r) /\ locals.todo = req[r].todo /\ locals.asked = req[r].asked
    BY <2>2 DEF RequestRow, StoreOf, DocOf, Pcs
  <2>4. Becomes(r, locals, copy[r])
    BY <2>1 DEF Moves
  <2> HIDE DEF locals
  <2>5. OnlyRequest(r, StoreOf(r)) /\ req'[r] = locals /\ copy'[r] = copy[r]
    BY <2>2, <2>3, <2>4, MoveIsLocal
  <2>6. RequestTally(r)'
    BY <1>1, <2>2, <2>3, <2>5
    DEF RequestTally, Counts, At, CopyIsCurrent, FillsLoader, StoreOf, DocOf
  <2>7. RequestRefresh(r)'
    BY <1>1, <2>2, <2>3, <2>5 DEF RequestInv, RequestRefresh, Refreshes, At
  <2>8. \A d \in Loader : d = req'[r].doc \/ d \in req'[r].todo => Claims(StoreOf(r), d)
    BY <1>1, <2>3, <2>5 DEF Claims
  <2>9. /\ StoreOf(r) \in Store /\ Alone(r, StoreOf(r)) /\ known' \subseteq Store \cup Loader
        /\ IsStoreRow(copy'[r])
    BY <1>1, <2>2, <2>5, BusyFacts DEF TallyInv, CountInv
  <2> QED
    BY <1>1, <2>3, <2>5, <2>6, <2>7, <2>8, <2>9, LookTallies
<1> QED
  BY <1>2, <1>3

(* What a failing request was to settle is torn.                           *)
LEMMA FailTears ==
  ASSUME OrphanInv, TallyInv, NEW r \in Request, Busy(r)
  PROVE  /\ HalfChanged(r) \subseteq Loader
         /\ \A d : /\ Settles(r, StoreOf(r), d)
                  /\ StoreOf(r) \in DOMAIN stores /\ d \in Docs(stores[StoreOf(r)])
                  => d \in HalfChanged(r)
<1>1. RequestInv(r) /\ Docs(copy[r]) \subseteq Loader /\ RequestTally(r)
  BY RequestRowFacts DEF TallyInv
<1>2. \A t \in DOMAIN stores : Docs(stores[t]) \subseteq Loader
  BY DEF OrphanInv, TablesInv
<1>3. CASE At(r, "deleteRow")
  <2>1. HalfChanged(r) = Docs(copy[r]) /\ CopyIsCurrent(r)
    BY <1>3 DEF HalfChanged, CopyIsCurrent, At
  <2> QED
    BY <1>1, <2>1 DEF RequestInv
<1>4. CASE At(r, "insertChunks")
  <2>1. HalfChanged(r) = {DocOf(r)} /\ LoaderIsListed(r)
    BY <1>4 DEF HalfChanged, LoaderIsListed, At
  <2>2. DocOf(r) \in Loader
    BY <1>1, <1>2, <2>1 DEF RequestInv
  <2> QED
    BY <1>4, <2>1, <2>2 DEF Settles, At
<1>5. CASE At(r, "write") /\ req[r].kind # "touch"
  <2>1. HalfChanged(r) = {DocOf(r)}
    BY <1>5 DEF HalfChanged, At
  <2> QED
    BY <1>1, <1>5, <2>1 DEF Settles, RequestTally, At
<1>6. CASE /\ ~At(r, "deleteRow") /\ ~At(r, "insertChunks")
           /\ ~(At(r, "write") /\ req[r].kind # "touch")
  <2>1. HalfChanged(r) = {}
    BY <1>6 DEF HalfChanged
  <2> QED
    BY <1>6, <2>1 DEF Settles
<1> QED
  BY <1>3, <1>4, <1>5, <1>6

LEMMA FailTallies ==
  ASSUME OrphanInv, OrphanInv', TallyInv, NEW r \in Request, Fail(r)
  PROVE  TallyInv'
<1> PICK s : s = StoreOf(r)
  OBVIOUS
<1>1. failures \in 0 .. MaxFailures /\ MaxFailures \in Nat /\ torn \subseteq Loader
  BY StoreBounds DEF TallyInv, CountInv
<1>2. failures' \in 0 .. MaxFailures
  BY <1>1 DEF Fail
<1>3. Busy(r) /\ UNCHANGED <<stores, chunks, known, made>> /\ torn' = torn \cup HalfChanged(r)
  BY DEF Fail
<1>4. /\ torn \subseteq torn' /\ torn' \subseteq Loader
      /\ \A d : Settles(r, s, d) =>
           (s \in DOMAIN stores /\ d \in Docs(stores[s]) => d \in torn')
  BY <1>1, <1>3, FailTears
<1>5. CASE Answer(r)
  BY <1>2, <1>3, <1>4, <1>5, RefusalTallies
<1>6. CASE \E c \in req[r].running : At(r, "insertChunks") /\ AnswerEarly(r, req[r].running \ {c})
  <2>1. PICK c \in req[r].running : At(r, "insertChunks") /\ AnswerEarly(r, req[r].running \ {c})
    BY <1>6
  <2> PICK left : left = req[r].running \ {c}
    OBVIOUS
  <2> DEFINE locals == [Idle EXCEPT !.pc = "late", !.kind = req[r].kind, !.store = StoreOf(r),
                                    !.doc = DocOf(r), !.pages = left, !.running = left]
  <2>2. /\ req[r] \in RequestRow /\ RequestInv(r) /\ Alone(r, s) /\ s \in Store
        /\ known \subseteq Store \cup Loader /\ Docs(EmptyRow) \subseteq Loader
    BY <1>3, RequestRowFacts, BusyFacts DEF TallyInv, CountInv, Docs, EmptyRow
  <2>3. left \subseteq req[r].pages /\ left \subseteq req[r].running /\ left \subseteq Chunk
    BY <2>2 DEF RequestInv, RequestRow
  <2>a. /\ req[r].kind \in Kinds \cup {"none"} /\ StoreOf(r) \in Store \cup {NoStore}
        /\ DocOf(r) \in Loader \cup {NoLoader}
    BY <2>2 DEF RequestRow, StoreOf, DocOf
  <2>b. locals \in RequestRow
    BY <2>3, <2>a DEF RequestRow, Idle, Pcs
  <2>4. /\ locals \in RequestRow /\ locals.pc = "late" /\ locals.store = s
        /\ locals.pages = left /\ locals.running = left /\ locals.todo = {}
    BY <2>b DEF Idle
  <2>5. Becomes(r, locals, EmptyRow)
    BY <2>1 DEF AnswerEarly
  <2> HIDE DEF locals
  <2>6. OnlyRequest(r, s) /\ req'[r] = locals /\ copy'[r] = EmptyRow
    BY <2>2, <2>4, <2>5, MoveIsLocal
  <2>7. At(r, "late")' /\ ~Busy(r)' /\ Files(r)'
    BY <2>4, <2>6 DEF At, Busy, Files
  <2>8. \A x \in left : x.doc \in torn'
    <3>1. \A x \in left : x.doc = DocOf(r)
      BY <2>1, <2>2, <2>3 DEF RequestInv, Files, Splits
    <3>2. HalfChanged(r) = {DocOf(r)}
      BY <2>1 DEF HalfChanged, At
    <3> QED
      BY <1>3, <3>1, <3>2
  <2>9. RequestTally(r)'
    BY <2>4, <2>6, <2>7, <2>8
    DEF RequestTally, Counts, At, CopyIsCurrent, FillsLoader
  <2>10. RequestRefresh(r)'
    BY <2>4, <2>6, <2>7 DEF RequestRefresh, Refreshes, At
  <2>11. IsStoreRow(copy'[r]) /\ req'[r].pages = left /\ req'[r].running = left
    BY <2>4, <2>6, EmptyRowType
  <2> QED
    BY <1>2, <1>3, <1>4, <2>2, <2>3, <2>6, <2>7, <2>9, <2>10, <2>11, LookTallies
<1> QED
  BY <1>5, <1>6 DEF Fail

-----------------------------------------------------------------------------
(* The steps that save the row keep the counts.                            *)

LEMMA SaveTallies ==
  ASSUME OrphanInv, OrphanInv', TallyInv, NEW r \in Request, Busy(r), NEW row,
         IsStoreRow(row), Save(r, row), UNCHANGED <<chunks, known, made, failures, torn>>,
         \A d \in Docs(row) : Claims(StoreOf(r), d),
         \A d \in Docs(row) : Tallies(row.loaders[d], d),
         OnlyRequest(r, StoreOf(r)), IsStoreRow(copy'[r]),
         req'[r].pages = {},
         Busy(r)' => req'[r].doc = DocOf(r) /\ req'[r].todo = req[r].todo,
         RequestTally(r)', RequestRefresh(r)'
  PROVE  TallyInv'
<1> PICK s : s = StoreOf(r)
  OBVIOUS
<1>1. s \in Store /\ Alone(r, s) /\ HomeInv /\ CountInv
  BY BusyFacts DEF TallyInv
<1>2. /\ s \in DOMAIN stores' /\ stores'[s] = row
      /\ \A t \in Store : t # s => /\ t \in DOMAIN stores' <=> t \in DOMAIN stores
                                   /\ t \in DOMAIN stores => stores'[t] = stores[t]
  BY DEF Save, Put
<1>3. Frame(s) /\ Others(s) /\ Healed(s)
  BY <1>2 DEF Frame, Others, Healed
<1>4. HomeInv'
  <2>1. \A d \in Loader : s \in DOMAIN stores' /\ d \in Docs(stores'[s]) => Claims(s, d)
    BY <1>2
  <2>2. Busy(r)' => \A d \in Loader : d = req'[r].doc \/ d \in req'[r].todo => Claims(s, d)
    BY DEF Claims
  <2>3. \A c \in chunks' \cup req'[r].pages : c \in Filed
    BY DEF Filed
  <2> QED
    BY <1>1, <1>3, <2>1, <2>2, <2>3, HomeKeeps
<1>5. CountInv'
  <2>1. /\ IsStoreRow(stores'[s]) /\ known' \subseteq Store \cup Loader
        /\ made' \in 0 .. MaxChunks /\ failures' \in 0 .. MaxFailures /\ torn' \subseteq Loader
        /\ IsFiniteSet(chunks') /\ \A b, c \in chunks' : b.id = c.id => b = c
    BY <1>1, <1>2 DEF CountInv
  <2>2. /\ IsFiniteSet(req'[r].pages) /\ \A b, c \in req'[r].pages : b.id = c.id => b = c
        /\ req'[r].running = {} /\ \A b \in chunks' : b \in chunks
    BY FS_EmptySet DEF OrphanInv, RequestInv
  <2> QED
    BY <1>1, <1>3, <2>1, <2>2, CountKeeps
<1>6. StoreTally(s)'
  <2> SUFFICES ASSUME NEW d \in Docs(row)
               PROVE  Tallies(stores[s].loaders[d], d)'
    BY <1>2 DEF StoreTally, Docs
  <2> QED
    BY <1>2 DEF Exact, Tallies, ChunksOf
<1> QED
  BY <1>1, <1>3, <1>4, <1>5, <1>6, TallyKeeps

(* A loader taken over from the copy counts as it does in the store.       *)
LEMMA CopyTallies ==
  ASSUME OrphanInv, TallyInv, NEW r \in Request, CopyIsCurrent(r), ~Counts(r),
         NEW d \in Docs(copy[r]), ~Settles(r, StoreOf(r), d)
  PROVE  Tallies(copy[r].loaders[d], d) /\ Claims(StoreOf(r), d)
<1>1. Busy(r)
  BY DEF CopyIsCurrent, Busy, At
<1>2. StoreOf(r) \in Store /\ Alone(r, StoreOf(r)) /\ StoreOf(r) \in DOMAIN stores
  BY <1>1, BusyFacts, CopyListsAll
<1>3. copy[r].loaders = stores[StoreOf(r)].loaders
  BY DEF TallyInv, RequestTally
<1> QED
  BY <1>2, <1>3, OwnTallies DEF Claims, Docs

LEMMA RowTypes ==
  /\ \A row, status : IsStoreRow(row) /\ status \in Status => IsStoreRow(WithStatus(row, status))
  /\ \A row, d, loader : IsStoreRow(row) /\ d \in Loader /\ loader \in LoaderRow =>
       IsStoreRow(With(row, d, loader))
  /\ \A row, d : IsStoreRow(row) => IsStoreRow(Without(row, d))
BY DEF IsStoreRow, WithStatus, With, Without, Put, Drop

LEMMA RowLoaders ==
  /\ \A row, status : WithStatus(row, status).loaders = row.loaders
  /\ \A row, d, loader : /\ With(row, d, loader).loaders[d] = loader
                         /\ \A e \in Docs(row) : e # d =>
                              With(row, d, loader).loaders[e] = row.loaders[e]
  /\ \A row, d : \A e \in Docs(row) : e # d => Without(row, d).loaders[e] = row.loaders[e]
BY DEF Docs, WithStatus, With, Without, Put, Drop

LEMMA CreateStoreTallies ==
  ASSUME OrphanInv, OrphanInv', TallyInv, NEW r \in Request, CreateStore(r)
  PROVE  TallyInv'
<1>1. /\ Busy(r) /\ At(r, "create") /\ Save(r, EmptyRow)
      /\ UNCHANGED <<chunks, known, made, failures, torn>> /\ ~Files(r)
  BY DEF CreateStore, Busy, At, Files, Splits
<1>2. IsStoreRow(EmptyRow) /\ Docs(EmptyRow) = {}
  BY EmptyRowType DEF EmptyRow, Docs
<1>3. CASE Answer(r)
  BY <1>1, <1>2, <1>3, AnswerTally, SaveTallies
<1>4. CASE ~ Answer(r)
  <2> DEFINE locals == [req[r] EXCEPT !.pc = "readForSave"]
  <2>1. /\ req[r] \in RequestRow /\ RequestInv(r) /\ RequestTally(r) /\ RequestRefresh(r)
        /\ Docs(copy[r]) \subseteq Loader /\ IsStoreRow(copy[r]) /\ req[r].pages = {}
    BY <1>1, RequestRowFacts DEF TallyInv, CountInv
  <2>2. /\ locals \in RequestRow /\ locals.pc = "readForSave" /\ locals.store = StoreOf(r)
        /\ locals.pages = {} /\ locals.doc = DocOf(r)
        /\ locals.todo = req[r].todo /\ locals.kind = req[r].kind
        /\ locals.asked = req[r].asked
    BY <2>1 DEF RequestRow, StoreOf, DocOf, Pcs
  <2>3. Becomes(r, locals, copy[r])
    BY <1>4 DEF CreateStore, Goto, Moves
  <2> HIDE DEF locals
  <2>4. OnlyRequest(r, StoreOf(r)) /\ req'[r] = locals /\ copy'[r] = copy[r]
    BY <2>1, <2>2, <2>3, MoveIsLocal
  <2>5. req[r].kind # "create"
    BY <1>4 DEF CreateStore
  <2>6. req[r].kind \in {"save", "process", "upsert", "refresh"}
    BY <1>1, <2>1, <2>5 DEF RequestTally, FillsLoader, At
  <2>7. req[r].kind # "refresh"
    BY <1>1, <2>1 DEF RequestRefresh, Refreshes, RequestInv, At
  <2>8. RequestTally(r)'
    BY <2>2, <2>4, <2>6
    DEF RequestTally, Counts, At, CopyIsCurrent, FillsLoader
  <2>9. RequestRefresh(r)'
    BY <2>1, <2>2, <2>4, <2>7 DEF RequestRefresh, Refreshes, At
  <2>10. IsStoreRow(copy'[r])
    BY <2>1, <2>4
  <2> QED
    BY <1>1, <1>2, <2>2, <2>4, <2>8, <2>9, <2>10, SaveTallies
<1> QED
  BY <1>3, <1>4

LEMMA SaveLoaderTallies ==
  ASSUME OrphanInv, OrphanInv', TallyInv, NEW r \in Request, SaveLoader(r)
  PROVE  TallyInv'
<1> PICK d : d = DocOf(r)
  OBVIOUS
<1> PICK row : row = With(copy[r], d, Processing)
  OBVIOUS
<1> DEFINE locals == [req[r] EXCEPT !.pc = "readForProcess"]
<1>1. /\ Busy(r) /\ At(r, "saveLoader") /\ CopyIsCurrent(r) /\ ~Counts(r) /\ ~Files(r)
      /\ \A e : ~Settles(r, StoreOf(r), e)
      /\ Save(r, row) /\ UNCHANGED <<chunks, known, made, failures, torn>>
  BY DEF SaveLoader, Busy, At, CopyIsCurrent, Counts, Settles, Files, Splits
<1>2. /\ req[r] \in RequestRow /\ RequestInv(r) /\ RequestTally(r) /\ RequestRefresh(r)
      /\ Docs(copy[r]) \subseteq Loader /\ IsStoreRow(copy[r]) /\ req[r].pages = {}
  BY <1>1, RequestRowFacts DEF TallyInv, CountInv
<1>3. d \in Loader /\ Processing \in LoaderRow
  BY <1>1, <1>2 DEF RequestInv, FillsLoader, At, Processing, LoaderRow
<1>4. /\ IsStoreRow(row) /\ Docs(row) = Docs(copy[r]) \cup {d}
      /\ row.loaders[d].status = "SYNCING"
      /\ \A e \in Docs(copy[r]) : e # d => row.loaders[e] = copy[r].loaders[e]
  BY <1>2, <1>3, RowTypes, RowLoaders, DocsOfRows DEF Processing
<1>5. \A e \in Docs(row) : Claims(StoreOf(r), e) /\ Tallies(row.loaders[e], e)
  <2>1. Claims(StoreOf(r), d) /\ Tallies(row.loaders[d], d)
    BY <1>1, <1>4 DEF Claims, Tallies, Exact
  <2>2. \A e \in Docs(copy[r]) : Claims(StoreOf(r), e) /\ Tallies(copy[r].loaders[e], e)
    BY <1>1, CopyTallies
  <2> QED
    BY <1>4, <2>1, <2>2
<1>6. CASE Answer(r)
  BY <1>1, <1>4, <1>5, <1>6, AnswerTally, SaveTallies
<1>7. CASE ~ Answer(r)
  <2>1. /\ locals \in RequestRow /\ locals.pc = "readForProcess" /\ locals.store = StoreOf(r)
        /\ locals.pages = {} /\ locals.doc = d
        /\ locals.todo = req[r].todo /\ locals.kind = req[r].kind
        /\ locals.asked = req[r].asked /\ locals.added = req[r].added
    BY <1>2 DEF RequestRow, StoreOf, DocOf, Pcs
  <2>2. Becomes(r, locals, copy[r])
    BY <1>7 DEF SaveLoader, Goto, Moves
  <2> HIDE DEF locals
  <2>3. OnlyRequest(r, StoreOf(r)) /\ req'[r] = locals /\ copy'[r] = copy[r]
    BY <1>2, <2>1, <2>2, MoveIsLocal
  <2>4. stores'[StoreOf(r)] = row /\ StoreOf(r) \in DOMAIN stores'
    BY <1>1 DEF Save, Put
  <2>5. RequestTally(r)'
    <3>1. req[r].kind \in {"save", "process", "upsert", "refresh"}
      BY <1>1, <1>2 DEF RequestTally, FillsLoader, At
    <3> QED
      BY <2>1, <2>3, <3>1 DEF RequestTally, Counts, At, CopyIsCurrent, FillsLoader
  <2>6. RequestRefresh(r)'
    <3>1. CASE req[r].kind # "refresh"
      BY <1>2, <2>1, <2>3, <3>1 DEF RequestRefresh, Refreshes, At
    <3>2. CASE req[r].kind = "refresh"
      <4> PICK s : s = StoreOf(r)
        OBVIOUS
      <4>1. /\ req[r].todo \ req[r].added \subseteq Docs(stores[s])
            /\ d \in req[r].asked \ req[r].todo /\ req[r].todo \subseteq req[r].asked
            /\ \A e \in req[r].asked \ req[r].todo : e # d =>
                 e \in Docs(stores[s]) /\ stores[s].loaders[e].status = "SYNC"
            /\ copy[r].loaders = stores[s].loaders
        BY <1>1, <1>2, <3>2 DEF RequestRefresh, Refreshes, RequestTally, At
      <4>2. Docs(row) = Docs(stores[s]) \cup {d}
        BY <1>4, <4>1 DEF Docs
      <4>3. /\ Fetches(r)' /\ ~At(r, "next")' /\ StoreOf(r)' = s /\ DocOf(r)' = d
            /\ stores'[s] = row /\ s \in DOMAIN stores'
            /\ req'[r].todo = req[r].todo /\ req'[r].pc \notin {"list", "next"}
            /\ req'[r].asked = req[r].asked /\ req'[r].added = req[r].added
        BY <2>1, <2>3, <2>4 DEF Fetches, At, StoreOf, DocOf
      <4>4. \A e \in req[r].asked \ req[r].todo : e # d =>
              e \in Docs(row) /\ row.loaders[e].status = "SYNC"
        BY <1>4, <4>1, <4>2 DEF Docs
      <4> QED
        BY <4>1, <4>2, <4>3, <4>4 DEF RequestRefresh, Docs
    <3> QED
      BY <3>1, <3>2
  <2>7. IsStoreRow(copy'[r])
    BY <1>2, <2>3
  <2> QED
    BY <1>1, <1>4, <1>5, <2>1, <2>3, <2>5, <2>6, <2>7, SaveTallies
<1> QED
  BY <1>6, <1>7

LEMMA SaveProcessedTallies ==
  ASSUME OrphanInv, OrphanInv', TallyInv, NEW r \in Request, SaveProcessed(r)
  PROVE  TallyInv'
<1> PICK d : d = DocOf(r)
  OBVIOUS
<1> PICK pages : pages = req[r].pages
  OBVIOUS
<1> PICK loader : loader = [status |-> "SYNC", totalChunks |-> Cardinality(pages),
                            totalChars |-> CharsOf(pages)]
  OBVIOUS
<1> PICK row : row = AfterProcess(copy[r], d, pages)
  OBVIOUS
<1> DEFINE locals == [req[r] EXCEPT !.pc = "readChunks", !.pages = {}]
<1>1. /\ Busy(r) /\ At(r, "insertChunks") /\ CopyIsCurrent(r) /\ ~Counts(r)
      /\ \A e : e # d => ~Settles(r, StoreOf(r), e)
      /\ UNCHANGED <<chunks, known, made, failures, torn>> /\ req[r].running = {}
      /\ LoaderIsListed(r)
  BY DEF SaveProcessed, Busy, At, CopyIsCurrent, Counts, Settles, LoaderIsListed
<1>2. /\ req[r] \in RequestRow /\ RequestInv(r) /\ RequestTally(r) /\ RequestRefresh(r)
      /\ Docs(copy[r]) \subseteq Loader /\ IsStoreRow(copy[r]) /\ IsFiniteSet(pages)
  BY RequestRowFacts DEF TallyInv, CountInv
<1>3. /\ copy[r].loaders = stores[StoreOf(r)].loaders /\ d \in Docs(copy[r]) /\ d \in Loader
      /\ StoreOf(r) \in DOMAIN stores /\ Claims(StoreOf(r), d)
  BY <1>1, <1>2 DEF RequestTally, RequestInv, Claims
<1>4. /\ Save(r, row) /\ Becomes(r, locals, EmptyRow)
  BY <1>3 DEF SaveProcessed
(* The chunks of the loader are the pages, no more and no less.            *)
<1>5. d \in torn \/ ChunksOf(d) = pages
  BY <1>1, <1>2 DEF RequestTally
<1>6. loader \in LoaderRow
  <2>1. Cardinality(pages) \in Int
    BY <1>2, FS_CardinalityType
  <2>2. \A c \in pages : c.length \in Int
    <3>1. pages \subseteq Chunk
      BY <1>2 DEF RequestRow
    <3>2. \A c \in Chunk : c.length \in Nat
      BY StoreConstants DEF Chunk
    <3> QED
      BY <3>1, <3>2
  <2>3. CharsOf(pages) \in Int
    BY <1>2, <2>2, CharsOfType
  <2> QED
    BY <2>1, <2>3 DEF LoaderRow
<1>7. Tallies(loader, d)
  BY <1>5 DEF Tallies, Exact
<1>8. /\ IsStoreRow(row) /\ Docs(row) = Docs(copy[r]) /\ row.loaders[d] = loader
      /\ \A e \in Docs(copy[r]) : e # d => row.loaders[e] = copy[r].loaders[e]
  <2> PICK new : new = With(copy[r], d, loader)
    OBVIOUS
  <2> PICK status : status = IF Synced(new) THEN "SYNC" ELSE "STALE"
    OBVIOUS
  <2>1. row = WithStatus(new, status)
    BY DEF AfterProcess, Processed
  <2>2. status \in Status
    BY DEF Status
  <2>3. /\ IsStoreRow(new) /\ Docs(new) = Docs(copy[r]) \cup {d} /\ new.loaders[d] = loader
        /\ \A e \in Docs(copy[r]) : e # d => new.loaders[e] = copy[r].loaders[e]
    BY <1>2, <1>3, <1>6, RowTypes, RowLoaders, DocsOfRows
  <2>4. IsStoreRow(row) /\ Docs(row) = Docs(new) /\ row.loaders = new.loaders
    BY <2>1, <2>2, <2>3, RowTypes, RowLoaders, DocsOfRows
  <2> QED
    BY <1>3, <2>3, <2>4
<1>9. \A e \in Docs(row) : Claims(StoreOf(r), e) /\ Tallies(row.loaders[e], e)
  <2>1. \A e \in Docs(copy[r]) : e # d =>
          Claims(StoreOf(r), e) /\ Tallies(copy[r].loaders[e], e)
    BY <1>1, CopyTallies
  <2> QED
    BY <1>3, <1>7, <1>8, <2>1
<1>10. /\ locals \in RequestRow /\ locals.pc = "readChunks" /\ locals.store = StoreOf(r)
       /\ locals.pages = {} /\ locals.doc = d
       /\ locals.todo = req[r].todo /\ locals.kind = req[r].kind
       /\ locals.asked = req[r].asked /\ locals.added = req[r].added
  BY <1>2 DEF RequestRow, StoreOf, DocOf, Pcs
<1> HIDE DEF locals
<1>11. OnlyRequest(r, StoreOf(r)) /\ req'[r] = locals /\ copy'[r] = EmptyRow
  <2>1. Docs(EmptyRow) \subseteq Loader
    BY DEF Docs, EmptyRow
  <2> QED
    BY <1>4, <1>10, <2>1, MoveIsLocal
<1>12. stores'[StoreOf(r)] = row /\ StoreOf(r) \in DOMAIN stores'
  BY <1>4 DEF Save, Put
<1>13. RequestTally(r)'
  BY <1>10, <1>11 DEF RequestTally, Counts, At, CopyIsCurrent, FillsLoader
<1>14. RequestRefresh(r)'
  <2>1. CASE req[r].kind # "refresh"
    BY <1>2, <1>10, <1>11, <2>1 DEF RequestRefresh, Refreshes, At
  <2>2. CASE req[r].kind = "refresh"
    <3> PICK s : s = StoreOf(r)
      OBVIOUS
    <3>1. /\ req[r].todo \ req[r].added \subseteq Docs(stores[s])
          /\ d \in req[r].asked \ req[r].todo /\ req[r].todo \subseteq req[r].asked
          /\ \A e \in req[r].asked \ req[r].todo : e # d =>
               e \in Docs(stores[s]) /\ stores[s].loaders[e].status = "SYNC"
          /\ copy[r].loaders = stores[s].loaders /\ Docs(copy[r]) = Docs(stores[s])
      BY <1>1, <1>2, <1>3, <2>2 DEF RequestRefresh, Refreshes, At, Docs
    <3>2. /\ ~At(r, "next")' /\ StoreOf(r)' = s /\ DocOf(r)' = d
          /\ stores'[s] = row /\ s \in DOMAIN stores'
          /\ req'[r].todo = req[r].todo /\ req'[r].pc \notin {"list", "next"}
          /\ req'[r].asked = req[r].asked /\ req'[r].added = req[r].added
      BY <1>10, <1>11, <1>12 DEF At, StoreOf, DocOf
    <3>3. \A e \in req[r].asked \ req[r].todo :
            e \in Docs(row) /\ row.loaders[e].status = "SYNC"
      BY <1>3, <1>8, <3>1
    <3> QED
      BY <1>8, <3>1, <3>2, <3>3 DEF RequestRefresh, Docs
  <2> QED
    BY <2>1, <2>2
<1>15. IsStoreRow(copy'[r])
  BY <1>11, EmptyRowType
<1> QED
  BY <1>1, <1>4, <1>8, <1>9, <1>10, <1>11, <1>13, <1>14, <1>15, SaveTallies

(* A save that changes the status of the store and keeps its loaders.      *)
LEMMA StatusTallies ==
  ASSUME OrphanInv, OrphanInv', TallyInv, NEW r \in Request,
         req[r].pc \in {"saveConfig", "mark", "upserted"},
         NEW row, Save(r, row), IsStoreRow(row), row.loaders = copy[r].loaders,
         UNCHANGED <<chunks, known, made, failures, torn>>,
         NEW next \in {"mark", "readForUpsert", "next"}, NEW mine, IsStoreRow(mine),
         next = "mark" => mine = row,
         next = "next" => req[r].kind = "refresh" /\ row.status = "UPSERTED",
         Answer(r) \/ Becomes(r, [req[r] EXCEPT !.pc = next], mine)
  PROVE  TallyInv'
<1> DEFINE locals == [req[r] EXCEPT !.pc = next]
<1>1. /\ Busy(r) /\ CopyIsCurrent(r) /\ ~Counts(r) /\ ~Files(r) /\ ~Fetches(r)
      /\ \A e : ~Settles(r, StoreOf(r), e) /\ ~At(r, "list") /\ ~At(r, "next")
  BY DEF Busy, At, CopyIsCurrent, Counts, Settles, Files, Splits, Fetches
<1>2. /\ req[r] \in RequestRow /\ RequestTally(r) /\ RequestRefresh(r)
      /\ req[r].pages = {}
  BY <1>1, RequestRowFacts DEF TallyInv, CountInv
<1>3. Docs(row) = Docs(copy[r]) /\ Docs(mine) \subseteq Loader
  BY DEF Docs, IsStoreRow
<1>4. \A e \in Docs(row) : Claims(StoreOf(r), e) /\ Tallies(row.loaders[e], e)
  BY <1>1, <1>3, CopyTallies
<1>5. CASE Answer(r)
  BY <1>1, <1>4, <1>5, AnswerTally, SaveTallies
<1>6. CASE Becomes(r, locals, mine)
  <2>1. /\ locals \in RequestRow /\ locals.pc = next /\ locals.store = StoreOf(r)
        /\ locals.pages = {} /\ locals.doc = DocOf(r)
        /\ locals.todo = req[r].todo /\ locals.kind = req[r].kind
        /\ locals.asked = req[r].asked /\ locals.added = req[r].added
    BY <1>2 DEF RequestRow, StoreOf, DocOf, Pcs
  <2> HIDE DEF locals
  <2>2. OnlyRequest(r, StoreOf(r)) /\ req'[r] = locals /\ copy'[r] = mine
    BY <1>3, <1>6, <2>1, MoveIsLocal
  <2>3. stores'[StoreOf(r)] = row /\ StoreOf(r) \in DOMAIN stores'
    BY DEF Save, Put
  <2>4. RequestTally(r)'
    BY <2>1, <2>2, <2>3
    DEF RequestTally, Counts, At, CopyIsCurrent, FillsLoader, StoreOf
  <2>5. RequestRefresh(r)'
    <3>1. CASE req[r].kind # "refresh"
      BY <1>2, <2>1, <2>2, <3>1 DEF RequestRefresh, Refreshes, At
    <3>2. CASE req[r].kind = "refresh"
      <4> PICK s : s = StoreOf(r)
        OBVIOUS
      <4>1. /\ req[r].todo \ req[r].added \subseteq Docs(stores[s])
            /\ DocOf(r) \in req[r].asked \ req[r].todo /\ req[r].todo \subseteq req[r].asked
            /\ \A e \in req[r].asked \ req[r].todo :
                 e \in Docs(stores[s]) /\ stores[s].loaders[e].status = "SYNC"
            /\ copy[r].loaders = stores[s].loaders
        BY <1>1, <1>2, <3>2 DEF RequestRefresh, Refreshes, RequestTally
      <4>2. Docs(row) = Docs(stores[s]) /\ row.loaders = stores[s].loaders
        BY <1>3, <4>1 DEF Docs
      <4>3. /\ StoreOf(r)' = s /\ DocOf(r)' = DocOf(r)
            /\ stores'[s] = row /\ s \in DOMAIN stores'
            /\ req'[r].todo = req[r].todo /\ req'[r].kind = "refresh"
            /\ req'[r].asked = req[r].asked /\ req'[r].added = req[r].added
            /\ At(r, "next")' => row.status = "UPSERTED"
        BY <2>1, <2>2, <2>3, <3>2 DEF At, StoreOf, DocOf
      <4> QED
        BY <4>1, <4>2, <4>3 DEF RequestRefresh, Docs
    <3> QED
      BY <3>1, <3>2
  <2>6. IsStoreRow(copy'[r])
    BY <2>2
  <2> QED
    BY <1>1, <1>4, <2>1, <2>2, <2>4, <2>5, <2>6, SaveTallies
<1> QED
  BY <1>5, <1>6

LEMMA StatusRow ==
  ASSUME OrphanInv, TallyInv, NEW r \in Request, NEW status \in Status
  PROVE  /\ IsStoreRow(copy[r]) /\ IsStoreRow(WithStatus(copy[r], status))
         /\ WithStatus(copy[r], status).loaders = copy[r].loaders
         /\ WithStatus(copy[r], status).status = status
BY RowTypes DEF TallyInv, CountInv, WithStatus

LEMMA SaveConfigTallies ==
  ASSUME OrphanInv, OrphanInv', TallyInv, NEW r \in Request, SaveConfig(r)
  PROVE  TallyInv'
<1>1. PICK named \in BOOLEAN :
        /\ Save(r, AfterConfig(copy[r], named))
        /\ \/ Answer(r)
           \/ Becomes(r, [req[r] EXCEPT !.pc = "mark"], AfterConfig(copy[r], named))
  BY DEF SaveConfig
<1> PICK row : row = AfterConfig(copy[r], named)
  OBVIOUS
<1>2. IsStoreRow(row) /\ row.loaders = copy[r].loaders
  BY StatusRow DEF AfterConfig, Status
<1>3. req[r].pc = "saveConfig" /\ UNCHANGED <<chunks, known, made, failures, torn>>
  BY DEF SaveConfig, At
<1> QED
  BY <1>1, <1>2, <1>3, StatusTallies

LEMMA MarkUpsertingTallies ==
  ASSUME OrphanInv, OrphanInv', TallyInv, NEW r \in Request, MarkUpserting(r)
  PROVE  TallyInv'
<1> PICK row : row = WithStatus(copy[r], "UPSERTING")
  OBVIOUS
<1>1. IsStoreRow(row) /\ row.loaders = copy[r].loaders /\ IsStoreRow(copy[r])
  BY StatusRow DEF Status
<1>2. /\ req[r].pc = "mark" /\ UNCHANGED <<chunks, known, made, failures, torn>> /\ Save(r, row)
      /\ Becomes(r, [req[r] EXCEPT !.pc = "readForUpsert"], copy[r])
  BY DEF MarkUpserting, At, Goto, Moves
<1> QED
  BY <1>1, <1>2, StatusTallies

LEMMA SaveUpsertedTallies ==
  ASSUME OrphanInv, OrphanInv', TallyInv, NEW r \in Request, SaveUpserted(r)
  PROVE  TallyInv'
<1> PICK row : row = WithStatus(copy[r], "UPSERTED")
  OBVIOUS
<1>1. /\ IsStoreRow(row) /\ row.loaders = copy[r].loaders /\ IsStoreRow(copy[r])
      /\ row.status = "UPSERTED"
  BY StatusRow DEF Status
<1>2. /\ req[r].pc = "upserted" /\ UNCHANGED <<chunks, known, made, failures, torn>> /\ Save(r, row)
  BY DEF SaveUpserted, At
<1>3. CASE req[r].kind = "refresh"
  <2>1. Becomes(r, [req[r] EXCEPT !.pc = "next"], copy[r])
    BY <1>3 DEF SaveUpserted, Goto, Moves
  <2> QED
    BY <1>1, <1>2, <1>3, <2>1, StatusTallies
<1>4. CASE req[r].kind # "refresh"
  <2>1. Answer(r)
    BY <1>4 DEF SaveUpserted
  <2> QED
    BY <1>1, <1>2, <2>1, StatusTallies
<1> QED
  BY <1>3, <1>4

(* A save at the end of a deletion or an edit settles the loader.          *)
LEMMA WriteTallies ==
  ASSUME OrphanInv, OrphanInv', TallyInv, NEW r \in Request, Write(r)
  PROVE  TallyInv'
<1> PICK s : s = StoreOf(r)
  OBVIOUS
<1> PICK d : d = DocOf(r)
  OBVIOUS
<1> PICK row : row = RowToWrite(r)
  OBVIOUS
<1>1. /\ Busy(r) /\ At(r, "write") /\ CopyIsCurrent(r)
      /\ Save(r, row) /\ Answer(r) /\ UNCHANGED <<chunks, known, made, failures, torn>>
  BY DEF Write, Busy, At, CopyIsCurrent
<1>2. /\ IsStoreRow(copy[r]) /\ RequestTally(r) /\ s \in DOMAIN stores /\ s \in Store
      /\ Docs(copy[r]) = Docs(stores[s]) /\ Alone(r, s)
  BY <1>1, RequestRowFacts, BusyFacts DEF TallyInv, CountInv, RequestInv
<1>3. IsStoreRow(row) /\ \A e \in Docs(row) : Claims(s, e) /\ Tallies(row.loaders[e], e)
  <2>1. CASE req[r].kind = "deleteLoader"
    <3>1. row = Without(copy[r], d) /\ ~Counts(r)
      BY <2>1 DEF RowToWrite, Counts
    <3>2. /\ IsStoreRow(row) /\ Docs(row) = Docs(copy[r]) \ {d}
          /\ \A e \in Docs(copy[r]) : e # d => row.loaders[e] = copy[r].loaders[e]
      BY <1>2, <3>1, RowTypes, RowLoaders, DocsOfRows
    <3>3. \A e : e # d => ~Settles(r, s, e)
      BY <1>1 DEF Settles, At
    <3>4. \A e \in Docs(copy[r]) : e # d => Claims(s, e) /\ Tallies(copy[r].loaders[e], e)
      BY <1>1, <3>1, <3>3, CopyTallies
    <3> QED
      BY <3>2, <3>4
  <2>2. CASE Counts(r)
    <3>1. row = copy[r]
      BY <2>2 DEF RowToWrite, Counts
    <3>2. d \in Docs(stores[s]) /\ Tallies(copy[r].loaders[d], d)
      BY <1>2, <2>2 DEF RequestTally
    <3>3. \A e \in Docs(stores[s]) : e # d => copy[r].loaders[e] = stores[s].loaders[e]
      BY <1>2, <2>2 DEF RequestTally
    <3>4. \A e : e # d => ~Settles(r, s, e)
      BY <1>1 DEF Settles, At
    <3>5. \A e \in Docs(stores[s]) : e # d => Tallies(copy[r].loaders[e], e)
      BY <1>2, <3>3, <3>4, OwnTallies
    <3> QED
      BY <1>2, <3>1, <3>2, <3>5 DEF Claims
  <2>3. CASE req[r].kind # "deleteLoader" /\ ~Counts(r)
    <3>1. row = copy[r]
      BY <2>3 DEF RowToWrite
    <3>2. \A e : ~Settles(r, s, e)
      BY <1>1, <2>3 DEF Settles, Counts, At
    <3>3. \A e \in Docs(copy[r]) : Claims(s, e) /\ Tallies(copy[r].loaders[e], e)
      BY <1>1, <2>3, <3>2, CopyTallies
    <3> QED
      BY <1>2, <3>1, <3>3
  <2> QED
    BY <2>1, <2>2, <2>3
<1> QED
  BY <1>1, <1>3, AnswerTally, SaveTallies

-----------------------------------------------------------------------------
(* The steps that change the chunks, or drop the row, keep the counts.     *)

LEMMA DeleteRowTallies ==
  ASSUME OrphanInv, OrphanInv', TallyInv, NEW r \in Request, DeleteRow(r)
  PROVE  TallyInv'
<1> PICK s : s = StoreOf(r)
  OBVIOUS
<1>1. /\ Busy(r) /\ Answer(r) /\ stores' = Drop(stores, s)
      /\ UNCHANGED <<chunks, known, made, failures, torn>>
  BY DEF DeleteRow, Busy, At
<1>2. s \in Store /\ Alone(r, s) /\ HomeInv /\ CountInv
  BY <1>1, BusyFacts DEF TallyInv
<1>3. /\ OnlyRequest(r, s) /\ ~Busy(r)' /\ IsStoreRow(copy'[r]) /\ req'[r].pages = {}
      /\ RequestTally(r)' /\ RequestRefresh(r)'
  BY <1>1, AnswerTally
<1>4. s \notin DOMAIN stores' /\ Frame(s) /\ Others(s) /\ Healed(s)
  BY <1>1 DEF Drop, Frame, Others, Healed
<1>5. HomeInv'
  <2>1. \A c \in chunks' \cup req'[r].pages : c \in Filed
    BY <1>1, <1>3 DEF Filed
  <2> QED
    BY <1>2, <1>3, <1>4, <2>1, HomeKeeps
<1>6. CountInv'
  <2>1. /\ known' \subseteq Store \cup Loader
        /\ made' \in 0 .. MaxChunks /\ failures' \in 0 .. MaxFailures /\ torn' \subseteq Loader
        /\ IsFiniteSet(chunks') /\ \A b, c \in chunks' : b.id = c.id => b = c
    BY <1>1, <1>2 DEF CountInv
  <2>2. /\ IsFiniteSet(req'[r].pages) /\ \A b, c \in req'[r].pages : b.id = c.id => b = c
        /\ req'[r].running = {} /\ \A b \in chunks' : b \in chunks
    BY <1>1, <1>3, FS_EmptySet DEF OrphanInv, RequestInv
  <2> QED
    BY <1>2, <1>3, <1>4, <2>1, <2>2, CountKeeps
<1>7. StoreTally(s)'
  BY <1>4 DEF StoreTally
<1> QED
  BY <1>1, <1>2, <1>3, <1>4, <1>5, <1>6, <1>7, TallyKeeps

LEMMA FiniteImage ==
  ASSUME NEW n \in Nat, NEW f, DOMAIN f = 1 .. n, f = [i \in 1 .. n |-> f[i]]
  PROVE  IsFiniteSet({f[i] : i \in 1 .. n})
<1> DEFINE T == {f[i] : i \in 1 .. n}
<1>1. f \in Surjection(1 .. n, T)
  BY DEF Surjection
<1>2. IsFiniteSet(1 .. n)
  BY FS_Interval
<1> HIDE DEF T
<1>3. IsFiniteSet(T)
  BY <1>1, <1>2, FS_Surjection
<1> QED
  BY <1>3 DEF T

(* Rows and chunks stay, and nobody was about to settle.                   *)
LEMMA StoreTallyStays ==
  ASSUME TallyInv, NEW r \in Request, NEW s \in Store, Alone(r, s),
         UNCHANGED <<stores, chunks, torn>>, \A d : ~Settles(r, s, d)
  PROVE  StoreTally(s)'
<1> SUFFICES ASSUME s \in DOMAIN stores', NEW d \in Docs(stores'[s])
             PROVE  Tallies(stores[s].loaders[d], d)'
  BY DEF StoreTally, Docs
<1>1. Tallies(stores[s].loaders[d], d)
  BY OwnTallies DEF Docs
<1> QED
  BY <1>1 DEF Exact, Tallies, ChunksOf

LEMMA SplitTallies ==
  ASSUME OrphanInv, OrphanInv', TallyInv, NEW r \in Request, Split(r)
  PROVE  TallyInv'
<1>a. PICK n \in 0 .. MaxPages : \E text \in [1 .. n -> Length] :
        /\ made + n =< MaxChunks
        /\ made' = made + n
        /\ LET new == {[id |-> made + i, doc |-> DocOf(r), store |-> StoreOf(r),
                         length |-> text[i]] : i \in 1 .. n}
           IN  Moves(r, [req[r] EXCEPT !.pc = "dropChunks", !.pages = new, !.running = new])
  BY DEF Split
<1>1. PICK text \in [1 .. n -> Length] :
        /\ made + n =< MaxChunks
        /\ made' = made + n
        /\ LET new == {[id |-> made + i, doc |-> DocOf(r), store |-> StoreOf(r),
                         length |-> text[i]] : i \in 1 .. n}
           IN  Moves(r, [req[r] EXCEPT !.pc = "dropChunks", !.pages = new, !.running = new])
  BY <1>a
<1> DEFINE page == [i \in 1 .. n |-> [id |-> made + i, doc |-> DocOf(r), store |-> StoreOf(r),
                                      length |-> text[i]]]
           new == {page[i] : i \in 1 .. n}
           locals == [req[r] EXCEPT !.pc = "dropChunks", !.pages = new, !.running = new]
<1> PICK s : s = StoreOf(r)
  OBVIOUS
<1>2. /\ Busy(r) /\ At(r, "split") /\ CopyIsCurrent(r) /\ FillsLoader(r) /\ Fetches(r)
      /\ ~Counts(r) /\ ~At(r, "list") /\ ~At(r, "next") /\ \A d : ~Settles(r, s, d)
      /\ UNCHANGED <<stores, chunks, known, failures, torn>>
  BY DEF Split, Busy, At, CopyIsCurrent, FillsLoader, Fetches, Counts, Settles
<1>3. /\ req[r] \in RequestRow /\ RequestInv(r) /\ Docs(copy[r]) \subseteq Loader
      /\ DocOf(r) \in Loader /\ s \in Store /\ made \in Nat /\ n \in Nat
      /\ MaxChunks \in Nat /\ Alone(r, s) /\ IsStoreRow(copy[r])
      /\ RequestTally(r) /\ RequestRefresh(r) /\ HomeInv /\ CountInv
  BY <1>2, RequestRowFacts, BusyFacts, StoreBounds
  DEF RequestInv, OrphanInv, TablesInv, TallyInv, CountInv
<1>4. new \subseteq Chunk
  <2>1. \A i \in 1 .. n : made + i \in 1 .. MaxChunks
    BY <1>1, <1>3
  <2> QED
    BY <1>3, <2>1 DEF Chunk
<1>5. /\ \A b, c \in new : b.id = c.id => b = c
      /\ \A c \in new : c.id > made /\ c.doc = DocOf(r) /\ c.store = StoreOf(r)
  BY <1>3
<1>6. IsFiniteSet(new)
  <2> HIDE DEF page
  <2>1. DOMAIN page = 1 .. n /\ page = [i \in 1 .. n |-> page[i]]
    BY DEF page
  <2> QED
    BY <1>3, <2>1, FiniteImage
<1>7. Becomes(r, locals, copy[r])
  <2>1. new = {[id |-> made + i, doc |-> DocOf(r), store |-> StoreOf(r),
                length |-> text[i]] : i \in 1 .. n}
    OBVIOUS
  <2> HIDE DEF new, page
  <2> QED
    BY <1>1, <2>1 DEF Moves
<1> HIDE DEF page, new
<1>8. /\ locals \in RequestRow /\ locals.pc = "dropChunks" /\ locals.pages = new
      /\ locals.running = new
      /\ locals.store = s /\ locals.doc = DocOf(r) /\ locals.todo = req[r].todo
      /\ locals.kind = req[r].kind
      /\ locals.asked = req[r].asked /\ locals.added = req[r].added
  BY <1>3, <1>4 DEF RequestRow, StoreOf, DocOf, Pcs
<1> HIDE DEF locals
<1>9. OnlyRequest(r, s) /\ req'[r] = locals /\ copy'[r] = copy[r]
  BY <1>3, <1>7, <1>8, MoveIsLocal
<1>10. Frame(s) /\ Others(s) /\ Healed(s)
  BY <1>2 DEF Frame, Others, Healed
<1>11. req[r].kind \in {"save", "process", "upsert", "refresh"}
  BY <1>2, <1>3 DEF RequestTally
<1>12. Splits(r)' /\ Files(r)' /\ StoreOf(r)' = s /\ DocOf(r)' = DocOf(r)
  BY <1>8, <1>9, <1>11 DEF Splits, Files, At, StoreOf, DocOf
<1>13. HomeInv'
  <2>1. \A d \in Loader : s \in DOMAIN stores' /\ d \in Docs(stores'[s]) => Claims(s, d)
    BY <1>2 DEF Claims, Docs
  <2>2. \A d \in Loader : d = req'[r].doc \/ d \in req'[r].todo => Claims(s, d)
    BY <1>2, <1>8, <1>9 DEF Claims
  <2>3. /\ \A c \in chunks' : c \in Filed
        /\ \A c \in req'[r].pages : c.store = s /\ c.doc = DocOf(r)
        /\ Claims(s, DocOf(r))
    BY <1>2, <1>5, <1>8, <1>9 DEF Filed, Claims
  <2> QED
    BY <1>3, <1>9, <1>10, <2>1, <2>2, <2>3, HomeKeeps
<1>14. CountInv'
  <2>1. /\ s \in DOMAIN stores' => IsStoreRow(stores'[s])
        /\ known' \subseteq Store \cup Loader
        /\ failures' \in 0 .. MaxFailures /\ torn' \subseteq Loader
        /\ IsFiniteSet(chunks') /\ \A b, c \in chunks' : b.id = c.id => b = c
    BY <1>2, <1>3 DEF CountInv
  <2>2. made' \in 0 .. MaxChunks
    BY <1>1, <1>3
  <2>3. /\ IsFiniteSet(req'[r].pages) /\ \A b, c \in req'[r].pages : b.id = c.id => b = c
        /\ IsStoreRow(copy'[r]) /\ \A b \in chunks' : b \in chunks
        /\ \A c \in req'[r].pages \cup req'[r].running : c.id > made
    BY <1>2, <1>3, <1>5, <1>6, <1>8, <1>9
  <2> QED
    BY <1>3, <1>9, <1>10, <1>12, <2>1, <2>2, <2>3, CountKeeps
<1>15. RequestTally(r)'
  <2>1. copy'[r].loaders = stores'[s].loaders
    BY <1>2, <1>3, <1>9 DEF RequestTally
  <2>2. /\ ~Counts(r)' /\ ~At(r, "insertChunks")' /\ ~At(r, "changeChunk")' /\ ~FillsLoader(r)'
        /\ ~At(r, "late")' /\ ~At(r, "write")' /\ req'[r].running = req'[r].pages
    BY <1>8, <1>9 DEF Counts, At, FillsLoader
  <2> QED
    BY <1>12, <2>1, <2>2 DEF RequestTally
<1>16. RequestRefresh(r)'
  <2>1. /\ Refreshes(r)' => Refreshes(r)
        /\ Fetches(r)' /\ ~At(r, "next")' /\ req'[r].pc \notin {"list", "next"}
        /\ req'[r].todo = req[r].todo
        /\ req'[r].asked = req[r].asked /\ req'[r].added = req[r].added
    BY <1>2, <1>8, <1>9, <1>12 DEF Refreshes, Fetches, At
  <2> QED
    BY <1>2, <1>3, <1>12, <2>1 DEF RequestRefresh, Docs
<1>17. StoreTally(s)'
  BY <1>2, <1>3, StoreTallyStays
<1> QED
  BY <1>2, <1>3, <1>9, <1>10, <1>13, <1>14, <1>15, <1>16, <1>17, TallyKeeps

(* What a step that changes chunks, and no row, must show.                 *)
LEMMA ChunksTally ==
  ASSUME OrphanInv, OrphanInv', TallyInv, NEW r \in Request, Busy(r), NEW s, s = StoreOf(r),
         UNCHANGED <<stores, known, made, failures>>, torn' \subseteq torn, Healed(s),
         \A c \in chunks' : c \in chunks \/ c.store = s, Others(s),
         OnlyRequest(r, s), IsFiniteSet(chunks'),
         \A b, c \in chunks' : b.id = c.id => b = c,
         \A b \in chunks' :
           \E x \in chunks \cup (req[r].running \ req'[r].running) : SameRow(x, b),
         IsStoreRow(copy'[r]), req'[r].doc = DocOf(r), req'[r].todo = req[r].todo,
         req'[r].pages = req[r].pages, req'[r].running \subseteq req[r].running,
         Files(r)' \/ req'[r].pages = {},
         StoreTally(s)', RequestTally(r)', RequestRefresh(r)'
  PROVE  TallyInv'
<1>1. s \in Store /\ Alone(r, s) /\ HomeInv /\ CountInv /\ RequestInv(r)
  BY BusyFacts DEF TallyInv, OrphanInv
<1>2. Frame(s) /\ Others(s)
  BY DEF Frame
<1>3. HomeInv'
  <2>1. \A d \in Loader : s \in DOMAIN stores' /\ d \in Docs(stores'[s]) => Claims(s, d)
    BY DEF Claims, Docs
  <2>2. \A d \in Loader : d = req'[r].doc \/ d \in req'[r].todo => Claims(s, d)
    BY DEF Claims
  <2>3. \A c \in chunks' \cup req'[r].pages : \E b \in Filed : b.doc = c.doc /\ b.store = c.store
    BY <1>1 DEF Filed, RequestInv, SameRow
  <2> QED
    BY <1>1, <1>2, <2>1, <2>2, <2>3, HomeKeeps
<1>4. CountInv'
  <2>1. /\ s \in DOMAIN stores' => IsStoreRow(stores'[s])
        /\ known' \subseteq Store \cup Loader /\ torn' \subseteq Loader
        /\ made' \in 0 .. MaxChunks /\ failures' \in 0 .. MaxFailures
        /\ IsFiniteSet(req'[r].pages) /\ \A b, c \in req'[r].pages : b.id = c.id => b = c
    BY <1>1 DEF CountInv
  <2>2. \A b \in chunks' :
          \E x \in chunks \cup (req[r].running \ req'[r].running) : x.id = b.id
    BY DEF SameRow
  <2> QED
    BY <1>1, <1>2, <2>1, <2>2, CountKeeps
<1> QED
  BY <1>1, <1>2, <1>3, <1>4, TallyKeeps

(* Whatever became of the chunks of a loader that is settled later, those  *)
(* of the others are as they were.                                         *)
LEMMA OtherLoaders ==
  ASSUME OrphanInv, TallyInv, NEW r \in Request, NEW s, s = StoreOf(r), Busy(r),
         UNCHANGED stores, NEW e \in Loader, ~Settles(r, s, e), ChunksOf(e)' = ChunksOf(e),
         e \in torn => e \in torn', s \in DOMAIN stores, e \in Docs(stores[s])
  PROVE  Tallies(stores[s].loaders[e], e)'
<1>1. Tallies(stores[s].loaders[e], e)
  BY BusyFacts, OwnTallies
<1> QED
  BY <1>1 DEF Exact, Tallies

LEMMA DropChunksTallies ==
  ASSUME OrphanInv, OrphanInv', TallyInv, NEW r \in Request, DropChunks(r)
  PROVE  TallyInv'
<1> DEFINE next == CASE req[r].kind = "deleteLoader" -> "write"
                     [] req[r].kind = "deleteStore" -> "deleteRow"
                     [] OTHER -> "insertChunks"
           locals == [req[r] EXCEPT !.pc = next]
<1> PICK s : s = StoreOf(r)
  OBVIOUS
<1> PICK d : d = DocOf(r)
  OBVIOUS
<1>1. /\ Busy(r) /\ CopyIsCurrent(r) /\ ~Counts(r) /\ At(r, "dropChunks")
      /\ \A e : ~Settles(r, s, e)
      /\ chunks' = ChunksLeft(r) /\ torn' = IF Late(d) = {} THEN torn \ {d} ELSE torn
      /\ UNCHANGED <<stores, known, made, failures>> /\ Becomes(r, locals, copy[r])
  BY DEF DropChunks, Busy, At, CopyIsCurrent, Counts, Settles, Goto, Moves
<1>2. /\ req[r] \in RequestRow /\ RequestInv(r) /\ Docs(copy[r]) \subseteq Loader
      /\ RequestTally(r) /\ RequestRefresh(r) /\ CountInv /\ HomeInv
      /\ s \in Store /\ s \in DOMAIN stores /\ Docs(stores[s]) \subseteq Loader
  BY <1>1, RequestRowFacts, BusyFacts DEF TallyInv, RequestInv, OrphanInv, TablesInv
<1>3. next \in Pcs
  BY DEF Pcs
<1>4. /\ req[r].kind = "deleteLoader" => next = "write"
      /\ req[r].kind = "deleteStore" => next = "deleteRow"
      /\ req[r].kind \notin {"deleteLoader", "deleteStore"} => next = "insertChunks"
  OBVIOUS
<1> HIDE DEF next
<1>5. /\ locals \in RequestRow /\ locals.pc = next /\ locals.kind = req[r].kind
      /\ locals.store = s /\ locals.doc = d /\ locals.pages = req[r].pages
      /\ locals.todo = req[r].todo /\ locals.running = req[r].running
      /\ locals.asked = req[r].asked /\ locals.added = req[r].added
  BY <1>2, <1>3 DEF RequestRow, StoreOf, DocOf
<1> HIDE DEF locals
<1>6. OnlyRequest(r, s) /\ req'[r] = locals /\ copy'[r] = copy[r]
  BY <1>1, <1>2, <1>5, MoveIsLocal
<1>7. /\ chunks' \subseteq chunks
      /\ req[r].kind = "deleteStore" => \A c \in chunks : c.store # s => c \in chunks'
      /\ req[r].kind # "deleteStore" =>
           chunks' = {c \in chunks : c.doc # d}
  BY <1>1 DEF ChunksLeft
<1>8. req[r].kind # "deleteStore" => d \in Docs(stores[s]) /\ d \in Loader
  BY <1>1, <1>2 DEF RequestInv, LoaderIsListed
<1>9. Claims(s, d)
  BY <1>1 DEF Claims
<1>10. Others(s)
  <2>1. CASE req[r].kind = "deleteStore"
    BY <1>7, <2>1 DEF Others
  <2>2. CASE req[r].kind # "deleteStore"
    <3>1. \A c \in ChunksOf(d) : c.store = s
      BY <1>2, <1>8, <1>9, <2>2, ChunksAtHome
    <3> QED
      BY <1>7, <2>2, <3>1 DEF Others, ChunksOf
  <2> QED
    BY <2>1, <2>2
<1>11. /\ torn' \subseteq torn /\ Healed(s)
       /\ \A e \in torn : e # d => e \in torn'
  BY <1>1, <1>9 DEF Healed
<1>12. /\ IsFiniteSet(chunks') /\ \A b, c \in chunks' : b.id = c.id => b = c
       /\ \A b \in chunks' : b \in chunks /\ SameRow(b, b)
  BY <1>2, <1>7, FS_Subset DEF CountInv, SameRow
<1>13. /\ StoreOf(r)' = s /\ DocOf(r)' = d /\ req'[r].pc = next /\ req'[r].kind = req[r].kind
       /\ req'[r].pages = req[r].pages /\ req'[r].todo = req[r].todo
       /\ req'[r].running = req[r].running
       /\ req'[r].asked = req[r].asked /\ req'[r].added = req[r].added
  BY <1>5, <1>6 DEF StoreOf, DocOf
<1>14. Files(r)' \/ req'[r].pages = {}
  <2>1. req[r].kind \in {"deleteLoader", "deleteStore"} => ~Files(r)
    BY <1>1 DEF Files, Splits, At
  <2>2. req[r].kind \notin {"deleteLoader", "deleteStore"} => Files(r)'
    BY <1>4, <1>13 DEF Files, Splits, At
  <2> QED
    BY <1>2, <1>13, <2>1, <2>2 DEF CountInv
<1>15. StoreTally(s)'
  <2> SUFFICES ASSUME NEW e \in Docs(stores[s])
               PROVE  \/ Tallies(stores[s].loaders[e], e)'
                      \/ \E q \in Request : Settles(q, s, e)'
    BY <1>1 DEF StoreTally, Docs
  <2>1. e \in Loader
    BY <1>2
  <2>2. CASE req[r].kind # "deleteStore" /\ e # d
    <3>1. ChunksOf(e)' = ChunksOf(e)
      BY <1>7, <2>2 DEF ChunksOf
    <3> QED
      BY <1>1, <1>2, <1>11, <2>1, <2>2, <3>1, OtherLoaders
  <2>3. CASE req[r].kind = "deleteStore" \/ e = d
    <3>1. Settles(r, s, e)'
      BY <1>4, <1>13, <2>3 DEF Settles, At
    <3> QED
      BY <3>1
  <2> QED
    BY <2>2, <2>3
<1>16. RequestTally(r)'
  <2>1. copy'[r].loaders = stores'[s].loaders
    BY <1>1, <1>2, <1>6 DEF RequestTally
  <2>2. /\ ~Counts(r)' /\ ~At(r, "changeChunk")' /\ ~FillsLoader(r)' /\ ~At(r, "late")'
        /\ ~At(r, "dropChunks")'
    BY <1>4, <1>13 DEF Counts, At, FillsLoader
  <2>3. At(r, "insertChunks")' => ChunksOf(d)' = req'[r].pages \ req'[r].running
    <3>1. At(r, "insertChunks")' => ChunksOf(d)' = {}
      BY <1>4, <1>7, <1>13 DEF At, ChunksOf
    <3>2. req'[r].running = req'[r].pages
      BY <1>1, <1>2, <1>13 DEF RequestTally
    <3> QED
      BY <3>1, <3>2
  <2>4. At(r, "write")' => d \in Loader
    BY <1>4, <1>8, <1>13 DEF At
  <2> QED
    BY <1>13, <2>1, <2>2, <2>3, <2>4 DEF RequestTally
<1>17. RequestRefresh(r)'
  <2>1. /\ Refreshes(r)' => Refreshes(r)
        /\ Refreshes(r)' => Fetches(r)'
        /\ ~At(r, "next")' /\ req'[r].pc \notin {"list", "next"} /\ ~At(r, "next")
    BY <1>1, <1>4, <1>13 DEF Refreshes, Fetches, Splits, At
  <2> QED
    BY <1>1, <1>2, <1>13, <2>1 DEF RequestRefresh, Docs
<1>18. IsStoreRow(copy'[r]) /\ req'[r].doc = DocOf(r)
  BY <1>2, <1>5, <1>6 DEF CountInv
<1> QED
  BY <1>1, <1>6, <1>10, <1>11, <1>12, <1>13, <1>14, <1>15, <1>16, <1>17, <1>18, ChunksTally

(* What an insert does to the table: no chunk had the id of the page.      *)
LEMMA InsertedTable ==
  ASSUME OrphanInv, TallyInv, NEW r \in Request, NEW c \in req[r].running, Inserted(r, c)
  PROVE  /\ c \in Chunk /\ c \in req[r].pages /\ c \in Filed
         /\ IsFiniteSet(chunks') /\ \A a, b \in chunks' : a.id = b.id => a = b
         /\ \A e : e # c.doc => ChunksOf(e)' = ChunksOf(e)
         /\ ChunksOf(c.doc)' = ChunksOf(c.doc) \cup {c}
<1>1. c \in req[r].pages /\ c \in Chunk
  BY RequestRowFacts DEF RequestInv, RequestRow
<1>2. chunks' = chunks \cup {c} /\ CountInv
  BY DEF Inserted, TallyInv
<1>3. IsFiniteSet(chunks')
  BY <1>2, FS_AddElement DEF CountInv
<1>4. /\ \A b \in chunks : b.id # c.id
      /\ \A a, b \in chunks : a.id = b.id => a = b
  BY <1>2 DEF CountInv
<1>5. \A a, b \in chunks' : a.id = b.id => a = b
  BY <1>2, <1>4
<1> QED
  BY <1>1, <1>2, <1>3, <1>5 DEF Filed, ChunksOf

(* A request, or what is left of it, with an insert less to wait for.      *)
LEMMA InsertedLocals ==
  ASSUME OrphanInv, TallyInv, NEW r \in Request, NEW c \in req[r].running, Inserted(r, c)
  PROVE  /\ OnlyRequest(r, StoreOf(r)) /\ copy'[r] = copy[r]
         /\ req'[r].pc = req[r].pc /\ req'[r].kind = req[r].kind /\ req'[r].store = req[r].store
         /\ req'[r].doc = DocOf(r) /\ req'[r].pages = req[r].pages
         /\ req'[r].todo = req[r].todo /\ req'[r].chunk = req[r].chunk
         /\ req'[r].asked = req[r].asked /\ req'[r].added = req[r].added
         /\ req'[r].running = req[r].running \ {c}
<1> DEFINE locals == [req[r] EXCEPT !.running = @ \ {c}]
<1>1. req[r] \in RequestRow /\ Docs(copy[r]) \subseteq Loader
  BY RequestRowFacts
<1>2. /\ locals \in RequestRow /\ locals.pc = req[r].pc /\ locals.kind = req[r].kind
      /\ locals.store = StoreOf(r) /\ locals.doc = DocOf(r) /\ locals.pages = req[r].pages
      /\ locals.todo = req[r].todo /\ locals.chunk = req[r].chunk
      /\ locals.asked = req[r].asked /\ locals.added = req[r].added
      /\ locals.running = req[r].running \ {c}
  BY <1>1 DEF RequestRow, StoreOf, DocOf
<1>3. Becomes(r, locals, copy[r])
  BY DEF Inserted, Moves
<1> HIDE DEF locals
<1>4. OnlyRequest(r, StoreOf(r)) /\ req'[r] = locals /\ copy'[r] = copy[r]
  BY <1>1, <1>2, <1>3, MoveIsLocal
<1> QED
  BY <1>2, <1>4 DEF StoreOf

LEMMA InsertChunkTallies ==
  ASSUME OrphanInv, OrphanInv', TallyInv, NEW r \in Request, InsertChunk(r)
  PROVE  TallyInv'
<1> PICK s : s = StoreOf(r)
  OBVIOUS
<1> PICK d : d = DocOf(r)
  OBVIOUS
<1>1. PICK c \in req[r].running : Inserted(r, c)
  BY DEF InsertChunk
<1>2. /\ Busy(r) /\ LoaderIsListed(r) /\ Splits(r) /\ Files(r) /\ At(r, "insertChunks")
      /\ UNCHANGED <<stores, known, made, failures, torn>> /\ chunks' = chunks \cup {c}
      /\ CopyIsCurrent(r) /\ ~Counts(r)
      /\ \A e : e # d => ~Settles(r, s, e)
  BY <1>1
  DEF InsertChunk, Inserted, Busy, At, LoaderIsListed, Splits, Files, Settles, CopyIsCurrent, Counts
<1>3. /\ RequestInv(r) /\ RequestTally(r) /\ RequestRefresh(r) /\ IsStoreRow(copy[r])
  BY RequestRowFacts DEF TallyInv, CountInv
<1>4. /\ OnlyRequest(r, s) /\ copy'[r] = copy[r]
      /\ req'[r].pc = req[r].pc /\ req'[r].kind = req[r].kind /\ req'[r].store = s
      /\ req'[r].doc = d /\ req'[r].pages = req[r].pages
      /\ req'[r].todo = req[r].todo
      /\ req'[r].asked = req[r].asked /\ req'[r].added = req[r].added
      /\ req'[r].running = req[r].running \ {c}
  BY <1>1, InsertedLocals DEF StoreOf
<1>5. /\ c \in req[r].pages /\ IsFiniteSet(chunks') /\ \A a, b \in chunks' : a.id = b.id => a = b
      /\ \A e : e # c.doc => ChunksOf(e)' = ChunksOf(e)
      /\ ChunksOf(c.doc)' = ChunksOf(c.doc) \cup {c}
  BY <1>1, InsertedTable
<1>6. /\ c.doc = d /\ c.store = s
      /\ s \in DOMAIN stores /\ d \in Docs(stores[s]) /\ Docs(stores[s]) \subseteq Loader
  BY <1>2, <1>3, <1>5 DEF RequestInv, OrphanInv, TablesInv
<1>7. /\ Others(s) /\ Healed(s) /\ \A b \in chunks' : b \in chunks \/ b.store = s
      /\ \A b \in chunks' :
           \E x \in chunks \cup (req[r].running \ req'[r].running) : SameRow(x, b)
  BY <1>1, <1>2, <1>4, <1>6 DEF Others, Healed, SameRow
<1>8. /\ StoreOf(r)' = s /\ DocOf(r)' = d /\ At(r, "insertChunks")' /\ CopyIsCurrent(r)'
      /\ ~Counts(r)' /\ ~At(r, "changeChunk")' /\ ~FillsLoader(r)' /\ ~At(r, "late")'
      /\ ~At(r, "dropChunks")' /\ ~At(r, "write")' /\ Files(r)' /\ Splits(r)'
  BY <1>2, <1>4
  DEF StoreOf, DocOf, At, CopyIsCurrent, Counts, FillsLoader, Files, Splits
<1>9. StoreTally(s)'
  <2> SUFFICES ASSUME NEW e \in Docs(stores[s])
               PROVE  \/ Tallies(stores[s].loaders[e], e)'
                      \/ \E q \in Request : Settles(q, s, e)'
    BY <1>2 DEF StoreTally, Docs
  <2>1. CASE e # d
    BY <1>2, <1>5, <1>6, <2>1, OtherLoaders
  <2>2. CASE e = d
    BY <1>8, <2>2 DEF Settles
  <2> QED
    BY <2>1, <2>2
<1>10. RequestTally(r)'
  <2>1. copy'[r].loaders = stores'[s].loaders
    BY <1>2, <1>3, <1>4 DEF RequestTally
  <2>2. d \in torn' \/ ChunksOf(d)' = req'[r].pages \ req'[r].running
    <3>1. d \in torn \/ ChunksOf(d) = req[r].pages \ req[r].running
      BY <1>2, <1>3 DEF RequestTally
    <3> QED
      BY <1>1, <1>2, <1>4, <1>5, <1>6, <3>1
  <2> QED
    BY <1>8, <2>1, <2>2 DEF RequestTally
<1>11. RequestRefresh(r)'
  <2>1. /\ Refreshes(r)' => Refreshes(r)
        /\ Fetches(r)' /\ ~At(r, "next")' /\ req'[r].pc \notin {"list", "next"} /\ ~At(r, "next")
    BY <1>2, <1>4, <1>8 DEF Refreshes, Fetches, At, Busy
  <2> QED
    BY <1>2, <1>3, <1>4, <1>8, <2>1 DEF RequestRefresh, Docs
<1>12. IsStoreRow(copy'[r]) /\ req'[r].doc = DocOf(r) /\ torn' \subseteq torn
  BY <1>2, <1>3, <1>4
<1> QED
  BY <1>2, <1>4, <1>5, <1>7, <1>8, <1>9, <1>10, <1>11, <1>12, ChunksTally

(* A chunk that comes late is one of a loader that is torn.                *)
LEMMA InsertLateTallies ==
  ASSUME OrphanInv, OrphanInv', TallyInv, NEW r \in Request, InsertLate(r)
  PROVE  TallyInv'
<1>1. PICK c \in req[r].running : Inserted(r, c)
  BY DEF InsertLate
<1> PICK s : s = c.store
  OBVIOUS
<1>2. /\ ~Busy(r) /\ At(r, "late")
      /\ UNCHANGED <<stores, known, made, failures, torn>> /\ chunks' = chunks \cup {c}
  BY <1>1 DEF InsertLate, Inserted, Busy, At
<1>3. /\ RequestTally(r) /\ RequestRefresh(r) /\ IsStoreRow(copy[r]) /\ CountInv /\ HomeInv
      /\ c.doc \in torn
  BY <1>2 DEF TallyInv, CountInv, RequestTally
<1>4. /\ OnlyRequest(r, StoreOf(r)) /\ copy'[r] = copy[r]
      /\ req'[r].pc = "late" /\ req'[r].pages = req[r].pages
      /\ req'[r].todo = req[r].todo /\ req'[r].asked = req[r].asked
      /\ req'[r].running = req[r].running \ {c}
  BY <1>1, <1>2, InsertedLocals DEF At
<1>5. /\ c \in Chunk /\ c \in Filed /\ IsFiniteSet(chunks')
      /\ \A a, b \in chunks' : a.id = b.id => a = b
      /\ \A e : e # c.doc => ChunksOf(e)' = ChunksOf(e)
  BY <1>1, InsertedTable
<1>6. /\ s \in Store /\ Frame(s) /\ OnlyRequest(r, s) /\ Files(r)' /\ ~Busy(r)'
  BY <1>2, <1>4, <1>5 DEF Frame, OnlyRequest, Files, At, Busy, Chunk
<1>7. HomeInv'
  <2>1. \A d \in Loader : s \in DOMAIN stores' /\ d \in Docs(stores'[s]) => Claims(s, d)
    BY <1>2 DEF Claims, Docs
  <2>2. \A b \in chunks' \cup req'[r].pages : b \in Filed
    BY <1>2, <1>4, <1>5 DEF Filed
  <2> QED
    BY <1>3, <1>6, <2>1, <2>2, HomeKeeps
<1>8. CountInv'
  <2>1. /\ s \in DOMAIN stores' => IsStoreRow(stores'[s])
        /\ known' \subseteq Store \cup Loader /\ torn' \subseteq Loader
        /\ made' \in 0 .. MaxChunks /\ failures' \in 0 .. MaxFailures
        /\ IsFiniteSet(req'[r].pages) /\ \A b, x \in req'[r].pages : b.id = x.id => b = x
        /\ IsStoreRow(copy'[r])
    BY <1>2, <1>3, <1>4 DEF CountInv
  <2>2. \A b \in chunks' :
          \E x \in chunks \cup (req[r].running \ req'[r].running) : x.id = b.id
    BY <1>1, <1>2, <1>4
  <2>3. /\ \A b \in req'[r].pages : b \in req[r].pages
        /\ \A b \in req'[r].running : b \in req[r].running
    BY <1>4
  <2> QED
    BY <1>3, <1>5, <1>6, <2>1, <2>2, <2>3, CountKeeps
<1>9. \A q \in Request : q # r => req'[q] = req[q] /\ copy'[q] = copy[q]
  BY <1>4 DEF OnlyRequest, OrphanInv, RequestTypes
(* What a loader counts is as right as it was, but for a torn one.         *)
<1>10. \A loader, d : Tallies(loader, d) => Tallies(loader, d)'
  BY <1>2, <1>3, <1>5 DEF Tallies, Exact
<1>11. ASSUME NEW t \in Store PROVE StoreTally(t)'
  <2> SUFFICES ASSUME t \in DOMAIN stores, NEW d \in Docs(stores[t])
               PROVE  \/ Tallies(stores[t].loaders[d], d)'
                      \/ \E q \in Request : Settles(q, t, d)'
    BY <1>2 DEF StoreTally, Docs
  <2>1. Tallies(stores[t].loaders[d], d) \/ \E q \in Request : Settles(q, t, d)
    BY DEF TallyInv, StoreTally
  <2>2. ASSUME NEW q \in Request, Settles(q, t, d) PROVE Settles(q, t, d)'
    <3>1. q # r
      BY <1>2, <2>2 DEF Settles, At
    <3> QED
      BY <1>9, <2>2, <3>1 DEF Settles, StoreOf, DocOf, At
  <2>3. CASE Tallies(stores[t].loaders[d], d)
    <3> PICK loader : loader = stores[t].loaders[d]
      OBVIOUS
    <3>1. Tallies(loader, d)'
      BY <1>10, <2>3
    <3> QED
      BY <1>2, <3>1 DEF Tallies, Exact
  <2> QED
    BY <2>1, <2>2, <2>3
<1>12. ASSUME NEW q \in Request, q # r PROVE RequestTally(q)' /\ RequestRefresh(q)'
  <2>1. RequestTally(q) /\ RequestRefresh(q) /\ req'[q] = req[q] /\ copy'[q] = copy[q]
    BY <1>9, <1>12 DEF TallyInv
  <2> PICK d : d = DocOf(q)
    OBVIOUS
  <2>2. /\ StoreOf(q)' = StoreOf(q) /\ DocOf(q)' = d /\ stores' = stores /\ torn' = torn
        /\ CopyIsCurrent(q)' = CopyIsCurrent(q) /\ Counts(q)' = Counts(q)
        /\ Fetches(q)' = Fetches(q) /\ Refreshes(q)' = Refreshes(q)
        /\ FillsLoader(q)' = FillsLoader(q) /\ \A pc : At(q, pc)' = At(q, pc)
    BY <1>2, <2>1
    DEF FillsLoader, StoreOf, DocOf, CopyIsCurrent, Counts, Fetches, Refreshes, Splits, At, Busy
  <2>3. Counts(q) => \A loader : loader = copy'[q].loaders[d] => Tallies(loader, d)'
    BY <1>10, <2>1 DEF RequestTally
  <2>4. At(q, "insertChunks") => d \in torn \/ ChunksOf(d)' = req[q].pages \ req[q].running
    BY <1>3, <1>5, <2>1 DEF RequestTally
  <2>5. At(q, "changeChunk") => req[q].chunk \in chunks'
    BY <1>2, <2>1 DEF RequestTally
  <2>6. RequestTally(q)'
    BY <2>1, <2>2, <2>3, <2>4, <2>5 DEF RequestTally, Docs
  <2>7. RequestRefresh(q)'
    BY <2>1, <2>2 DEF RequestRefresh, Docs
  <2> QED
    BY <2>6, <2>7
<1>13. RequestTally(r)'
  BY <1>2, <1>3, <1>4 DEF RequestTally, CopyIsCurrent, Counts, FillsLoader, At
<1>14. RequestRefresh(r)'
  BY <1>3, <1>4 DEF RequestRefresh, Refreshes, Busy, At
<1> QED
  BY <1>7, <1>8, <1>11, <1>12, <1>13, <1>14 DEF TallyInv

(* A set of chunks without one of them, and with another in its place.     *)
LEMMA ChunkGone ==
  ASSUME NEW S, IsFiniteSet(S), \A c \in S : c.length \in Int, NEW x \in S
  PROVE  /\ Cardinality(S) \in Nat /\ Cardinality(S \ {x}) = Cardinality(S) - 1
         /\ CharsOf(S) \in Int /\ CharsOf(S \ {x}) = CharsOf(S) - x.length
<1>1. IsFiniteSet(S \ {x}) /\ Cardinality(S \ {x}) = Cardinality(S) - 1
  BY FS_RemoveElement
<1>2. Cardinality(S) \in Nat
  BY FS_CardinalityType
<1>3. CharsOf(S) \in Int /\ CharsOf(S \ {x}) \in Int
  BY <1>1, CharsOfType
<1>4. CharsOf(S) = x.length + CharsOf(S \ {x})
  BY CharsOfAdds
<1> PICK all : all = CharsOf(S)
  OBVIOUS
<1> PICK rest : rest = CharsOf(S \ {x})
  OBVIOUS
<1> PICK here : here = x.length
  OBVIOUS
<1>5. all \in Int /\ rest \in Int /\ here \in Int /\ all = here + rest
  BY <1>3, <1>4
<1>6. rest = all - here
  BY <1>5
<1> QED
  BY <1>1, <1>2, <1>3, <1>6

LEMMA ChunkReplaced ==
  ASSUME NEW S, IsFiniteSet(S), \A c \in S : c.length \in Int, NEW x \in S,
         NEW y, y.length \in Int, y \notin S \ {x}, NEW T, T = (S \ {x}) \cup {y}
  PROVE  /\ Cardinality(T) = Cardinality(S)
         /\ CharsOf(T) = CharsOf(S) + (y.length - x.length)
<1>1. T \ {y} = S \ {x} /\ y \in T /\ \A c \in T : c.length \in Int
  OBVIOUS
<1>2. IsFiniteSet(T)
  BY FS_RemoveElement, FS_AddElement
<1>3. /\ Cardinality(T) \in Nat /\ Cardinality(T \ {y}) = Cardinality(T) - 1
      /\ CharsOf(T) \in Int /\ CharsOf(T \ {y}) = CharsOf(T) - y.length
  BY <1>1, <1>2, ChunkGone
<1>4. /\ Cardinality(S) \in Nat /\ Cardinality(S \ {x}) = Cardinality(S) - 1
      /\ CharsOf(S) \in Int /\ CharsOf(S \ {x}) = CharsOf(S) - x.length
  BY ChunkGone
<1>5. Cardinality(T) = Cardinality(S)
  <2> PICK m : m = Cardinality(T)
    OBVIOUS
  <2> PICK n : n = Cardinality(S)
    OBVIOUS
  <2>1. m \in Nat /\ n \in Nat /\ m - 1 = n - 1
    BY <1>1, <1>3, <1>4
  <2>2. m = n
    BY <2>1
  <2> QED
    BY <2>2
<1>6. CharsOf(T) - y.length = CharsOf(S) - x.length
  BY <1>1, <1>3, <1>4
<1> PICK there : there = y.length
  OBVIOUS
<1> PICK here : here = x.length
  OBVIOUS
<1>7. CharsOf(T) = CharsOf(S) + (there - here)
  <2>1. there \in Int /\ here \in Int
    OBVIOUS
  <2> QED
    BY <1>3, <1>4, <1>6, <2>1
<1> QED
  BY <1>5, <1>7

(* The totals that go with the change.                                     *)
LEMMA Recounted ==
  ASSUME NEW loader \in LoaderRow, NEW number \in Int, NEW chars \in Int
  PROVE  /\ Recount(loader, number, chars) \in LoaderRow
         /\ Recount(loader, number, chars).status = loader.status
         /\ Recount(loader, number, chars).totalChunks = loader.totalChunks + number
         /\ Recount(loader, number, chars).totalChars = loader.totalChars + chars
<1> PICK a : a = loader.totalChunks + number
  OBVIOUS
<1> PICK b : b = loader.totalChars + chars
  OBVIOUS
<1> PICK new : new = Recount(loader, number, chars)
  OBVIOUS
<1>1. loader.totalChunks \in Int /\ loader.totalChars \in Int
  BY DEF LoaderRow
<1>2. a \in Int /\ b \in Int
  BY <1>1
<1>3. new = [loader EXCEPT !.totalChunks = a, !.totalChars = b]
  BY Zenon DEF Recount
<1>4. /\ new \in LoaderRow /\ new.status = loader.status
      /\ new.totalChunks = a /\ new.totalChars = b
  BY <1>2, <1>3 DEF LoaderRow
<1> QED
  BY <1>4

(* What must be shown of the chunk that changes.                           *)
LEMMA CountedTallies ==
  ASSUME NEW loader \in LoaderRow, NEW d, Tallies(loader, d), torn' = torn,
         NEW number \in Int, NEW chars \in Int,
         Cardinality(ChunksOf(d)) \in Nat,
         Cardinality(ChunksOf(d))' = Cardinality(ChunksOf(d)) + number,
         CharsOf(ChunksOf(d)) \in Int,
         CharsOf(ChunksOf(d))' = CharsOf(ChunksOf(d)) + chars
  PROVE  Tallies(Recount(loader, number, chars), d)'
<1> PICK new : new = Recount(loader, number, chars)
  OBVIOUS
<1>1. /\ new.status = loader.status
      /\ new.totalChunks = loader.totalChunks + number
      /\ new.totalChars = loader.totalChars + chars
  BY Recounted
<1>2. new.status = "SYNC" => d \in torn \/
        /\ new.totalChunks = Cardinality(ChunksOf(d))'
        /\ new.totalChars = CharsOf(ChunksOf(d))'
  BY <1>1 DEF Tallies, Exact
<1>3. Tallies(new, d)'
  BY <1>2 DEF Tallies, Exact
<1> QED
  BY <1>3

(* The chunk of a deletion or an edit, and what becomes of the table.      *)
LEMMA ChangedChunk ==
  ASSUME OrphanInv, OrphanInv', TallyInv, NEW r \in Request, At(r, "changeChunk"),
         UNCHANGED <<stores, known, made, failures, torn>>,
         NEW s, s = StoreOf(r), NEW d, d = DocOf(r), NEW c, c = req[r].chunk,
         NEW loader, loader = stores[s].loaders[d],
         NEW number \in Int, NEW chars \in Int,
         Becomes(r, [req[r] EXCEPT !.pc = "write"],
                 With(copy[r], d, Recount(copy[r].loaders[d], number, chars))),
         \A b \in chunks' : b.id # c.id => b \in chunks,
         \A b \in chunks : b.id # c.id => b \in chunks',
         \A b \in chunks' : b.id = c.id => b.doc = d /\ b.store = s,
         \A a, b \in chunks' : a.id = c.id /\ b.id = c.id => a = b,
         IsFiniteSet(chunks'),
         Cardinality(ChunksOf(d)) \in Nat,
         Cardinality(ChunksOf(d))' = Cardinality(ChunksOf(d)) + number,
         CharsOf(ChunksOf(d)) \in Int,
         CharsOf(ChunksOf(d))' = CharsOf(ChunksOf(d)) + chars
  PROVE  TallyInv'
<1> DEFINE locals == [req[r] EXCEPT !.pc = "write"]
<1> PICK row : row = With(copy[r], d, Recount(copy[r].loaders[d], number, chars))
  OBVIOUS
<1>1. /\ Busy(r) /\ CopyIsCurrent(r) /\ ~Counts(r) /\ LoaderIsListed(r)
      /\ \A e : ~Settles(r, s, e) /\ ~Files(r)
  BY DEF Busy, At, CopyIsCurrent, Counts, LoaderIsListed, Settles, Files, Splits
<1>2. /\ req[r] \in RequestRow /\ RequestInv(r) /\ Docs(copy[r]) \subseteq Loader
      /\ RequestTally(r) /\ CountInv /\ s \in DOMAIN stores /\ s \in Store /\ Alone(r, s)
      /\ Docs(stores[s]) \subseteq Loader /\ d \in Docs(stores[s]) /\ req[r].pages = {}
      /\ IsStoreRow(copy[r]) /\ RequestRefresh(r)
  BY <1>1, RequestRowFacts, BusyFacts DEF RequestInv, OrphanInv, TablesInv, TallyInv, CountInv
<1>3. /\ c \in chunks /\ c.doc = d /\ c.store = s
      /\ req[r].kind \in {"deleteChunk", "editChunk"} /\ copy[r].loaders = stores[s].loaders
  BY <1>1, <1>2 DEF RequestInv, RequestTally, At
<1>4. loader \in LoaderRow /\ Tallies(loader, d)
  <2>1. loader \in LoaderRow
    BY <1>2 DEF CountInv, IsStoreRow, Docs
  <2> QED
    BY <1>1, <1>2, <2>1, OwnTallies
<1> PICK new : new = Recount(loader, number, chars)
  OBVIOUS
<1>5. /\ new \in LoaderRow /\ IsStoreRow(row)
      /\ Docs(row) = Docs(stores[s]) /\ row.loaders[d] = new
      /\ \A e \in Docs(stores[s]) : e # d => row.loaders[e] = stores[s].loaders[e]
  <2>1. new \in LoaderRow /\ row = With(copy[r], d, new) /\ Docs(copy[r]) = Docs(stores[s])
    BY <1>3, <1>4, Recounted DEF Docs
  <2>2. d \in Loader
    BY <1>2
  <2>3. IsStoreRow(row)
    BY <1>2, <2>1, <2>2, RowTypes
  <2>4. /\ Docs(row) = Docs(copy[r]) \cup {d} /\ row.loaders[d] = new
        /\ \A e \in Docs(copy[r]) : e # d => row.loaders[e] = copy[r].loaders[e]
    BY <2>1, DocsOfRows, RowLoaders
  <2> QED
    BY <1>2, <1>3, <2>1, <2>3, <2>4
<1>6. Tallies(new, d)'
  BY <1>4, CountedTallies
<1>7. /\ locals \in RequestRow /\ locals.pc = "write" /\ locals.kind = req[r].kind
      /\ locals.store = s /\ locals.doc = d /\ locals.pages = {}
      /\ locals.todo = req[r].todo /\ locals.asked = req[r].asked
      /\ locals.running = req[r].running
  BY <1>2 DEF RequestRow, StoreOf, DocOf, Pcs
<1> HIDE DEF locals
<1>8. OnlyRequest(r, s) /\ req'[r] = locals /\ copy'[r] = row
  <2>1. Becomes(r, locals, row)
    BY DEF locals
  <2> QED
    BY <1>2, <1>5, <1>7, <2>1, MoveIsLocal
<1>9. /\ StoreOf(r)' = s /\ DocOf(r)' = d /\ At(r, "write")' /\ Counts(r)'
      /\ req'[r].kind = req[r].kind /\ req'[r].pages = {} /\ req'[r].todo = req[r].todo
      /\ req'[r].asked = req[r].asked /\ req'[r].running = req[r].running
  BY <1>3, <1>7, <1>8 DEF StoreOf, DocOf, At, Counts
<1>10. /\ \A b \in chunks' : b \in chunks \/ b.store = s
       /\ Others(s)
       /\ \A a, b \in chunks' : a.id = b.id => a = b
       /\ \A b \in chunks' : \E x \in chunks : SameRow(x, b)
  <2>1. \A b \in chunks : b.id = c.id => b.store = s
    BY <1>2, <1>3 DEF CountInv
  <2>3. \A b \in chunks' : \E x \in chunks : SameRow(x, b)
    BY <1>3 DEF SameRow
  <2>2. \A a, b \in chunks' : a.id = b.id => a = b
    <3>1. \A a, b \in chunks : a.id = b.id => a = b
      BY <1>2 DEF CountInv
    <3> QED
      BY <3>1
  <2> QED
    BY <2>1, <2>2, <2>3 DEF Others
<1>11. StoreTally(s)'
  <2> SUFFICES ASSUME NEW e \in Docs(stores[s])
               PROVE  \/ Tallies(stores[s].loaders[e], e)'
                      \/ \E q \in Request : Settles(q, s, e)'
    BY DEF StoreTally, Docs
  <2>1. CASE e # d
    <3>1. \A b \in chunks : b.id = c.id => b.doc = d
      BY <1>2, <1>3 DEF CountInv
    <3>2. ChunksOf(e)' = ChunksOf(e)
      BY <2>1, <3>1 DEF ChunksOf
    <3> QED
      BY <1>1, <1>2, <3>2, OtherLoaders
  <2>2. CASE e = d
    <3>1. Settles(r, s, e)'
      BY <1>3, <1>9, <2>2 DEF Settles
    <3> QED
      BY <3>1
  <2> QED
    BY <2>1, <2>2
<1>12. RequestTally(r)'
  <2>1. /\ d \in Docs(stores'[s]) /\ copy'[r].loaders[d] = new
        /\ \A e \in Docs(stores'[s]) : e # d => copy'[r].loaders[e] = stores'[s].loaders[e]
    BY <1>2, <1>5, <1>8
  <2>2. Tallies(copy[r].loaders[d], d)'
    BY <1>6, <2>1
  <2>3. /\ ~At(r, "insertChunks")' /\ ~At(r, "changeChunk")' /\ ~FillsLoader(r)'
        /\ ~At(r, "late")' /\ ~At(r, "dropChunks")' /\ d \in Loader
    BY <1>2, <1>9 DEF At, FillsLoader
  <2> QED
    BY <1>9, <2>1, <2>2, <2>3 DEF RequestTally, Docs
<1>13. RequestRefresh(r)'
  BY <1>2, <1>3, <1>9 DEF RequestRefresh, Refreshes, At
<1>14. /\ IsStoreRow(copy'[r]) /\ req'[r].pages = req[r].pages /\ req'[r].doc = DocOf(r)
       /\ req'[r].running = req[r].running /\ Healed(s)
  BY <1>2, <1>5, <1>7, <1>8, <1>9 DEF Healed
<1> QED
  BY <1>1, <1>2, <1>8, <1>9, <1>10, <1>11, <1>12, <1>13, <1>14, ChunksTally

LEMMA ChangeChunkTallies ==
  ASSUME OrphanInv, OrphanInv', TallyInv, NEW r \in Request, ChangeChunk(r)
  PROVE  TallyInv'
<1> PICK s : s = StoreOf(r)
  OBVIOUS
<1> PICK d : d = DocOf(r)
  OBVIOUS
<1> PICK c : c = req[r].chunk
  OBVIOUS
<1> PICK all : all = ChunksOf(d)
  OBVIOUS
<1>1. At(r, "changeChunk") /\ UNCHANGED <<stores, known, made, failures, torn>>
  BY DEF ChangeChunk
<1>2. /\ c \in chunks /\ c.doc = d /\ c.store = s /\ IsFiniteSet(chunks)
      /\ \A a, b \in chunks : a.id = b.id => a = b
      /\ chunks \subseteq Chunk /\ Length \subseteq Int /\ c \in Chunk
      /\ req[r].kind \in {"deleteChunk", "editChunk"}
  BY <1>1, RequestRowFacts, StoreConstants
  DEF RequestInv, OrphanInv, TablesInv, TallyInv, CountInv, RequestTally, At
<1>3. /\ IsFiniteSet(all) /\ c \in all /\ \A b \in all : b.length \in Int
      /\ c.length \in Int /\ all \subseteq chunks
  <2>1. \A b \in Chunk : b.length \in Int
    BY <1>2 DEF Chunk
  <2> QED
    BY <1>2, <2>1, FS_Subset DEF ChunksOf
<1>4. /\ Cardinality(all) \in Nat /\ Cardinality(all \ {c}) = Cardinality(all) - 1
      /\ CharsOf(all) \in Int /\ CharsOf(all \ {c}) = CharsOf(all) - c.length
  BY <1>3, ChunkGone
<1> PICK others : others = {x \in chunks : x.id # c.id}
  OBVIOUS
<1>5. others = chunks \ {c} /\ IsFiniteSet(others)
  BY <1>2, FS_RemoveElement
<1>6. CASE req[r].kind = "deleteChunk"
  <2>1. /\ chunks' = others
        /\ Becomes(r, [req[r] EXCEPT !.pc = "write"],
                   With(copy[r], d, Recount(copy[r].loaders[d], -1, - c.length)))
    BY <1>6 DEF ChangeChunk
  <2>2. ChunksOf(d)' = all \ {c}
    BY <1>5, <2>1 DEF ChunksOf
  <2> PICK chars : chars = - c.length
    OBVIOUS
  <2> PICK number : number = -1
    OBVIOUS
  <2>3. chars \in Int /\ CharsOf(all) + chars = CharsOf(all) - c.length
    BY <1>3, <1>4
  <2>4. /\ Cardinality(ChunksOf(d)) \in Nat /\ CharsOf(ChunksOf(d)) \in Int
        /\ Cardinality(ChunksOf(d))' = Cardinality(ChunksOf(d)) + number
        /\ CharsOf(ChunksOf(d))' = CharsOf(ChunksOf(d)) + chars
    BY <1>4, <2>2, <2>3
  <2>5. /\ \A b \in chunks' : b.id # c.id => b \in chunks
        /\ \A b \in chunks : b.id # c.id => b \in chunks'
        /\ \A b \in chunks' : b.id # c.id
    BY <2>1
  <2>6. /\ \A b \in chunks' : b.id = c.id => b.doc = d /\ b.store = s
        /\ \A a, b \in chunks' : a.id = c.id /\ b.id = c.id => a = b
        /\ IsFiniteSet(chunks')
    BY <1>5, <2>1, <2>5
  <2>7. number \in Int
    OBVIOUS
  <2>8. Becomes(r, [req[r] EXCEPT !.pc = "write"],
                With(copy[r], d, Recount(copy[r].loaders[d], number, chars)))
    BY <2>1
  <2> QED
    BY <1>1, <2>3, <2>4, <2>5, <2>6, <2>7, <2>8, ChangedChunk
<1>7. CASE req[r].kind = "editChunk"
  <2>1. PICK length \in Length :
          /\ chunks' = others \cup {[c EXCEPT !.length = length]}
          /\ Becomes(r, [req[r] EXCEPT !.pc = "write"],
                     With(copy[r], d, Recount(copy[r].loaders[d], 0, length - c.length)))
    BY <1>7 DEF ChangeChunk
  <2>a. PICK new : new = [c EXCEPT !.length = length]
    OBVIOUS
  <2>2. /\ new.id = c.id /\ new.doc = d /\ new.store = s /\ new.length = length
        /\ length \in Int
    BY <1>2, <2>a DEF Chunk
  <2>3. ChunksOf(d)' = (all \ {c}) \cup {new}
    BY <1>5, <2>1, <2>2, <2>a DEF ChunksOf
  <2>4. new \notin all \ {c}
    BY <1>2, <1>3, <2>2
  <2> PICK now : now = (all \ {c}) \cup {new}
    OBVIOUS
  <2>5. /\ Cardinality(now) = Cardinality(all)
        /\ CharsOf(now) = CharsOf(all) + (new.length - c.length)
    <3>1. new.length \in Int
      BY <2>2
    <3> QED
      BY <1>3, <2>4, <3>1, ChunkReplaced
  <2> PICK chars : chars = length - c.length
    OBVIOUS
  <2>6. chars \in Int
    BY <1>3, <2>2
  <2>7. /\ Cardinality(ChunksOf(d)) \in Nat /\ CharsOf(ChunksOf(d)) \in Int
        /\ Cardinality(ChunksOf(d))' = Cardinality(ChunksOf(d)) + 0
        /\ CharsOf(ChunksOf(d))' = CharsOf(ChunksOf(d)) + chars
    BY <1>4, <2>2, <2>3, <2>5
  <2>8. /\ \A b \in chunks' : b.id # c.id => b \in chunks
        /\ \A b \in chunks : b.id # c.id => b \in chunks'
        /\ \A b \in chunks' : b.id = c.id => b = new
    BY <2>1, <2>2, <2>a
  <2>9. IsFiniteSet(chunks')
    BY <1>5, <2>1, FS_AddElement
  <2>10. /\ \A b \in chunks' : b.id = c.id => b.doc = d /\ b.store = s
         /\ \A a, b \in chunks' : a.id = c.id /\ b.id = c.id => a = b
    BY <2>2, <2>8
  <2> QED
    BY <1>1, <2>1, <2>6, <2>7, <2>8, <2>9, <2>10, ChangedChunk
<1> QED
  BY <1>2, <1>6, <1>7

-----------------------------------------------------------------------------
(* The steps that begin a request keep the counts.                         *)

LEMMA BeginTallies ==
  ASSUME Overlap = FALSE, OrphanInv, OrphanInv', TallyInv, NEW r \in Request, NEW s \in Store,
         Begins(r, s), UNCHANGED <<stores, chunks, made, failures, torn>>,
         known \subseteq known', known' \subseteq Store \cup Loader,
         NEW locals \in RequestRow, NEW row, IsStoreRow(row), Becomes(r, locals, row),
         locals.store = s, locals.pages = {}, locals.todo = locals.asked,
         locals.pc \in {"create", "readForSave", "readForProcess", "list", "next",
                        "readForConfig", "read"},
         locals.kind = "refresh" <=> locals.pc \in {"list", "next"},
         locals.pc \in {"readForSave", "readForProcess"} =>
           locals.kind \in {"save", "process", "upsert"},
         locals.pc = "create" => locals.kind \in {"create", "upsert"},
         locals.pc = "next" =>
           s \in DOMAIN stores /\ locals.todo \ locals.added \subseteq Docs(stores[s]),
         locals.pc = "read" /\ locals.kind = "touch" =>
           s \in DOMAIN stores /\ row.loaders = stores[s].loaders,
         \A d \in Loader : d = locals.doc \/ d \in locals.todo =>
           Claims(s, d) \/ Fresh(d) \/ Homed(s, d)
  PROVE  TallyInv'
<1>1. req \in [Request -> RequestRow] /\ copy = [q \in Request |-> copy[q]]
  BY DEF OrphanInv, RequestTypes
<1>2. /\ req' = [req EXCEPT ![r] = req'[r]] /\ copy' = [copy EXCEPT ![r] = copy'[r]]
      /\ req'[r] = locals /\ copy'[r] = row
  BY <1>1 DEF Becomes
<1>3. OnlyRequest(r, s)
  BY <1>1, <1>2 DEF OnlyRequest, Docs, IsStoreRow
<1>4. Alone(r, s) /\ ~Busy(r) /\ \A d : ~Settles(r, s, d)
  BY DEF Begins, Undisturbed, Alone, StoreOf, Busy, Settles, At
<1>5. /\ failures' \in 0 .. MaxFailures /\ IsStoreRow(copy'[r])
      /\ torn \subseteq torn' /\ torn' \subseteq Loader
  BY <1>2 DEF TallyInv, CountInv
<1>6. RequestTally(r)'
  <2>a. /\ req'[r].pc = locals.pc /\ req'[r].kind = locals.kind /\ StoreOf(r)' = s
    BY <1>2 DEF StoreOf
  <2>1. /\ ~Counts(r)' /\ ~At(r, "insertChunks")' /\ ~At(r, "changeChunk")'
        /\ ~At(r, "dropChunks")' /\ ~At(r, "late")' /\ ~At(r, "write")'
        /\ CopyIsCurrent(r)' => locals.pc = "read" /\ locals.kind = "touch"
    BY <2>a DEF CopyIsCurrent, Counts, At
  <2>2. FillsLoader(r)' => req'[r].kind \in {"save", "process", "upsert", "refresh"}
    BY <2>a DEF FillsLoader, At
  <2>3. CopyIsCurrent(r)' => copy'[r].loaders = stores'[s].loaders
    BY <1>2, <2>1
  <2> QED
    BY <2>a, <2>1, <2>2, <2>3 DEF RequestTally
<1>7. RequestRefresh(r)'
  <2>1. /\ req'[r].pc = locals.pc /\ req'[r].kind = locals.kind /\ StoreOf(r)' = s
        /\ req'[r].todo = locals.todo /\ req'[r].asked = locals.todo
        /\ req'[r].added = locals.added
    BY <1>2 DEF StoreOf
  <2>2. Refreshes(r)' => locals.pc = "next"
    BY <2>1 DEF Refreshes, At
  <2>3. req'[r].asked \ req'[r].todo = {}
    BY <2>1
  <2> QED
    BY <2>1, <2>2, <2>3 DEF RequestRefresh, At, Docs
<1>8. \A d \in Loader : d = req'[r].doc \/ d \in req'[r].todo =>
        Claims(s, d) \/ Fresh(d) \/ Homed(s, d)
  BY <1>2
<1> QED
  BY <1>2, <1>3, <1>4, <1>5, <1>6, <1>7, <1>8, LookTallies

(* A request that begins without a row, and about one loader at most.      *)
LEMMA BeginBlankTallies ==
  ASSUME Overlap = FALSE, OrphanInv, OrphanInv', TallyInv, NEW r \in Request, NEW s \in Store,
         Begins(r, s), UNCHANGED <<stores, chunks, made, failures, torn>>,
         known \subseteq known', known' \subseteq Store \cup Loader,
         NEW locals \in RequestRow, Moves(r, locals),
         locals.store = s, locals.pages = {}, locals.todo = {}, locals.asked = {},
         locals.pc \in {"create", "readForSave", "readForProcess", "list",
                        "readForConfig", "read"},
         locals.kind = "refresh" <=> locals.pc = "list",
         locals.kind # "touch",
         locals.pc \in {"readForSave", "readForProcess"} =>
           locals.kind \in {"save", "process", "upsert"},
         locals.pc = "create" => locals.kind \in {"create", "upsert"},
         locals.doc \in Loader =>
           Claims(s, locals.doc) \/ Fresh(locals.doc) \/ Homed(s, locals.doc)
  PROVE  TallyInv'
<1>1. IsStoreRow(copy[r]) /\ Becomes(r, locals, copy[r])
  BY DEF TallyInv, CountInv, Moves
<1>2. /\ locals.kind = "refresh" <=> locals.pc \in {"list", "next"}
      /\ locals.pc # "next" /\ locals.todo = locals.asked
      /\ \A d \in Loader : d = locals.doc \/ d \in locals.todo =>
           Claims(s, d) \/ Fresh(d) \/ Homed(s, d)
  OBVIOUS
<1> QED
  BY <1>1, <1>2, BeginTallies

LEMMA BeginNewStoreTallies ==
  ASSUME Overlap = FALSE, OrphanInv, OrphanInv', TallyInv, NEW r \in Request, NEW s \in Store,
         BeginNewStore(r, s)
  PROVE  TallyInv'
<1>1. Begins(r, s) /\ UNCHANGED <<stores, chunks, made, failures, torn>>
  BY DEF BeginNewStore
<1>2. known \subseteq Store \cup Loader
  BY DEF TallyInv, CountInv
<1>3. CASE Asks(r, "create", "create", s, NoLoader) /\ known' = known \cup {s}
  <2> DEFINE locals == [Idle EXCEPT !.pc = "create", !.kind = "create", !.store = s,
                                    !.doc = NoLoader]
  <2>1. /\ locals \in RequestRow /\ locals.pc = "create" /\ locals.kind = "create"
        /\ locals.store = s /\ locals.pages = {} /\ locals.todo = {} /\ locals.asked = {}
        /\ locals.doc = NoLoader
    BY DEF RequestRow, Idle, Pcs, Kinds
  <2>2. Moves(r, locals)
    BY <1>3 DEF Asks
  <2> HIDE DEF locals
  <2>3. locals.doc \notin Loader
    BY <2>1, StoreDistinct
  <2> QED
    BY <1>1, <1>2, <1>3, <2>1, <2>2, <2>3, BeginBlankTallies
<1>4. CASE \E d \in Loader \ known :
             Asks(r, "upsert", "create", s, d) /\ known' = known \cup {s, d}
  <2>1. PICK d \in Loader \ known :
          Asks(r, "upsert", "create", s, d) /\ known' = known \cup {s, d}
    BY <1>4
  <2> DEFINE locals == [Idle EXCEPT !.pc = "create", !.kind = "upsert", !.store = s, !.doc = d]
  <2>2. /\ locals \in RequestRow /\ locals.pc = "create" /\ locals.kind = "upsert"
        /\ locals.store = s /\ locals.pages = {} /\ locals.todo = {} /\ locals.asked = {}
        /\ locals.doc = d
    BY DEF RequestRow, Idle, Pcs, Kinds
  <2>3. Moves(r, locals)
    BY <2>1 DEF Asks
  <2> HIDE DEF locals
  <2>4. Fresh(locals.doc)
    BY <2>1, <2>2 DEF Fresh
  <2> QED
    BY <1>1, <1>2, <2>1, <2>2, <2>3, <2>4, BeginBlankTallies
<1> QED
  BY <1>3, <1>4 DEF BeginNewStore

LEMMA BeginLoaderTallies ==
  ASSUME Overlap = FALSE, OrphanInv, OrphanInv', TallyInv, NEW r \in Request, NEW s \in Store,
         NEW d \in Loader, NEW kind \in Kinds, BeginLoader(r, s, d, kind)
  PROVE  TallyInv'
<1> DEFINE locals == [Idle EXCEPT !.pc = "readForSave", !.kind = kind, !.store = s, !.doc = d]
<1>1. /\ Begins(r, s) /\ Moves(r, locals) /\ known' = known \cup {d}
      /\ UNCHANGED <<stores, chunks, made, failures, torn>> /\ kind \in {"save", "upsert"}
  BY DEF BeginLoader, Asks
<1>2. known \subseteq Store \cup Loader
  BY DEF TallyInv, CountInv
<1>3. /\ locals \in RequestRow /\ locals.pc = "readForSave" /\ locals.doc = d
      /\ locals.kind = kind /\ locals.store = s /\ locals.pages = {} /\ locals.todo = {}
      /\ locals.asked = {}
  BY DEF RequestRow, Idle, Pcs
<1> HIDE DEF locals
<1>4. Claims(s, d) \/ Fresh(d)
  BY <1>1 DEF BeginLoader, Claims, Fresh
<1> QED
  BY <1>1, <1>2, <1>3, <1>4, BeginBlankTallies

LEMMA BeginOnStoreTallies ==
  ASSUME Overlap = FALSE, OrphanInv, OrphanInv', TallyInv, NEW r \in Request, NEW s \in Store,
         NEW kind \in Kinds, BeginOnStore(r, s, kind)
  PROVE  TallyInv'
<1> DEFINE pc == CASE kind = "refresh" -> "list"
                   [] kind \in {"insert", "config"} -> "readForConfig"
                   [] OTHER -> "read"
           locals == [Idle EXCEPT !.pc = pc, !.kind = kind, !.store = s, !.doc = NoLoader]
<1>1. /\ Begins(r, s) /\ Moves(r, locals)
      /\ UNCHANGED <<stores, chunks, made, known, failures, torn>>
  BY DEF BeginOnStore, Asks
<1>2. known \subseteq Store \cup Loader
  BY DEF TallyInv, CountInv
<1>3. /\ pc \in {"list", "readForConfig", "read"}
      /\ kind = "refresh" <=> pc = "list"
      /\ kind # "touch"
  BY DEF BeginOnStore
<1> HIDE DEF pc
<1>4. /\ locals \in RequestRow /\ locals.pc = pc /\ locals.kind = kind
      /\ locals.store = s /\ locals.pages = {} /\ locals.todo = {} /\ locals.asked = {}
      /\ locals.doc = NoLoader
  BY <1>3 DEF RequestRow, Idle, Pcs
<1> HIDE DEF locals
<1>5. locals.doc \notin Loader
  BY <1>4, StoreDistinct
<1> QED
  BY <1>1, <1>2, <1>3, <1>4, <1>5, BeginBlankTallies

LEMMA BeginProcessTallies ==
  ASSUME Overlap = FALSE, OrphanInv, OrphanInv', TallyInv, NEW r \in Request, NEW s \in Store,
         NEW d \in Loader, BeginProcess(r, s, d)
  PROVE  TallyInv'
<1> DEFINE locals == [Idle EXCEPT !.pc = "readForProcess", !.kind = "process", !.store = s,
                                  !.doc = d]
<1>1. /\ Begins(r, s) /\ Moves(r, locals)
      /\ UNCHANGED <<stores, chunks, made, known, failures, torn>>
  BY DEF BeginProcess, Asks
<1>2. known \subseteq Store \cup Loader
  BY DEF TallyInv, CountInv
<1>3. /\ locals \in RequestRow /\ locals.pc = "readForProcess" /\ locals.kind = "process"
      /\ locals.store = s /\ locals.doc = d /\ locals.pages = {} /\ locals.todo = {}
      /\ locals.asked = {}
  BY DEF RequestRow, Idle, Pcs, Kinds
<1> HIDE DEF locals
<1>4. Claims(s, d)
  BY DEF BeginProcess, Claims
<1> QED
  BY <1>1, <1>2, <1>3, <1>4, BeginBlankTallies

LEMMA BeginRefreshOfTallies ==
  ASSUME Overlap = FALSE, OrphanInv, OrphanInv', TallyInv, NEW r \in Request, NEW s \in Store,
         NEW asked \in SUBSET Loader, BeginRefreshOf(r, s, asked)
  PROVE  TallyInv'
<1> DEFINE locals == [Idle EXCEPT !.pc = "next", !.kind = "refresh", !.store = s, !.asked = asked,
                                  !.added = asked \ known, !.todo = asked]
<1>1. /\ Begins(r, s) /\ Moves(r, locals) /\ s \in DOMAIN stores
      /\ known' = known \cup asked /\ asked \cap known \subseteq Docs(stores[s])
      /\ UNCHANGED <<stores, chunks, made, failures, torn>>
  BY DEF BeginRefreshOf
<1>2. known' \subseteq Store \cup Loader /\ IsStoreRow(copy[r])
  BY <1>1 DEF TallyInv, CountInv
<1>3. /\ locals \in RequestRow /\ locals.pc = "next" /\ locals.kind = "refresh"
      /\ locals.store = s /\ locals.doc = NoLoader /\ locals.pages = {}
      /\ locals.todo = asked /\ locals.asked = asked /\ locals.added = asked \ known
  BY DEF RequestRow, Idle, Pcs, Kinds
<1>4. Becomes(r, locals, copy[r])
  BY <1>1 DEF Moves
<1> HIDE DEF locals
<1>5. \A d \in asked : Claims(s, d) \/ Fresh(d)
  BY <1>1 DEF Claims, Fresh
<1>6. /\ locals.todo \ locals.added \subseteq Docs(stores[s])
      /\ \A d \in Loader : d = locals.doc \/ d \in locals.todo =>
           Claims(s, d) \/ Fresh(d) \/ Homed(s, d)
  BY <1>1, <1>3, <1>5, StoreDistinct
<1> QED
  BY <1>1, <1>2, <1>3, <1>4, <1>6, BeginTallies

LEMMA BeginTouchTallies ==
  ASSUME Overlap = FALSE, OrphanInv, OrphanInv', TallyInv, NEW r \in Request, NEW s \in Store,
         BeginTouch(r, s)
  PROVE  TallyInv'
<1> DEFINE locals == [Idle EXCEPT !.pc = "read", !.kind = "touch", !.store = s]
<1>1. /\ Begins(r, s) /\ Becomes(r, locals, stores[s]) /\ s \in DOMAIN stores
      /\ UNCHANGED <<stores, chunks, made, known, failures, torn>>
  BY DEF BeginTouch
<1>2. known \subseteq Store \cup Loader /\ IsStoreRow(stores[s])
  BY <1>1 DEF TallyInv, CountInv
<1>3. /\ locals \in RequestRow /\ locals.pc = "read" /\ locals.kind = "touch"
      /\ locals.store = s /\ locals.doc = NoLoader /\ locals.pages = {}
      /\ locals.todo = {} /\ locals.asked = {}
  BY DEF RequestRow, Idle, Pcs, Kinds
<1> HIDE DEF locals
<1>4. \A d \in Loader : ~ (d = locals.doc \/ d \in locals.todo)
  BY <1>3, StoreDistinct
<1> QED
  BY <1>1, <1>2, <1>3, <1>4, BeginTallies

LEMMA BeginDeleteLoaderTallies ==
  ASSUME Overlap = FALSE, OrphanInv, OrphanInv', TallyInv, NEW r \in Request, NEW s \in Store,
         NEW d \in Loader, BeginDeleteLoader(r, s, d)
  PROVE  TallyInv'
<1> DEFINE locals == [Idle EXCEPT !.pc = "read", !.kind = "deleteLoader", !.store = s, !.doc = d]
<1>1. /\ Begins(r, s) /\ Moves(r, locals)
      /\ UNCHANGED <<stores, chunks, made, known, failures, torn>>
  BY DEF BeginDeleteLoader, Asks
<1>2. known \subseteq Store \cup Loader
  BY DEF TallyInv, CountInv
<1>3. /\ locals \in RequestRow /\ locals.pc = "read" /\ locals.kind = "deleteLoader"
      /\ locals.store = s /\ locals.pages = {} /\ locals.todo = {} /\ locals.asked = {}
      /\ locals.doc = d
  BY DEF RequestRow, Idle, Pcs, Kinds
<1> HIDE DEF locals
<1>4. Claims(s, d)
  BY DEF BeginDeleteLoader, Claims
<1> QED
  BY <1>1, <1>2, <1>3, <1>4, BeginBlankTallies

LEMMA BeginOnChunkTallies ==
  ASSUME Overlap = FALSE, OrphanInv, OrphanInv', TallyInv, NEW r \in Request, NEW c \in chunks,
         NEW kind \in Kinds, BeginOnChunk(r, c, kind)
  PROVE  TallyInv'
<1> DEFINE locals == [Idle EXCEPT !.pc = "read", !.kind = kind, !.store = c.store,
                                  !.doc = c.doc, !.chunk = c]
<1>1. /\ Begins(r, c.store) /\ Moves(r, locals) /\ kind \in {"deleteChunk", "editChunk"}
      /\ UNCHANGED <<stores, chunks, made, known, failures, torn>>
  BY DEF BeginOnChunk
<1>2. c \in Chunk /\ c.store \in Store /\ c.doc \in Loader /\ known \subseteq Store \cup Loader
  BY DEF OrphanInv, TablesInv, Chunk, TallyInv, CountInv
<1>3. /\ locals \in RequestRow /\ locals.pc = "read" /\ locals.kind = kind
      /\ locals.store = c.store /\ locals.doc = c.doc /\ locals.pages = {} /\ locals.todo = {}
      /\ locals.asked = {}
  BY <1>2 DEF RequestRow, Idle, Pcs
<1> HIDE DEF locals
<1>4. Homed(c.store, c.doc)
  BY DEF Homed, Filed
<1> QED
  BY <1>1, <1>2, <1>3, <1>4, BeginBlankTallies

-----------------------------------------------------------------------------
LEMMA TallyInvStarts == Init => TallyInv
<1> SUFFICES ASSUME Init PROVE TallyInv
  OBVIOUS
<1>1. /\ Idle.pc = "idle" /\ Idle.kind = "none" /\ Idle.pages = {} /\ Idle.running = {}
      /\ Idle.todo = {} /\ Idle.asked = {}
  BY DEF Idle
<1>2. /\ DOMAIN stores = {} /\ chunks = {} /\ known = {} /\ made = 0 /\ failures = 0
      /\ torn = {} /\ \A r \in Request : req[r] = Idle /\ copy[r] = EmptyRow
  BY DEF Init
<1>3. HomeInv
  BY <1>1, <1>2 DEF HomeInv, Claims, Busy, Filed
<1>4. CountInv
  <2>1. made \in 0 .. MaxChunks /\ failures \in 0 .. MaxFailures
    BY <1>2, StoreBounds
  <2>2. IsFiniteSet(chunks) /\ \A r \in Request : IsFiniteSet(req[r].pages)
    BY <1>1, <1>2, FS_EmptySet
  <2>3. \A r \in Request : req[r].pages = {} /\ req[r].running = {} /\ IsStoreRow(copy[r])
    BY <1>1, <1>2, EmptyRowType
  <2> QED
    BY <1>2, <2>1, <2>2, <2>3 DEF CountInv
<1>5. \A s \in Store : StoreTally(s)
  BY <1>2 DEF StoreTally
<1>6. \A r \in Request : RequestTally(r) /\ RequestRefresh(r)
  BY <1>1, <1>2
  DEF RequestTally, RequestRefresh, Refreshes, Busy, At, CopyIsCurrent, Counts, FillsLoader
<1> QED
  BY <1>3, <1>4, <1>5, <1>6 DEF TallyInv

LEMMA TallyInvStays ==
  ASSUME Overlap = FALSE
  PROVE  OrphanInv /\ OrphanInv' /\ TallyInv /\ [Next]_vars => TallyInv'
<1> SUFFICES ASSUME OrphanInv, OrphanInv', TallyInv, [Next]_vars PROVE TallyInv'
  OBVIOUS
<1>1. CASE UNCHANGED vars
  <2>1. HomeInv'
    BY <1>1 DEF vars, TallyInv, HomeInv, Claims, Filed, Busy, StoreOf, DocOf, Docs
  <2>2. CountInv'
    BY <1>1 DEF vars, TallyInv, CountInv, Files, Splits, At
  <2>3. \A s \in Store : StoreTally(s)'
    BY <1>1 DEF vars, TallyInv, StoreTally, Tallies, Exact, ChunksOf, Settles, At, StoreOf,
                DocOf, Docs
  <2>4. ASSUME NEW r \in Request PROVE RequestTally(r)' /\ RequestRefresh(r)'
    <3>1. /\ RequestTally(r) /\ RequestRefresh(r)
          /\ req' = req /\ copy' = copy /\ stores' = stores /\ chunks' = chunks
          /\ torn' = torn
      BY <1>1 DEF vars, TallyInv
    <3>2. RequestTally(r)'
      BY <3>1 DEF RequestTally, Tallies, Exact, ChunksOf, CopyIsCurrent, Counts,
                  FillsLoader, At, StoreOf, DocOf, Docs
    <3>3. RequestRefresh(r)'
      BY <3>1 DEF RequestRefresh, Refreshes, Fetches, Splits, Busy, At, StoreOf, DocOf, Docs
    <3> QED
      BY <3>2, <3>3
  <2> QED
    BY <2>1, <2>2, <2>3, <2>4 DEF TallyInv
<1>2. CASE Next
  <2>1. PICK r \in Request : Begin(r) \/ Proceed(r) \/ InsertLate(r) \/ Fail(r)
    BY <1>2 DEF Next
  <2>2. CASE Begin(r)
    BY <2>2, BeginNewStoreTallies, BeginLoaderTallies, BeginProcessTallies,
       BeginRefreshOfTallies, BeginOnStoreTallies, BeginTouchTallies,
       BeginDeleteLoaderTallies, BeginOnChunkTallies DEF Begin
  <2>3. CASE Proceed(r)
    BY <2>3, CreateStoreTallies, ListLoadersTallies, NextLoaderTallies, ReadStepsTally,
       SaveLoaderTallies, SplitTallies, DropChunksTallies, InsertChunkTallies,
       SaveProcessedTallies, ReadChunksTallies, SaveConfigTallies, MarkUpsertingTallies,
       SaveUpsertedTallies, ReadTallies, ReadForTouchTallies, ReadChunkTallies,
       ChangeChunkTallies, WriteTallies,
       DeleteRowTallies DEF Proceed
  <2>4. CASE InsertLate(r)
    BY <2>4, InsertLateTallies
  <2>5. CASE Fail(r)
    BY <2>5, FailTallies
  <2> QED
    BY <2>1, <2>2, <2>3, <2>4, <2>5
<1> QED
  BY <1>1, <1>2

LEMMA TallyInvHolds ==
  ASSUME Overlap = FALSE
  PROVE  Spec => [](OrphanInv /\ TallyInv)
<1>1. Init => OrphanInv /\ TallyInv
  BY OrphanInvStarts, TallyInvStarts
<1>2. OrphanInv /\ TallyInv /\ [Next]_vars => (OrphanInv /\ TallyInv)'
  BY OrphanInvStays, TallyInvStays
<1> QED
  BY <1>1, <1>2, PTL DEF Spec

(* The rows, chunks and requests keep their types, chunk ids are unique,   *)
(* and a request holds pages of its own loader only, whatever requests of  *)
(* other stores do between two of its saves and wherever one fails.        *)
THEOREM StoreTypes ==
  ASSUME Overlap = FALSE
  PROVE  Spec => []DocumentStoreTypeOK
<1>1. ASSUME OrphanInv, TallyInv PROVE DocumentStoreTypeOK
  <2>1. /\ DOMAIN stores \subseteq Store /\ \A s \in DOMAIN stores : IsStoreRow(stores[s])
        /\ chunks \subseteq Chunk
        /\ known \subseteq Store \cup Loader
        /\ made \in 0 .. MaxChunks
        /\ failures \in 0 .. MaxFailures /\ torn \subseteq Loader
        /\ \A b, c \in chunks : b.id = c.id => b = c
    BY <1>1 DEF OrphanInv, TablesInv, TallyInv, CountInv
  <2>2. \A c \in chunks : c.id =< made
    BY <1>1 DEF OrphanInv, TablesInv, IdInv, Held
  <2>3. ASSUME NEW r \in Request
        PROVE  /\ req[r].kind \in Kinds \cup {"none"}
               /\ req[r].store \in Store \cup {NoStore}
               /\ req[r].doc \in Loader \cup {NoLoader}
               /\ IsStoreRow(copy[r])
               /\ req[r].chunk \in Chunk \cup {NoChunk}
               /\ req[r].todo \subseteq req[r].asked /\ req[r].asked \subseteq Loader
               /\ req[r].running \subseteq req[r].pages
               /\ req[r].pages \subseteq
                    {c \in Chunk : c.doc = req[r].doc /\ c.store = req[r].store}
    <3>1. req[r] \in RequestRow /\ RequestInv(r)
      BY <1>1, RequestRowFacts
    <3>2. /\ IsStoreRow(copy[r]) /\ (Files(r) \/ req[r].pages = {})
          /\ req[r].todo \subseteq req[r].asked
      BY <1>1 DEF TallyInv, CountInv, RequestRefresh
    <3>3. /\ req[r].running \subseteq req[r].pages
          /\ \A c \in req[r].pages : c.doc = req[r].doc /\ c.store = req[r].store
      BY <3>1, <3>2 DEF RequestInv, StoreOf, DocOf
    <3> QED
      BY <3>1, <3>2, <3>3 DEF RequestRow
  <2> QED
    BY <2>1, <2>2, <2>3 DEF DocumentStoreTypeOK
<1> QED
  BY <1>1, TallyInvHolds, PTL

(* What the UI shows of a processed loader is what the chunk table holds   *)
(* once the requests of its store are answered, through every interleaving *)
(* with requests of other stores: a deletion or an edit of a chunk changes *)
(* the table and the copy of the row together (363, 479), processing       *)
(* counts what it inserted (1069).  Excepted is a loader that a failed     *)
(* request left half changed, until it is processed again while no insert  *)
(* of that request (1047) can land on it any more.                         *)
THEOREM TotalsAreKept ==
  ASSUME Overlap = FALSE
  PROVE  Spec => []TotalsMatch
<1>1. ASSUME OrphanInv, TallyInv PROVE TotalsMatch
  <2> SUFFICES ASSUME NEW s \in DOMAIN stores, NEW d \in Docs(stores[s]) \ torn, Quiet(s),
                      stores[s].loaders[d].status = "SYNC"
               PROVE  /\ stores[s].loaders[d].totalChunks = Cardinality(ChunksOf(d))
                      /\ stores[s].loaders[d].totalChars = CharsOf(ChunksOf(d))
    BY DEF TotalsMatch
  <2>1. s \in Store
    BY <1>1 DEF OrphanInv, TablesInv
  <2>2. Tallies(stores[s].loaders[d], d) \/ \E r \in Request : Settles(r, s, d)
    BY <1>1, <2>1 DEF TallyInv, StoreTally
  <2>3. ~ \E r \in Request : Settles(r, s, d)
    BY DEF Quiet, Settles, Busy, At, StoreOf
  <2> QED
    BY <2>2, <2>3 DEF Tallies, Exact
<1> QED
  BY <1>1, TallyInvHolds, PTL

-----------------------------------------------------------------------------
(* What a refresh has done when it is answered.                            *)

(* A step is the step of one request.                                      *)
LEMMA OthersWait ==
  ASSUME OrphanInv, NEW q \in Request, Begin(q) \/ Proceed(q) \/ InsertLate(q) \/ Fail(q),
         NEW r \in Request, r # q
  PROVE  req'[r] = req[r]
<1>1. \A locals, row : Becomes(q, locals, row) => req'[r] = req[r]
  BY DEF Becomes, OrphanInv, RequestTypes
<1>2. \A locals : Moves(q, locals) => req'[r] = req[r]
  BY <1>1 DEF Moves
<1>3. \A pc : Goto(q, pc) => req'[r] = req[r]
  BY <1>2 DEF Goto
<1>4. Answer(q) => req'[r] = req[r]
  BY <1>1 DEF Answer
<1>5. \A next : Reads(q, next) => req'[r] = req[r]
  BY <1>1, <1>4 DEF Reads
<1>6. \A kind, pc, s, d : Asks(q, kind, pc, s, d) => req'[r] = req[r]
  BY <1>2 DEF Asks
<1>7. CASE Begin(q)
  BY <1>1, <1>2, <1>6, <1>7
  DEF Begin, BeginNewStore, BeginLoader, BeginProcess, BeginRefreshOf, BeginOnStore, BeginTouch,
      BeginDeleteLoader, BeginOnChunk
<1>8. CASE InsertLate(q) \/ Fail(q)
  BY <1>1, <1>2, <1>4, <1>8 DEF InsertLate, Inserted, Fail, AnswerEarly
<1>9. CASE Proceed(q)
  <2>1. CASE \/ CreateStore(q) \/ ListLoaders(q) \/ NextLoader(q)
             \/ ReadForSave(q) \/ SaveLoader(q) \/ ReadForProcess(q) \/ Split(q)
             \/ DropChunks(q) \/ InsertChunk(q) \/ SaveProcessed(q) \/ ReadChunks(q)
    BY <1>1, <1>2, <1>3, <1>4, <1>5, <2>1
    DEF CreateStore, ListLoaders, NextLoader, ReadForSave, SaveLoader, ReadForProcess, Split,
        DropChunks, InsertChunk, Inserted, SaveProcessed, ReadChunks
  <2>2. CASE \/ ReadForConfig(q) \/ SaveConfig(q) \/ MarkUpserting(q)
             \/ ReadForUpsert(q) \/ SaveUpserted(q)
             \/ Read(q) \/ ReadForTouch(q) \/ ReadChunk(q) \/ ChangeChunk(q) \/ Write(q)
             \/ DeleteRow(q)
    BY <1>1, <1>2, <1>3, <1>4, <1>5, <2>2
    DEF ReadForConfig, SaveConfig, MarkUpserting, ReadForUpsert, SaveUpserted, Read,
        ReadForTouch, ReadChunk, ChangeChunk, Write, DeleteRow
  <2> QED
    BY <1>9, <2>1, <2>2 DEF Proceed
<1> QED
  BY <1>7, <1>8, <1>9

LEMMA RefreshStep ==
  ASSUME OrphanInv, TallyInv, Next, NEW r \in Request, NEW s, s = req[r].store,
         At(r, "next"), req'[r].pc = "done", failures' = failures, req[r].asked # {}
  PROVE  /\ s \in DOMAIN stores /\ stores[s].status = "UPSERTED"
         /\ \A d \in req[r].asked : d \in Docs(stores[s]) /\ stores[s].loaders[d].status = "SYNC"
<1>1. PICK q \in Request : Begin(q) \/ Proceed(q) \/ InsertLate(q) \/ Fail(q)
  BY DEF Next
<1>2. q = r
  BY <1>1, OthersWait DEF At
<1>3. NextLoader(r)
  <2>1. ~Begin(r)
    BY DEF Begin, BeginNewStore, BeginLoader, BeginProcess, BeginRefreshOf, BeginOnStore,
           BeginTouch, BeginDeleteLoader, BeginOnChunk, Begins, At
  <2>2. ~Fail(r) /\ ~InsertLate(r)
    BY StoreBounds DEF Fail, InsertLate, At, TallyInv, CountInv
  <2>3. Proceed(r) => NextLoader(r)
    BY DEF Proceed, CreateStore, ListLoaders, ReadForSave, SaveLoader, ReadForProcess, Split,
           DropChunks, InsertChunk, SaveProcessed, ReadChunks, ReadForConfig, SaveConfig,
           MarkUpserting, ReadForUpsert, SaveUpserted, Read, ReadForTouch, ReadChunk,
           ChangeChunk, Write, DeleteRow, At
  <2> QED
    BY <1>1, <1>2, <2>1, <2>2, <2>3
<1>4. /\ req[r].kind = "refresh" /\ s \in DOMAIN stores
      /\ req[r].todo \ req[r].added \subseteq Docs(stores[s])
      /\ \A d \in req[r].asked \ req[r].todo :
           d \in Docs(stores[s]) /\ stores[s].loaders[d].status = "SYNC"
      /\ req[r].asked \ req[r].todo # {} => stores[s].status = "UPSERTED"
  <2>1. Refreshes(r) /\ ~Fetches(r)
    BY DEF TallyInv, RequestRefresh, Refreshes, Fetches, Splits, Busy, At
  <2> QED
    BY <2>1 DEF TallyInv, RequestRefresh, Refreshes, StoreOf
(* Each loader that is left is there to be upserted, or to be added.       *)
<1>5. req[r].todo = {}
  <2>1. SUFFICES ASSUME req[r].todo # {} PROVE FALSE
    OBVIOUS
  <2>2. ~Missing(r) /\ \A d \in req[r].todo : d \in req[r].added \/ d \in Docs(Row(r))
    BY <1>4 DEF Missing, Row, StoreOf
  <2>3. PICK d \in req[r].todo :
          Moves(r, [req[r] EXCEPT !.pc = "readForSave", !.doc = d, !.todo = @ \ {d}])
    BY <1>3, <2>1, <2>2 DEF NextLoader
  <2>4. req[r] \in RequestRow /\ req \in [Request -> RequestRow]
    BY DEF OrphanInv, RequestTypes
  <2>5. req'[r].pc = "readForSave"
    BY <2>3, <2>4 DEF Moves, Becomes, RequestRow
  <2> QED
    BY <2>5
<1> QED
  BY <1>4, <1>5

(* A refresh that is answered without a failure has brought every loader   *)
(* it was asked for, those its items name or else all those of the store,  *)
(* to SYNC, and the store to UPSERTED: it upserts them one after the       *)
(* other, and no other request of the store changes one it has done        *)
(* (refreshDocStoreMiddleware 2094).                                       *)
THEOREM RefreshesComplete ==
  ASSUME Overlap = FALSE
  PROVE  Spec => RefreshCompletes
<1>1. OrphanInv /\ TallyInv /\ [Next]_vars =>
        [\A r \in Request :
           LET s == req[r].store
           IN  /\ At(r, "next") /\ req'[r].pc = "done" /\ failures' = failures
               /\ req[r].asked # {}
               => /\ s \in DOMAIN stores /\ stores[s].status = "UPSERTED"
                  /\ \A d \in req[r].asked :
                       d \in Docs(stores[s]) /\ stores[s].loaders[d].status = "SYNC"]_vars
  BY RefreshStep
<1> QED
  BY <1>1, TallyInvHolds, PTL DEF Spec, RefreshCompletes
=============================================================================
