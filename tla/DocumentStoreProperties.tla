---------------------- MODULE DocumentStoreProperties ----------------------
(***************************************************************************)
(* What the document store promises while requests of different stores     *)
(* overlap, requests of one store do not, and any of them may fail         *)
(* half-way, with inserts of its chunks still running.                     *)
(***************************************************************************)
EXTENDS DocumentStore

Quiet(s) == \A r \in Request : Busy(r) => req[r].store # s

ChunksOf(d) == {c \in chunks : c.doc = d}

(* Every variable has its type, chunk ids are unique, and a request works  *)
(* on the pages of its own loader.                                         *)
DocumentStoreTypeOK ==
  /\ DOMAIN stores \subseteq Store /\ \A s \in DOMAIN stores : IsStoreRow(stores[s])
  /\ chunks \subseteq Chunk
  /\ known \subseteq Store \cup Loader
  /\ made \in 0 .. MaxChunks
  /\ failures \in 0 .. MaxFailures
  /\ \A b, c \in chunks : b.id = c.id => b = c
  /\ \A c \in chunks : c.id =< made
  /\ torn \subseteq Loader
  /\ \A r \in Request :
       /\ req[r].kind \in Kinds \cup {"none"}
       /\ req[r].store \in Store \cup {NoStore}
       /\ req[r].doc \in Loader \cup {NoLoader}
       /\ IsStoreRow(copy[r])
       /\ req[r].chunk \in Chunk \cup {NoChunk}
       /\ req[r].todo \subseteq req[r].asked /\ req[r].asked \subseteq Loader
       /\ req[r].running \subseteq req[r].pages
       /\ req[r].pages \subseteq {c \in Chunk : c.doc = req[r].doc /\ c.store = req[r].store}

(* What the UI shows of a processed loader is what the chunk table holds,  *)
(* once the requests of its store are answered: deletions and edits of     *)
(* chunks keep the loader's totals (363, 479), and processing counts what  *)
(* it inserted (1069).  A loader that a failed request left half changed   *)
(* is excepted, until it is processed again with no insert of that request *)
(* left to land on it.                                                     *)
TotalsMatch ==
  \A s \in DOMAIN stores :
    \A d \in Docs(stores[s]) \ torn :
      LET loader == stores[s].loaders[d]
      IN  Quiet(s) /\ loader.status = "SYNC" =>
            /\ loader.totalChunks = Cardinality(ChunksOf(d))
            /\ loader.totalChars = CharsOf(ChunksOf(d))

(* The insert of a chunk outlived its request.                             *)
Stray(c) == \E r \in Request : At(r, "late") /\ \E p \in req[r].pages : p.id = c.id

(* Every chunk belongs to a loader that its store lists, at every step of  *)
(* every request and wherever one fails: chunks are deleted before the     *)
(* loader (161) and before the store (332), and inserted after both.  Only *)
(* a chunk whose insert went on after its request had failed (1047) can    *)
(* come too late for that.                                                 *)
NoOrphans ==
  \A c \in chunks :
    Stray(c) \/ (c.store \in DOMAIN stores /\ c.doc \in Docs(stores[c.store]))

(* A refresh that is answered without a failure has brought every loader   *)
(* it was asked for, the loaders of its items or else all those of the     *)
(* store, to SYNC, and the store to UPSERTED.                              *)
RefreshCompletes ==
  [][\A r \in Request :
       LET s == req[r].store
       IN  /\ At(r, "next") /\ req'[r].pc = "done" /\ failures' = failures
           /\ req[r].asked # {}
           => /\ s \in DOMAIN stores /\ stores[s].status = "UPSERTED"
              /\ \A d \in req[r].asked :
                   d \in Docs(stores[s]) /\ stores[s].loaders[d].status = "SYNC"]_vars
=============================================================================
