------------------------ MODULE PredictionJobsProofs ------------------------
(***************************************************************************)
(* Machine-checked proofs about prediction jobs, for any number of         *)
(* servers, workers, requests, chats and listeners.                        *)
(***************************************************************************)
EXTENDS PredictionJobsProperties, FiniteSetTheorems, SequenceTheorems, TLAPS

Pcs == {"idle", "lookup", "bind", "binding", "subscribing", "build", "waiting", "count", "store",
        "unsubscribing", "done"}
RequestRow == [pc : Pcs, kind : Kinds \cup {"none"}, server : Server \cup {NoServer},
               chat : Chat \cup {NoConn}, todo : SUBSET (Listener \X Server), seen : Int,
               refused : BOOLEAN]
JobRow == [pc : {"none", "queued", "active", "done", "failed"},
           at : Server \cup Worker \cup {NoServer}, try : Nat, sent : Nat, aborted : BOOLEAN]

(* Types, of which those of the relay and the outboxes are left out.       *)
ShapeInv ==
  /\ req \in [Request -> RequestRow]
  /\ job \in [Request -> JobRow]
  /\ pool \in [Server \cup Worker -> [Chat -> Request \cup {NoJob}]]
  /\ \A r \in Request : Busy(r) => ServerOf(r) \in Server /\ ChatOf(r) \in Chat

(* What a request reads: the quota, the usage cache and the registry.      *)
ReadInv ==
  /\ setup \in Setups /\ usage \in Int
  /\ registry \in [Listener -> Server \cup {NoServer}]
  /\ listener \in [Listener -> [pc : {"idle", "added", "left", "open", "lost", "closing", "closed"},
                                server : Server \cup {NoServer}]]

(* The requests that are served are of different chats.                    *)
Exclusive == \A q, r \in Request : Busy(q) /\ Busy(r) /\ ChatOf(q) = ChatOf(r) => q = r

(* A job is under way only while its request waits for it.                 *)
JobsAreAwaited == \A r \in Request : job[r].pc \in {"queued", "active"} => At(r, "waiting")

JobsArePlaced == \A r \in Request : job[r].pc = "active" => job[r].at \in Server \cup Worker

(* An unsubscription of a request is the one it waits for.                 *)
UnsubscriptionsAreAwaited ==
  \A t \in unsubs, r \in Request :
    t.by = By(r) => At(r, "unsubscribing") /\ t = Token(ServerOf(r), ChatOf(r), By(r))

AbortInv ==
  /\ ShapeInv /\ Exclusive /\ JobsAreAwaited /\ JobsArePlaced
  /\ UnsubscriptionsAreAwaited /\ RunningIsAbortable

-----------------------------------------------------------------------------
(* The steps of a request without a job.                                   *)

LEMMA RequestMoves ==
  ASSUME AbortInv, NEW r \in Request, req' = [req EXCEPT ![r] = req'[r]], req'[r] \in RequestRow,
         req'[r].server \in Server, req'[r].chat \in Chat,
         \A q \in Request \ {r} : Busy(q) => ChatOf(q) # req'[r].chat,
         job[r].pc \notin {"queued", "active"}, job' = job,
         pool' = pool \/ pool' = [pool EXCEPT ![req'[r].server][req'[r].chat] = NoJob],
         \A t \in unsubs : t.by # By(r),
         \A t \in unsubs' \ unsubs :
           req'[r].pc = "unsubscribing" /\ t = Token(req'[r].server, req'[r].chat, By(r))
  PROVE  AbortInv'
<1> DEFINE s == req'[r].server
           c == req'[r].chat
<1>1. \A q \in Request : q # r => req'[q] = req[q]
  BY DEF AbortInv, ShapeInv
<1>2. ShapeInv'
  <2>1. req' \in [Request -> RequestRow] /\ job' \in [Request -> JobRow]
    BY DEF AbortInv, ShapeInv
  <2>2. pool' \in [Server \cup Worker -> [Chat -> Request \cup {NoJob}]]
    BY DEF AbortInv, ShapeInv
  <2>3. \A q \in Request : Busy(q)' => ServerOf(q)' \in Server /\ ChatOf(q)' \in Chat
    BY <1>1 DEF AbortInv, ShapeInv, Busy, ServerOf, ChatOf
  <2> QED
    BY <2>1, <2>2, <2>3 DEF ShapeInv
<1>3. Exclusive'
  BY <1>1 DEF AbortInv, Exclusive, Busy, ChatOf
<1>4. JobsAreAwaited' /\ JobsArePlaced'
  BY <1>1 DEF AbortInv, JobsAreAwaited, JobsArePlaced, At
<1>5. UnsubscriptionsAreAwaited'
  <2> SUFFICES ASSUME NEW t \in unsubs', NEW q \in Request, t.by = By(q)
               PROVE  At(q, "unsubscribing")' /\ t = Token(ServerOf(q)', ChatOf(q)', By(q))
    BY DEF UnsubscriptionsAreAwaited, By, Token
  <2>1. CASE t \in unsubs
    BY <1>1, <2>1 DEF AbortInv, UnsubscriptionsAreAwaited, At, ServerOf, ChatOf
  <2>2. CASE t \notin unsubs
    BY <2>2 DEF Token, By, At, ServerOf, ChatOf
  <2> QED
    BY <2>1, <2>2
<1>6. RunningIsAbortable'
  <2> SUFFICES ASSUME NEW q \in Request, job[q].pc = "active", ~ job[q].aborted
               PROVE  pool'[job[q].at][ChatOf(q)'] = q
    BY DEF RunningIsAbortable
  <2>1. q # r /\ Busy(q) /\ ChatOf(q)' = ChatOf(q) /\ ChatOf(q) # c
    BY <1>1 DEF AbortInv, JobsAreAwaited, At, Busy, ChatOf
  <2>2. pool[job[q].at][ChatOf(q)] = q /\ job[q].at \in Server \cup Worker /\ ChatOf(q) \in Chat
    BY <2>1 DEF AbortInv, RunningIsAbortable, JobsArePlaced, ShapeInv
  <2> HIDE DEF c
  <2>3. c \in Chat /\ s \in Server /\ (pool' = pool \/ pool' = [pool EXCEPT ![s][c] = NoJob])
    BY DEF c
  <2> QED
    BY <2>1, <2>2, <2>3 DEF AbortInv, ShapeInv
<1> QED
  BY <1>2, <1>3, <1>4, <1>5, <1>6 DEF AbortInv

LEMMA ServedFacts ==
  ASSUME AbortInv, NEW r \in Request
  PROVE  /\ req[r] \in RequestRow /\ job[r] \in JobRow
         /\ Busy(r) => /\ ServerOf(r) \in Server /\ ChatOf(r) \in Chat
                       /\ \A q \in Request \ {r} : Busy(q) => ChatOf(q) # ChatOf(r)
         /\ ~ At(r, "unsubscribing") => \A t \in unsubs : t.by # By(r)
         /\ ~ At(r, "waiting") => job[r].pc \notin {"queued", "active"}
BY DEF AbortInv, ShapeInv, Exclusive, UnsubscriptionsAreAwaited, JobsAreAwaited

LEMMA RequestProceeds ==
  ASSUME AbortInv, NEW r \in Request, Busy(r), ~ At(r, "unsubscribing"),
         NEW locals, req' = [req EXCEPT ![r] = locals], locals \in RequestRow,
         locals.server = ServerOf(r), locals.chat = ChatOf(r),
         job[r].pc \notin {"queued", "active"}, job' = job,
         pool' = pool \/ pool' = Cleared(r),
         \A t \in unsubs' \ unsubs :
           locals.pc = "unsubscribing" /\ t = Token(ServerOf(r), ChatOf(r), By(r))
  PROVE  AbortInv'
<1>1. req'[r] = locals /\ req' = [req EXCEPT ![r] = req'[r]]
  BY DEF AbortInv, ShapeInv
<1>2. /\ ServerOf(r) \in Server /\ ChatOf(r) \in Chat
      /\ \A q \in Request \ {r} : Busy(q) => ChatOf(q) # ChatOf(r)
      /\ \A t \in unsubs : t.by # By(r)
  BY ServedFacts
<1>3. pool' = pool \/ pool' = [pool EXCEPT ![req'[r].server][req'[r].chat] = NoJob]
  BY <1>1 DEF Cleared
<1>4. /\ req'[r] \in RequestRow /\ req'[r].server \in Server /\ req'[r].chat \in Chat
      /\ \A q \in Request \ {r} : Busy(q) => ChatOf(q) # req'[r].chat
  BY <1>1, <1>2
<1>5. \A t \in unsubs' \ unsubs :
        req'[r].pc = "unsubscribing" /\ t = Token(req'[r].server, req'[r].chat, By(r))
  BY <1>1
<1> QED
  BY <1>1, <1>2, <1>3, <1>4, <1>5, RequestMoves

(* The end of a request, at once or after its unsubscription.              *)
LEMMA FinishesKeeps ==
  ASSUME AbortInv, NEW r \in Request, Busy(r), ~ At(r, "unsubscribing"),
         NEW what, NEW locals \in RequestRow, Finishes(r, what, locals),
         locals.server = ServerOf(r), locals.chat = ChatOf(r),
         job[r].pc \notin {"queued", "active"}, job' = job,
         pool' = pool \/ pool' = Cleared(r)
  PROVE  AbortInv'
<1> DEFINE old == IF mode = "queue" /\ req[r].kind = "predict"
                  THEN NewUnsubscriptions(ServerOf(r), ChatOf(r), By(r)) ELSE {}
           pc == IF old = {} THEN "done" ELSE "unsubscribing"
           next == [locals EXCEPT !.pc = pc]
<1>1. unsubs' = unsubs \cup old /\ req' = [req EXCEPT ![r] = next]
  BY DEF Finishes
<1>2. old \subseteq {Token(ServerOf(r), ChatOf(r), By(r))}
  BY DEF NewUnsubscriptions
<1>3. \A t \in unsubs' \ unsubs :
        pc = "unsubscribing" /\ t = Token(ServerOf(r), ChatOf(r), By(r))
  BY <1>1, <1>2
<1>4. pc \in Pcs
  BY DEF Pcs
<1> HIDE DEF old, pc
<1>5. /\ next \in RequestRow /\ next.pc = pc
      /\ next.server = ServerOf(r) /\ next.chat = ChatOf(r)
  BY <1>4 DEF RequestRow
<1> HIDE DEF next
<1> QED
  BY <1>1, <1>3, <1>5, RequestProceeds

LEMMA BeginPredictionKeeps ==
  ASSUME Overlap = FALSE, AbortInv, NEW r \in Request, NEW s \in Server, NEW c \in Chat,
         BeginPrediction(r, s, c)
  PROVE  AbortInv'
<1>1. PICK pc \in {"build", "subscribing"} : Asks(r, "predict", s, c, pc)
  BY DEF BeginPrediction, PcAfterSubscribe
<1>2. /\ Begins(r, "predict", s, c) /\ job' = job /\ pool' = pool /\ unsubs' = unsubs
  BY DEF BeginPrediction
<1> DEFINE locals == [NewRequest EXCEPT !.pc = pc, !.kind = "predict", !.server = s, !.chat = c]
<1>3. locals \in RequestRow /\ locals.server = s /\ locals.chat = c
  <2>1. NewRequest \in RequestRow
    BY DEF NewRequest, RequestRow, Pcs
  <2> QED
    BY <1>1, <2>1 DEF RequestRow, Pcs, Kinds
<1>4. req' = [req EXCEPT ![r] = locals]
  BY <1>1 DEF Asks
<1> HIDE DEF locals
<1>5. req'[r] = locals /\ req' = [req EXCEPT ![r] = req'[r]]
  BY <1>4 DEF AbortInv, ShapeInv
<1>6. At(r, "idle") /\ \A q \in Request : Busy(q) => ChatOf(q) # c
  BY <1>2 DEF Begins
<1>7. job[r].pc \notin {"queued", "active"} /\ \A t \in unsubs : t.by # By(r)
  BY <1>6, ServedFacts DEF At
<1> QED
  BY <1>2, <1>3, <1>5, <1>6, <1>7, RequestMoves

LEMMA BeginWebhookKeeps ==
  ASSUME Overlap = FALSE, AbortInv, NEW r \in Request, NEW s \in Server, NEW c \in Chat,
         NEW kind \in Kinds, BeginWebhook(r, s, c, kind)
  PROVE  AbortInv'
<1>1. Asks(r, kind, s, c, "lookup")
  BY DEF BeginWebhook
<1>2. Begins(r, kind, s, c) /\ job' = job /\ pool' = pool /\ unsubs' = unsubs
  BY DEF BeginWebhook, relayVars
<1> DEFINE locals == [NewRequest EXCEPT !.pc = "lookup", !.kind = kind, !.server = s, !.chat = c]
<1>3. locals \in RequestRow /\ locals.server = s /\ locals.chat = c
  <2>1. NewRequest \in RequestRow
    BY DEF NewRequest, RequestRow, Pcs
  <2> QED
    BY <1>1, <2>1 DEF RequestRow, Pcs, Kinds
<1>4. req' = [req EXCEPT ![r] = locals]
  BY <1>1 DEF Asks
<1> HIDE DEF locals
<1>5. req'[r] = locals /\ req' = [req EXCEPT ![r] = req'[r]]
  BY <1>4 DEF AbortInv, ShapeInv
<1>6. At(r, "idle") /\ \A q \in Request : Busy(q) => ChatOf(q) # c
  BY <1>2 DEF Begins
<1>7. job[r].pc \notin {"queued", "active"} /\ \A t \in unsubs : t.by # By(r)
  BY <1>6, ServedFacts DEF At
<1> QED
  BY <1>2, <1>3, <1>5, <1>6, <1>7, RequestMoves

(* The steps before and after the job.                                     *)
LEMMA LookUpKeeps ==
  ASSUME AbortInv, ReadInv, NEW r \in Request, LookUp(r)
  PROVE  AbortInv'
<1> DEFINE todo == {<<l, registry[l]>> : l \in {k \in Listener : registry[k] # NoServer}}
           locals == [req[r] EXCEPT !.pc = "bind", !.todo = todo]
<1>1. req' = [req EXCEPT ![r] = locals] /\ job' = job /\ pool' = pool /\ unsubs' = unsubs
  BY DEF LookUp, relayVars, AbortInv, ShapeInv
<1>2. todo \subseteq Listener \X Server
  BY DEF ReadInv
<1> HIDE DEF todo
<1>3. locals \in RequestRow /\ locals.server = ServerOf(r) /\ locals.chat = ChatOf(r)
  BY <1>2, ServedFacts DEF RequestRow, Pcs, ServerOf, ChatOf
<1>4. Busy(r) /\ ~ At(r, "unsubscribing") /\ job[r].pc \notin {"queued", "active"}
  BY ServedFacts DEF LookUp, Busy, At
<1> HIDE DEF locals
<1> QED
  BY <1>1, <1>3, <1>4, RequestProceeds

LEMMA BindKeeps ==
  ASSUME AbortInv, NEW r \in Request, Bind(r)
  PROVE  AbortInv'
<1>1. PICK entry \in req[r].todo :
        \/ req' = [req EXCEPT ![r].todo = @ \ {entry}]
        \/ req' = [[req EXCEPT ![r].todo = @ \ {entry}] EXCEPT ![r].pc = "binding"]
  BY DEF Bind
<1>2. job' = job /\ pool' = pool /\ unsubs' = unsubs
  BY DEF Bind
<1> DEFINE same == [req[r] EXCEPT !.todo = req[r].todo \ {entry}]
           locals == [req[r] EXCEPT !.todo = req[r].todo \ {entry}, !.pc = "binding"]
<1>3. req' = [req EXCEPT ![r] = same] \/ req' = [req EXCEPT ![r] = locals]
  BY <1>1 DEF AbortInv, ShapeInv
<1>4. /\ locals \in RequestRow /\ locals.server = ServerOf(r) /\ locals.chat = ChatOf(r)
      /\ same \in RequestRow /\ same.server = ServerOf(r) /\ same.chat = ChatOf(r)
  BY ServedFacts DEF RequestRow, Pcs, ServerOf, ChatOf
<1>5. Busy(r) /\ ~ At(r, "unsubscribing") /\ job[r].pc \notin {"queued", "active"}
  BY ServedFacts DEF Bind, Busy, At
<1> HIDE DEF same, locals
<1> QED
  BY <1>2, <1>3, <1>4, <1>5, RequestProceeds

LEMMA BoundKeeps ==
  ASSUME AbortInv, NEW r \in Request, Bound(r)
  PROVE  AbortInv'
<1> DEFINE locals == [req[r] EXCEPT !.pc = "build"]
<1>1. req' = [req EXCEPT ![r] = locals] /\ job' = job /\ pool' = pool /\ unsubs' = unsubs
  BY DEF Bound, Moves, AbortInv, ShapeInv
<1>2. locals \in RequestRow /\ locals.server = ServerOf(r) /\ locals.chat = ChatOf(r)
  BY ServedFacts DEF RequestRow, Pcs, ServerOf, ChatOf
<1>3. Busy(r) /\ ~ At(r, "unsubscribing") /\ job[r].pc \notin {"queued", "active"}
  BY ServedFacts DEF Bound, Busy, At
<1> HIDE DEF locals
<1> QED
  BY <1>1, <1>2, <1>3, RequestProceeds

LEMMA ReadUsageKeeps ==
  ASSUME AbortInv, ReadInv, NEW r \in Request, ReadUsage(r)
  PROVE  AbortInv'
<1> DEFINE locals == [req[r] EXCEPT !.pc = "store", !.seen = usage]
<1>1. req' = [req EXCEPT ![r] = locals] /\ job' = job /\ pool' = pool /\ unsubs' = unsubs
  BY DEF ReadUsage, relayVars, AbortInv, ShapeInv
<1>2. locals \in RequestRow /\ locals.server = ServerOf(r) /\ locals.chat = ChatOf(r)
  <2>1. PICK seen : seen = usage
    OBVIOUS
  <2>2. req[r] \in RequestRow /\ seen \in Int
    BY <2>1, ServedFacts DEF ReadInv
  <2>3. locals = [req[r] EXCEPT !.pc = "store", !.seen = seen]
    BY <2>1
  <2> HIDE DEF locals
  <2> QED
    BY <2>2, <2>3 DEF RequestRow, Pcs, ServerOf, ChatOf
<1>3. Busy(r) /\ ~ At(r, "unsubscribing") /\ job[r].pc \notin {"queued", "active"}
  BY ServedFacts DEF ReadUsage, Busy, At
<1> HIDE DEF locals
<1> QED
  BY <1>1, <1>2, <1>3, RequestProceeds

LEMMA StoreUsageKeeps ==
  ASSUME AbortInv, NEW r \in Request, StoreUsage(r)
  PROVE  AbortInv'
<1> DEFINE locals == [req[r] EXCEPT !.seen = 0]
<1>1. Finishes(r, "metadata", locals) /\ job' = job /\ pool' = pool
  BY DEF StoreUsage
<1>2. locals \in RequestRow /\ locals.server = ServerOf(r) /\ locals.chat = ChatOf(r)
  BY ServedFacts DEF RequestRow, Pcs, ServerOf, ChatOf
<1>3. Busy(r) /\ ~ At(r, "unsubscribing") /\ job[r].pc \notin {"queued", "active"}
  BY ServedFacts DEF StoreUsage, Busy, At
<1> HIDE DEF locals
<1> QED
  BY <1>1, <1>2, <1>3, FinishesKeeps

LEMMA ResolveKeeps ==
  ASSUME AbortInv, NEW r \in Request, Resolve(r)
  PROVE  AbortInv'
<1>1. /\ Busy(r) /\ ~ At(r, "unsubscribing") /\ pool' = Cleared(r) /\ job' = job
      /\ job[r].pc \in {"failed", "done"}
  BY DEF Resolve, Busy, At
<1>2. req[r] \in RequestRow
  BY ServedFacts
<1>3. CASE Finishes(r, "error", req[r])
  BY <1>1, <1>2, <1>3, FinishesKeeps DEF ServerOf, ChatOf
<1>4. CASE Moves(r, "count") /\ UNCHANGED relayVars
  <2> DEFINE locals == [req[r] EXCEPT !.pc = "count"]
  <2>1. req' = [req EXCEPT ![r] = locals] /\ unsubs' = unsubs
    BY <1>4 DEF Moves, relayVars, AbortInv, ShapeInv
  <2>2. locals \in RequestRow /\ locals.server = ServerOf(r) /\ locals.chat = ChatOf(r)
    BY <1>2 DEF RequestRow, Pcs, ServerOf, ChatOf
  <2> HIDE DEF locals
  <2> QED
    BY <1>1, <2>1, <2>2, RequestProceeds
<1> QED
  BY <1>3, <1>4 DEF Resolve

-----------------------------------------------------------------------------
(* The steps of a job.                                                     *)

(* The quota is checked, then the job starts under a controller of its own.*)
LEMMA BuildKeeps ==
  ASSUME AbortInv, NEW r \in Request, Build(r)
  PROVE  AbortInv'
<1>1. /\ Busy(r) /\ ~ At(r, "unsubscribing") /\ At(r, "build")
      /\ req[r] \in RequestRow /\ job[r] \in JobRow
      /\ job[r].pc \notin {"queued", "active"}
      /\ ServerOf(r) \in Server /\ ChatOf(r) \in Chat
      /\ \A q \in Request \ {r} : Busy(q) => ChatOf(q) # ChatOf(r)
      /\ \A t \in unsubs : t.by # By(r)
  BY ServedFacts DEF Build, Busy, At
<1>2. CASE Spent
  <2> DEFINE locals == [req[r] EXCEPT !.refused = TRUE]
  <2>1. Finishes(r, "error", locals) /\ pool' = Cleared(r) /\ job' = job
    BY <1>2 DEF Build
  <2>2. locals \in RequestRow /\ locals.server = ServerOf(r) /\ locals.chat = ChatOf(r)
    BY <1>1 DEF RequestRow, ServerOf, ChatOf
  <2> HIDE DEF locals
  <2> QED
    BY <1>1, <2>1, <2>2, FinishesKeeps
<1>3. CASE ~ Spent
  <2>1. /\ req' = [req EXCEPT ![r].pc = "waiting"] /\ unsubs' = unsubs
        /\ \/ job' = [job EXCEPT ![r].pc = "queued"] /\ pool' = pool
           \/ /\ job' = [job EXCEPT ![r].pc = "active", ![r].at = ServerOf(r)]
              /\ pool' = Pooled(ServerOf(r), r)
    BY <1>3 DEF Build, Moves, relayVars
  <2>2. /\ req' \in [Request -> RequestRow] /\ job' \in [Request -> JobRow]
        /\ \A q \in Request : q # r => req'[q] = req[q] /\ job'[q] = job[q]
    <3>1. req' \in [Request -> RequestRow] /\ \A q \in Request : q # r => req'[q] = req[q]
      BY <1>1, <2>1 DEF AbortInv, ShapeInv, RequestRow, Pcs
    <3>2. [job[r] EXCEPT !.pc = "queued"] \in JobRow
      BY <1>1 DEF JobRow
    <3>3. [job[r] EXCEPT !.pc = "active", !.at = ServerOf(r)] \in JobRow
      BY <1>1 DEF JobRow
    <3>4. job' \in [Request -> JobRow] /\ \A q \in Request : q # r => job'[q] = job[q]
      BY <2>1, <3>2, <3>3 DEF AbortInv, ShapeInv
    <3> QED
      BY <3>1, <3>4
  <2>3. /\ req'[r].pc = "waiting" /\ req'[r].server = ServerOf(r) /\ req'[r].chat = ChatOf(r)
        /\ \/ job'[r].pc = "queued" /\ pool' = pool
           \/ /\ job'[r].pc = "active" /\ job'[r].at = ServerOf(r)
              /\ pool' = [pool EXCEPT ![ServerOf(r)][ChatOf(r)] = r]
    BY <1>1, <2>1 DEF AbortInv, ShapeInv, RequestRow, JobRow, Pooled, ServerOf, ChatOf
  <2>4. ShapeInv'
    <3>1. pool' \in [Server \cup Worker -> [Chat -> Request \cup {NoJob}]]
      BY <1>1, <2>3 DEF AbortInv, ShapeInv
    <3>2. \A q \in Request : Busy(q)' => ServerOf(q)' \in Server /\ ChatOf(q)' \in Chat
      BY <1>1, <2>2, <2>3 DEF AbortInv, ShapeInv, Busy, ServerOf, ChatOf
    <3> QED
      BY <2>2, <3>1, <3>2 DEF ShapeInv
  <2>5. Exclusive'
    BY <1>1, <2>2, <2>3 DEF AbortInv, Exclusive, Busy, ChatOf
  <2>6. JobsAreAwaited' /\ JobsArePlaced'
    BY <1>1, <2>2, <2>3 DEF AbortInv, JobsAreAwaited, JobsArePlaced, At
  <2>7. UnsubscriptionsAreAwaited'
    BY <1>1, <2>1, <2>2 DEF AbortInv, UnsubscriptionsAreAwaited, At, ServerOf, ChatOf, Token, By
  <2>8. RunningIsAbortable'
    <3> SUFFICES ASSUME NEW q \in Request, job'[q].pc = "active", ~ job'[q].aborted
                 PROVE  pool'[job'[q].at][ChatOf(q)'] = q
      BY DEF RunningIsAbortable
    <3>1. CASE q = r
      BY <1>1, <2>3, <3>1 DEF AbortInv, ShapeInv, ChatOf
    <3>2. CASE q # r
      <4>1. /\ job'[q] = job[q] /\ ChatOf(q)' = ChatOf(q) /\ Busy(q)
            /\ pool[job[q].at][ChatOf(q)] = q /\ job[q].at \in Server \cup Worker
        BY <2>2, <3>2
        DEF AbortInv, RunningIsAbortable, JobsArePlaced, JobsAreAwaited, At, Busy, ChatOf
      <4>2. ChatOf(q) \in Chat /\ ChatOf(q) # ChatOf(r)
        BY <1>1, <3>2, <4>1 DEF AbortInv, ShapeInv
      <4> QED
        BY <1>1, <2>3, <4>1, <4>2 DEF AbortInv, ShapeInv
    <3> QED
      BY <3>1, <3>2
  <2> QED
    BY <2>4, <2>5, <2>6, <2>7, <2>8 DEF AbortInv
<1> QED
  BY <1>2, <1>3

(* A step that moves jobs but no request.                                  *)
LEMMA JobsMove ==
  ASSUME AbortInv, req' = req, job' \in [Request -> JobRow],
         pool' \in [Server \cup Worker -> [Chat -> Request \cup {NoJob}]],
         \A t \in unsubs' \ unsubs : \A r \in Request : t.by # By(r),
         JobsAreAwaited', JobsArePlaced', RunningIsAbortable'
  PROVE  AbortInv'
<1>1. ShapeInv' /\ Exclusive'
  BY DEF AbortInv, ShapeInv, Exclusive, Busy, ServerOf, ChatOf
<1>2. UnsubscriptionsAreAwaited'
  BY DEF AbortInv, UnsubscriptionsAreAwaited, At, ServerOf, ChatOf, Token, By
<1> QED
  BY <1>1, <1>2 DEF AbortInv

LEMMA PickKeeps ==
  ASSUME AbortInv, NEW r \in Request, NEW w \in Worker, Pick(w, r)
  PROVE  AbortInv'
<1>1. /\ job[r].pc = "queued" /\ job' = [job EXCEPT ![r].pc = "active", ![r].at = w]
      /\ pool' = [pool EXCEPT ![w][ChatOf(r)] = r]
      /\ req' = req /\ unsubs' = unsubs
  BY DEF Pick, Pooled, relayVars
<1>2. At(r, "waiting") /\ Busy(r) /\ ChatOf(r) \in Chat
  BY <1>1 DEF AbortInv, JobsAreAwaited, At, Busy, ShapeInv
<1>3. /\ job' \in [Request -> JobRow] /\ job'[r].pc = "active" /\ job'[r].at = w
      /\ \A q \in Request : q # r => job'[q] = job[q]
  BY <1>1 DEF AbortInv, ShapeInv, JobRow
<1>4. pool' \in [Server \cup Worker -> [Chat -> Request \cup {NoJob}]]
  BY <1>1 DEF AbortInv, ShapeInv
<1>5. JobsAreAwaited' /\ JobsArePlaced'
  BY <1>1, <1>2, <1>3 DEF AbortInv, JobsAreAwaited, JobsArePlaced, At
<1>6. RunningIsAbortable'
  <2> SUFFICES ASSUME NEW q \in Request, job'[q].pc = "active", ~ job'[q].aborted
               PROVE  pool'[job'[q].at][ChatOf(q)'] = q
    BY DEF RunningIsAbortable
  <2>1. CASE q = r
    BY <1>1, <1>2, <1>3, <2>1 DEF AbortInv, ShapeInv, ChatOf
  <2>2. CASE q # r
    <3>1. /\ job'[q] = job[q] /\ ChatOf(q)' = ChatOf(q) /\ Busy(q)
          /\ pool[job[q].at][ChatOf(q)] = q /\ job[q].at \in Server \cup Worker
      BY <1>1, <1>3, <2>2
      DEF AbortInv, RunningIsAbortable, JobsArePlaced, JobsAreAwaited, At, Busy, ChatOf
    <3>2. ChatOf(q) \in Chat /\ ChatOf(q) # ChatOf(r)
      BY <1>2, <2>2, <3>1 DEF AbortInv, ShapeInv, Exclusive
    <3> QED
      BY <1>1, <1>2, <3>1, <3>2 DEF AbortInv, ShapeInv
  <2> QED
    BY <2>1, <2>2
<1> QED
  BY <1>1, <1>3, <1>4, <1>5, <1>6, JobsMove

LEMMA EmitKeeps ==
  ASSUME AbortInv, NEW r \in Request, Emit(r)
  PROVE  AbortInv'
<1>1. /\ job' = [job EXCEPT ![r].sent = @ + 1]
      /\ req' = req /\ unsubs' = unsubs /\ pool' = pool
  BY DEF Emit
<1>2. /\ job' \in [Request -> JobRow]
      /\ \A q \in Request : /\ job'[q].pc = job[q].pc /\ job'[q].at = job[q].at
                            /\ job'[q].aborted = job[q].aborted
  BY <1>1 DEF AbortInv, ShapeInv, JobRow
<1>3. JobsAreAwaited' /\ JobsArePlaced' /\ RunningIsAbortable'
  BY <1>1, <1>2 DEF AbortInv, JobsAreAwaited, JobsArePlaced, RunningIsAbortable, At, ChatOf
<1> QED
  BY <1>1, <1>2, <1>3, JobsMove DEF AbortInv, ShapeInv

LEMMA FinishKeeps ==
  ASSUME AbortInv, NEW r \in Request, Finish(r)
  PROVE  AbortInv'
<1>1. PICK outcome \in {"done", "failed"} : job' = [job EXCEPT ![r].pc = outcome]
  BY DEF Finish
<1>2. req' = req /\ unsubs' = unsubs /\ pool' = pool
  BY DEF Finish, relayVars
<1>3. /\ job' \in [Request -> JobRow] /\ job'[r].pc = outcome
      /\ \A q \in Request : q # r => job'[q] = job[q]
  BY <1>1 DEF AbortInv, ShapeInv, JobRow
<1>4. JobsAreAwaited' /\ JobsArePlaced' /\ RunningIsAbortable'
  BY <1>2, <1>3 DEF AbortInv, JobsAreAwaited, JobsArePlaced, RunningIsAbortable, At, ChatOf
<1> QED
  BY <1>2, <1>3, <1>4, JobsMove DEF AbortInv, ShapeInv

(* An abort takes the controller of a chat out of a pool: the job it       *)
(* belongs to is aborted, and no other runs there under the same chat.     *)
LEMMA AbortedKeeps ==
  ASSUME AbortInv, NEW p \in Server \cup Worker, NEW c \in Chat, job' = Aborted(p, c),
         pool' = [pool EXCEPT ![p][c] = NoJob], req' = req, unsubs' = unsubs
  PROVE  AbortInv'
<1>1. pool[p][c] \in Request \cup {NoJob}
  BY DEF AbortInv, ShapeInv
<1>2. /\ job' \in [Request -> JobRow]
      /\ \A q \in Request :
           /\ job'[q].pc = job[q].pc /\ job'[q].at = job[q].at
           /\ job'[q].aborted = job[q].aborted \/ q = pool[p][c]
           /\ q = pool[p][c] => job'[q].aborted
  <2>1. job \in [Request -> JobRow]
    BY DEF AbortInv, ShapeInv
  <2>2. CASE pool[p][c] = NoJob
    BY <2>1, <2>2, JobsAssumption DEF Aborted
  <2>3. CASE pool[p][c] # NoJob
    <3> DEFINE r == pool[p][c]
    <3>1. r \in Request /\ job' = [job EXCEPT ![r].aborted = TRUE]
      BY <1>1, <2>3 DEF Aborted
    <3> HIDE DEF r
    <3>2. /\ job' \in [Request -> JobRow]
          /\ \A q \in Request :
               /\ job'[q].pc = job[q].pc /\ job'[q].at = job[q].at
               /\ job'[q].aborted = job[q].aborted \/ q = r
               /\ q = r => job'[q].aborted
      <4> DEFINE row == [job[r] EXCEPT !.aborted = TRUE]
      <4>1. job' = [job EXCEPT ![r] = row]
        BY <3>1
      <4>2. row \in JobRow /\ row.pc = job[r].pc /\ row.at = job[r].at /\ row.aborted
        BY <2>1, <3>1 DEF JobRow
      <4> HIDE DEF row
      <4> QED
        BY <2>1, <3>1, <4>1, <4>2
    <3> QED
      BY <3>2 DEF r
  <2> QED
    BY <2>2, <2>3
<1>3. pool' \in [Server \cup Worker -> [Chat -> Request \cup {NoJob}]]
  BY DEF AbortInv, ShapeInv
<1>4. JobsAreAwaited' /\ JobsArePlaced'
  BY <1>2 DEF AbortInv, JobsAreAwaited, JobsArePlaced, At
<1>5. RunningIsAbortable'
  <2> SUFFICES ASSUME NEW q \in Request, job'[q].pc = "active", ~ job'[q].aborted
               PROVE  pool'[job'[q].at][ChatOf(q)'] = q
    BY DEF RunningIsAbortable
  <2>1. /\ q # pool[p][c] /\ job'[q].at = job[q].at /\ ChatOf(q)' = ChatOf(q)
        /\ pool[job[q].at][ChatOf(q)] = q /\ job[q].at \in Server \cup Worker /\ Busy(q)
    BY <1>2 DEF AbortInv, RunningIsAbortable, JobsArePlaced, JobsAreAwaited, At, Busy, ChatOf
  <2>2. ChatOf(q) \in Chat
    BY <2>1 DEF AbortInv, ShapeInv
  <2> QED
    BY <2>1, <2>2 DEF AbortInv, ShapeInv
<1> QED
  BY <1>2, <1>3, <1>4, <1>5, JobsMove

(* A step that leaves requests, jobs and pools alone.                      *)
LEMMA RelayMoves ==
  ASSUME AbortInv, req' = req, job' = job, pool' = pool,
         \A t \in unsubs' \ unsubs : t.by = Cleaner
  PROVE  AbortInv'
<1>1. \A r \in Request : Cleaner # By(r)
  BY RelayRequests DEF Cleaner, By
<1>2. JobsAreAwaited' /\ JobsArePlaced' /\ RunningIsAbortable'
  BY DEF AbortInv, JobsAreAwaited, JobsArePlaced, RunningIsAbortable, At, ChatOf
<1> QED
  BY <1>1, <1>2, JobsMove DEF AbortInv, ShapeInv

LEMMA AbortKeeps ==
  ASSUME AbortInv, NEW s \in Server, NEW c \in Chat, Abort(s, c)
  PROVE  AbortInv'
<1>1. req' = req /\ unsubs' = unsubs
  BY DEF Abort, relayVars
<1>2. CASE mode = "queue"
  BY <1>1, <1>2, RelayMoves DEF Abort
<1>3. CASE mode # "queue"
  BY <1>1, <1>3, AbortedKeeps DEF Abort
<1> QED
  BY <1>2, <1>3

LEMMA HandleAbortKeeps ==
  ASSUME AbortInv, NEW w \in Worker, NEW c \in Chat, HandleAbort(w, c)
  PROVE  AbortInv'
BY AbortedKeeps DEF HandleAbort, relayVars

(* The jobs of a worker that dies are queued again, or failed.             *)
LEMMA CrashKeeps ==
  ASSUME AbortInv, NEW w \in Worker, Crash(w)
  PROVE  AbortInv'
<1>1. req' = req /\ unsubs' = unsubs /\ pool' = [pool EXCEPT ![w] = [c \in Chat |-> NoJob]]
  BY DEF Crash, relayVars
<1>2. job' = [r \in Request |->
               IF job[r].pc # "active" \/ job[r].at # w THEN job[r]
               ELSE IF job[r].try = MaxAttempts THEN [job[r] EXCEPT !.pc = "failed"]
               ELSE [NewJob EXCEPT !.pc = "queued", !.try = job[r].try + 1]]
  BY DEF Crash
<1>3. NewJob \in JobRow
  BY DEF NewJob, JobRow
<1>4. /\ job' \in [Request -> JobRow]
      /\ \A q \in Request :
           \/ job'[q] = job[q] /\ (job[q].pc = "active" => job[q].at # w)
           \/ job[q].pc = "active" /\ job'[q].pc \in {"queued", "failed"}
  <2>1. \A q \in Request : job[q] \in JobRow
    BY DEF AbortInv, ShapeInv
  <2>2. ASSUME NEW q \in Request
        PROVE  /\ job'[q] \in JobRow
               /\ \/ job'[q] = job[q] /\ (job[q].pc = "active" => job[q].at # w)
                  \/ job[q].pc = "active" /\ job'[q].pc \in {"queued", "failed"}
    <3>1. CASE job[q].pc # "active" \/ job[q].at # w
      BY <1>2, <2>1, <3>1
    <3>2. CASE job[q].pc = "active" /\ job'[q] = [job[q] EXCEPT !.pc = "failed"]
      BY <2>1, <3>2 DEF JobRow
    <3>3. CASE job[q].pc = "active"
                 /\ job'[q] = [NewJob EXCEPT !.pc = "queued", !.try = job[q].try + 1]
      <4>1. job[q].try + 1 \in Nat
        BY <2>1 DEF JobRow
      <4> QED
        BY <1>3, <3>3, <4>1 DEF JobRow
    <3> QED
      BY <1>2, <3>1, <3>2, <3>3
  <2>3. job' = [q \in Request |-> job'[q]]
    BY <1>2
  <2> QED
    BY <2>2, <2>3
<1>5. pool' \in [Server \cup Worker -> [Chat -> Request \cup {NoJob}]]
  BY <1>1 DEF AbortInv, ShapeInv
<1>6. JobsAreAwaited' /\ JobsArePlaced'
  BY <1>1, <1>4 DEF AbortInv, JobsAreAwaited, JobsArePlaced, At
<1>7. RunningIsAbortable'
  BY <1>1, <1>4 DEF AbortInv, RunningIsAbortable, ShapeInv, ChatOf
<1> QED
  BY <1>1, <1>4, <1>5, <1>6, <1>7, JobsMove

-----------------------------------------------------------------------------
(* The steps of Redis and of the relay.                                    *)

LEMMA SubscribeKeeps ==
  ASSUME AbortInv, NEW t \in subs, Subscribe(t)
  PROVE  AbortInv'
<1>1. /\ job' = job /\ pool' = pool /\ unsubs' = unsubs
      /\ req' = [r \in Request |->
                  IF t.by # By(r) THEN req[r]
                  ELSE CASE At(r, "subscribing") -> [req[r] EXCEPT !.pc = "build"]
                         [] At(r, "binding")     -> [req[r] EXCEPT !.pc = "bind"]
                         [] OTHER                -> req[r]]
  BY DEF Subscribe
<1>2. \A q \in Request :
        \/ req'[q] = req[q]
        \/ /\ req[q].pc \in {"subscribing", "binding"} /\ req'[q].pc \in {"build", "bind"}
           /\ req'[q] \in RequestRow
           /\ req'[q].server = req[q].server /\ req'[q].chat = req[q].chat
  <2> SUFFICES ASSUME NEW q \in Request
               PROVE  \/ req'[q] = req[q]
                      \/ /\ req[q].pc \in {"subscribing", "binding"}
                         /\ req'[q].pc \in {"build", "bind"} /\ req'[q] \in RequestRow
                         /\ req'[q].server = req[q].server /\ req'[q].chat = req[q].chat
    OBVIOUS
  <2>1. req[q] \in RequestRow
    BY DEF AbortInv, ShapeInv
  <2>2. \/ req'[q] = req[q]
        \/ At(q, "subscribing") /\ req'[q] = [req[q] EXCEPT !.pc = "build"]
        \/ At(q, "binding") /\ req'[q] = [req[q] EXCEPT !.pc = "bind"]
    BY <1>1
  <2> QED
    BY <2>1, <2>2 DEF RequestRow, Pcs, At
<1>3. req' \in [Request -> RequestRow]
  BY <1>1, <1>2 DEF AbortInv, ShapeInv
<1>4. ShapeInv' /\ Exclusive'
  <2>1. \A q \in Request :
          Busy(q)' = Busy(q) /\ ServerOf(q)' = ServerOf(q) /\ ChatOf(q)' = ChatOf(q)
    BY <1>2 DEF Busy, ServerOf, ChatOf
  <2>2. Exclusive'
    BY <2>1 DEF AbortInv, Exclusive
  <2> QED
    BY <1>1, <1>3, <2>1, <2>2 DEF AbortInv, ShapeInv
<1>5. JobsAreAwaited' /\ JobsArePlaced'
  BY <1>1, <1>2 DEF AbortInv, JobsAreAwaited, JobsArePlaced, At
<1>6. UnsubscriptionsAreAwaited'
  BY <1>1, <1>2 DEF AbortInv, UnsubscriptionsAreAwaited, At, ServerOf, ChatOf, Token, By
<1>7. RunningIsAbortable'
  BY <1>1, <1>2 DEF AbortInv, RunningIsAbortable, ChatOf
<1> QED
  BY <1>4, <1>5, <1>6, <1>7 DEF AbortInv

(* The request that waits for an unsubscription has no job any more.       *)
LEMMA UnsubscribeKeeps ==
  ASSUME AbortInv, NEW t \in unsubs, Unsubscribe(t)
  PROVE  AbortInv'
<1>1. job' = job /\ pool' = pool /\ unsubs' = unsubs \ {t}
  BY DEF Unsubscribe, UnsubscribeEnd
<1>2. CASE ~ \E r \in Request : t.by = By(r)
  BY <1>1, <1>2, RelayMoves DEF Unsubscribe
<1>3. CASE \E r \in Request : t.by = By(r)
  <2>1. PICK r \in Request : t.by = By(r) /\ Moves(r, "done")
    BY <1>3 DEF Unsubscribe
  <2>2. /\ At(r, "unsubscribing") /\ req[r] \in RequestRow
        /\ t = Token(ServerOf(r), ChatOf(r), By(r))
        /\ \A u \in unsubs : u.by = By(r) => u = t
    BY <2>1 DEF AbortInv, UnsubscriptionsAreAwaited, ShapeInv
  <2>3. /\ req' \in [Request -> RequestRow] /\ req'[r].pc = "done"
        /\ \A q \in Request : q # r => req'[q] = req[q]
    BY <2>1, <2>2 DEF Moves, AbortInv, ShapeInv, RequestRow, Pcs
  <2>4. ShapeInv' /\ Exclusive'
    BY <1>1, <2>3 DEF AbortInv, ShapeInv, Exclusive, Busy, ServerOf, ChatOf
  <2>5. JobsAreAwaited' /\ JobsArePlaced'
    BY <1>1, <2>2, <2>3 DEF AbortInv, JobsAreAwaited, JobsArePlaced, At
  <2>6. UnsubscriptionsAreAwaited'
    BY <1>1, <2>2, <2>3 DEF AbortInv, UnsubscriptionsAreAwaited, At, ServerOf, ChatOf, Token, By
  <2>7. RunningIsAbortable'
    BY <1>1, <2>2, <2>3 DEF AbortInv, RunningIsAbortable, JobsAreAwaited, At, ChatOf
  <2> QED
    BY <2>4, <2>5, <2>6, <2>7 DEF AbortInv
<1> QED
  BY <1>2, <1>3

LEMMA RelaysKeeps ==
  ASSUME AbortInv, Relays
  PROVE  AbortInv'
<1>1. req' = req /\ job' = job /\ pool' = pool
  BY DEF Relays, jobVars
<1>2. \A t \in unsubs' \ unsubs : t.by = Cleaner
  <2>1. CASE \E l \in Listener : Heartbeat(l) \/ Unregister(l)
    BY <2>1 DEF Heartbeat, Unregister
  <2>2. CASE \E m \in binds : HandleBind(m)
    BY <2>2 DEF HandleBind
  <2>3. CASE \E s \in Server : Cleanup(s)
    BY <2>3 DEF Cleanup, Token
  <2> QED
    BY <2>1, <2>2, <2>3 DEF Relays
<1> QED
  BY <1>1, <1>2, RelayMoves

LEMMA WatchersKeeps ==
  ASSUME AbortInv, Watchers \/ Leaves \/ \E w \in Worker : Deliver(w)
  PROVE  AbortInv'
<1>1. req' = req /\ job' = job /\ pool' = pool /\ unsubs' = unsubs
  BY DEF Watchers, Leaves, Deliver, jobVars, OpenListener, DropDead, HangUp, CloseListener,
                    LoseListener
<1> QED
  BY <1>1, RelayMoves

-----------------------------------------------------------------------------
LEMMA AbortInvStarts == Init => AbortInv
<1> SUFFICES ASSUME Init PROVE AbortInv
  OBVIOUS
<1>1. /\ req = [r \in Request |-> NewRequest] /\ job = [r \in Request |-> NewJob]
      /\ pool = [p \in Server \cup Worker |-> [c \in Chat |-> NoJob]] /\ unsubs = {}
  BY DEF Init, RelayInit
<1>2. NewRequest \in RequestRow /\ NewRequest.pc = "idle"
  BY DEF NewRequest, RequestRow, Pcs
<1>3. NewJob \in JobRow /\ NewJob.pc = "none"
  BY DEF NewJob, JobRow
<1> QED
  BY <1>1, <1>2, <1>3
  DEF AbortInv, ShapeInv, Exclusive, JobsAreAwaited, JobsArePlaced, UnsubscriptionsAreAwaited,
      RunningIsAbortable, Busy

LEMMA ReadInvStarts == Init => ReadInv
BY DEF Init, RelayInit, ReadInv

LEMMA ReadInvStays ==
  ASSUME AbortInv, ReadInv, [Next]_vars
  PROVE  ReadInv'
<1>1. CASE UNCHANGED <<setup, usage, registry, listener>>
  BY <1>1 DEF ReadInv
<1>2. CASE Relays \/ Watchers \/ Leaves
  <2>1. UNCHANGED <<setup, usage>>
    BY <1>2 DEF Relays, Watchers, Leaves, jobVars
  <2>2. \/ UNCHANGED <<registry, listener>>
        \/ \E l \in Listener : Heartbeat(l) \/ Unregister(l) \/ CloseListener(l) \/ LoseListener(l)
        \/ \E l \in Listener, s \in Server : OpenListener(l, s)
    BY <1>2 DEF Relays, Watchers, Leaves, HandleBind, Cleanup, HangUp, DropDead
  <2>3. ASSUME NEW l \in Listener, Heartbeat(l) \/ Unregister(l) \/ CloseListener(l) \/ LoseListener(l)
        PROVE  ReadInv'
    BY <2>1, <2>3 DEF ReadInv, Heartbeat, Unregister, CloseListener, LoseListener
  <2>4. ASSUME NEW l \in Listener, NEW s \in Server, OpenListener(l, s)
        PROVE  ReadInv'
    BY <2>1, <2>4 DEF ReadInv, OpenListener
  <2> QED
    BY <1>1, <2>1, <2>2, <2>3, <2>4
<1>3. ASSUME NEW r \in Request, StoreUsage(r) PROVE ReadInv'
  <2>1. req[r].seen \in Int /\ limit \in Int
    BY JobsAssumption DEF AbortInv, ShapeInv, RequestRow, ReadInv, limit
  <2>2. usage' \in Int
    BY <1>3, <2>1 DEF StoreUsage, Counted
  <2> QED
    BY <1>3, <2>2 DEF ReadInv, StoreUsage, Finishes
<1>4. CASE \E r \in Request : Begin(r)
  BY <1>1, <1>4 DEF Begin, BeginPrediction, BeginWebhook, relayVars
<1>5. ASSUME NEW r \in Request, LookUp(r) \/ Bind(r) \/ Bound(r) \/ ReadUsage(r) PROVE ReadInv'
  BY <1>1, <1>5 DEF LookUp, Bind, Bound, ReadUsage, relayVars
<1>6. ASSUME NEW r \in Request, Build(r) \/ Resolve(r) PROVE ReadInv'
  BY <1>1, <1>6 DEF Build, Resolve, Finishes, relayVars
<1>7. ASSUME NEW r \in Request, Emit(r) \/ Finish(r) \/ \E w \in Worker : Pick(w, r)
      PROVE  ReadInv'
  BY <1>1, <1>7 DEF Emit, Finish, Pick, relayVars
<1>8. CASE \E w \in Worker : Deliver(w) \/ Crash(w) \/ \E c \in Chat : HandleAbort(w, c)
  BY <1>1, <1>8 DEF Deliver, Crash, HandleAbort, relayVars
<1>9. CASE Redis \/ \E s \in Server, c \in Chat : Abort(s, c)
  BY <1>1, <1>9 DEF Redis, Subscribe, Unsubscribe, SubscribeEnd, UnsubscribeEnd, Abort, relayVars
<1>10. CASE UNCHANGED vars
  BY <1>1, <1>10 DEF vars, relayVars, jobVars
<1> QED
  BY <1>2, <1>3, <1>4, <1>5, <1>6, <1>7, <1>8, <1>9, <1>10 DEF Next, Serve

LEMMA AbortInvStays ==
  ASSUME Overlap = FALSE, AbortInv, ReadInv, [Next]_vars
  PROVE  AbortInv'
<1>1. CASE UNCHANGED vars
  BY <1>1, RelayMoves DEF vars, relayVars, jobVars
<1>2. CASE \E r \in Request : Begin(r)
  BY <1>2, BeginPredictionKeeps, BeginWebhookKeeps DEF Begin
<1>3. CASE \E r \in Request : Serve(r)
  BY <1>3, LookUpKeeps, BindKeeps, BoundKeeps, BuildKeeps, ResolveKeeps, ReadUsageKeeps,
     StoreUsageKeeps DEF Serve
<1>4. CASE \E r \in Request : Emit(r) \/ Finish(r)
  BY <1>4, EmitKeeps, FinishKeeps
<1>5. CASE \E w \in Worker, r \in Request : Pick(w, r)
  BY <1>5, PickKeeps
<1>6. CASE \E s \in Server, c \in Chat : Abort(s, c)
  BY <1>6, AbortKeeps
<1>7. CASE \E w \in Worker : Crash(w) \/ \E c \in Chat : HandleAbort(w, c)
  BY <1>7, CrashKeeps, HandleAbortKeeps
<1>8. CASE Redis
  BY <1>8, SubscribeKeeps, UnsubscribeKeeps DEF Redis
<1>9. CASE Relays
  BY <1>9, RelaysKeeps
<1>10. CASE Watchers \/ Leaves \/ \E w \in Worker : Deliver(w)
  BY <1>10, WatchersKeeps
<1> QED
  BY <1>1, <1>2, <1>3, <1>4, <1>5, <1>6, <1>7, <1>8, <1>9, <1>10 DEF Next

(* Whatever workers crash and whatever is aborted, the controller that a   *)
(* process keeps for a chat (AbortControllerPool, 13) is the one of the    *)
(* flow that runs there, as long as the requests of a chat do not overlap. *)
THEOREM RunningFlowsAreAbortable ==
  ASSUME Overlap = FALSE
  PROVE  Spec => []RunningIsAbortable
<1> DEFINE Inv == AbortInv /\ ReadInv
<1>1. Init => Inv
  BY AbortInvStarts, ReadInvStarts
<1>2. Inv /\ [Next]_vars => Inv'
  BY AbortInvStays, ReadInvStays
<1>3. Inv => RunningIsAbortable
  BY DEF AbortInv
<1> QED
  BY <1>1, <1>2, <1>3, PTL DEF Spec

-----------------------------------------------------------------------------
(* The predictions quota.                                                  *)

(* The predictions whose count is stored.                                  *)
Stored == {r \in Succeeded : req[r].pc \in {"unsubscribing", "done"}}

QuotaInv ==
  /\ IsFiniteSet(Succeeded)
  /\ usage =< Cardinality(Stored)
  /\ \A r \in Request :
       /\ At(r, "count") \/ At(r, "store") => job[r].pc = "done"
       /\ job[r].pc = "done" => req[r].pc \in {"waiting", "count", "store", "unsubscribing", "done"}
       /\ At(r, "store") => req[r].seen =< Cardinality(Stored)
       /\ req[r].refused => limit # -1 /\ limit =< Cardinality(Succeeded)

LEMMA StoredFacts ==
  ASSUME QuotaInv
  PROVE  /\ IsFiniteSet(Stored) /\ Cardinality(Stored) \in Nat /\ Cardinality(Succeeded) \in Nat
         /\ Cardinality(Stored) =< Cardinality(Succeeded)
<1>1. Stored \subseteq Succeeded
  BY DEF Stored
<1> QED
  BY <1>1, FS_Subset, FS_CardinalityType DEF QuotaInv

(* A request moves while its flow has not succeeded, goes on to be counted *)
(* when it has, or ends.                                                   *)
NotCounting(r) ==
  /\ job'[r].pc = "done" <=> job[r].pc = "done"
  /\ req'[r].refused => req[r].refused
  /\ \/ req'[r].pc = req[r].pc /\ req'[r].seen = req[r].seen
     \/ job[r].pc # "done" /\ req'[r].pc \notin {"count", "store"}
     \/ At(r, "waiting") /\ job[r].pc = "done" /\ req'[r].pc = "count"
     \/ At(r, "unsubscribing") /\ req'[r].pc = "done"

LEMMA QuotaSame ==
  ASSUME QuotaInv, UNCHANGED <<usage, setup>>, \A r \in Request : NotCounting(r)
  PROVE  QuotaInv'
<1>1. Succeeded' = Succeeded
  BY DEF Succeeded, NotCounting
<1>2. Stored' = Stored
  BY <1>1 DEF Stored, Succeeded, NotCounting, At, QuotaInv
<1> QED
  BY <1>1, <1>2 DEF QuotaInv, NotCounting, At, limit

(* A step of the request r alone.                                          *)
LEMMA QuotaSameForOne ==
  ASSUME AbortInv, QuotaInv, UNCHANGED <<usage, setup, job>>, NEW r \in Request,
         NEW locals \in RequestRow, req' = [req EXCEPT ![r] = locals],
         locals.refused => req[r].refused,
         \/ job[r].pc # "done" /\ locals.pc \notin {"count", "store"}
         \/ At(r, "waiting") /\ job[r].pc = "done" /\ locals.pc = "count"
         \/ At(r, "unsubscribing") /\ locals.pc = "done"
  PROVE  QuotaInv'
<1>1. req'[r] = locals /\ \A q \in Request : q # r => req'[q] = req[q]
  BY DEF AbortInv, ShapeInv
<1>2. \A q \in Request : NotCounting(q)
  BY <1>1 DEF NotCounting
<1> QED
  BY <1>2, QuotaSame

LEMMA EarlyQuota ==
  ASSUME AbortInv, ReadInv, QuotaInv, NEW r \in Request,
         LookUp(r) \/ Bind(r) \/ Bound(r) \/ Begin(r)
  PROVE  QuotaInv'
<1>1. UNCHANGED <<usage, setup, job>> /\ job[r].pc # "done" /\ req[r] \in RequestRow
  BY DEF LookUp, Bind, Bound, Begin, BeginPrediction, BeginWebhook, Begins, At, QuotaInv,
         AbortInv, ShapeInv
<1>2. \A q \in Request : q # r => req'[q] = req[q]
  BY DEF LookUp, Bind, Bound, Begin, BeginPrediction, BeginWebhook, Asks, Moves, AbortInv, ShapeInv
<1>3. req'[r].pc \notin {"count", "store"} /\ (req'[r].refused => req[r].refused)
  <2>1. CASE LookUp(r) \/ Bound(r)
    BY <1>1, <2>1 DEF LookUp, Bound, Moves, AbortInv, ShapeInv, RequestRow
  <2>2. CASE Bind(r)
    BY <1>1, <2>2 DEF Bind, At, AbortInv, ShapeInv, RequestRow
  <2>3. CASE Begin(r)
    <3>1. PICK s \in Server, c \in Chat :
            BeginPrediction(r, s, c) \/ \E kind \in Kinds : BeginWebhook(r, s, c, kind)
      BY <2>3 DEF Begin
    <3>2. CASE BeginPrediction(r, s, c)
      BY <3>2 DEF BeginPrediction, PcAfterSubscribe, Asks, NewRequest, AbortInv, ShapeInv
    <3>3. ASSUME NEW kind \in Kinds, BeginWebhook(r, s, c, kind)
          PROVE  req'[r].pc \notin {"count", "store"} /\ (req'[r].refused => req[r].refused)
      BY <3>3 DEF BeginWebhook, Asks, NewRequest, AbortInv, ShapeInv
    <3> QED
      BY <3>1, <3>2, <3>3
  <2> QED
    BY <2>1, <2>2, <2>3
<1>4. \A q \in Request : NotCounting(q)
  BY <1>1, <1>2, <1>3 DEF NotCounting
<1> QED
  BY <1>1, <1>4, QuotaSame

LEMMA FinishesQuota ==
  ASSUME AbortInv, QuotaInv, NEW r \in Request, NEW what, Finishes(r, what, req[r]),
         UNCHANGED <<usage, setup, job>>, job[r].pc # "done"
  PROVE  QuotaInv'
<1> DEFINE old == IF mode = "queue" /\ req[r].kind = "predict"
                  THEN NewUnsubscriptions(ServerOf(r), ChatOf(r), By(r)) ELSE {}
           pc == IF old = {} THEN "done" ELSE "unsubscribing"
           locals == [req[r] EXCEPT !.pc = pc]
<1>1. req' = [req EXCEPT ![r] = locals]
  BY DEF Finishes
<1>2. pc \in {"done", "unsubscribing"}
  OBVIOUS
<1> HIDE DEF old, pc
<1>3. locals \in RequestRow /\ locals.pc = pc /\ locals.refused = req[r].refused
  BY <1>2 DEF AbortInv, ShapeInv, RequestRow, Pcs
<1> HIDE DEF locals
<1> QED
  BY <1>1, <1>2, <1>3, QuotaSameForOne

LEMMA BuildQuota ==
  ASSUME AbortInv, ReadInv, QuotaInv, NEW r \in Request, Build(r)
  PROVE  QuotaInv'
<1>1. /\ At(r, "build") /\ UNCHANGED <<usage, setup>> /\ req[r] \in RequestRow
      /\ job[r].pc # "done" /\ job[r] \in JobRow
  BY DEF Build, At, QuotaInv, AbortInv, ShapeInv
<1>2. CASE ~ Spent
  <2>1. /\ req' = [req EXCEPT ![r].pc = "waiting"]
        /\ \/ job' = [job EXCEPT ![r].pc = "queued"]
           \/ job' = [job EXCEPT ![r].pc = "active", ![r].at = ServerOf(r)]
    BY <1>2 DEF Build, Moves
  <2>2. /\ \A q \in Request : q # r => req'[q] = req[q] /\ job'[q] = job[q]
        /\ req'[r].pc = "waiting" /\ req'[r].refused = req[r].refused
        /\ job'[r].pc # "done"
    BY <1>1, <2>1 DEF AbortInv, ShapeInv, RequestRow, JobRow
  <2>3. \A q \in Request : NotCounting(q)
    BY <1>1, <2>2 DEF NotCounting
  <2> QED
    BY <1>1, <2>3, QuotaSame
(* A refusal: the count has reached the limit, and it never runs ahead.    *)
<1>3. CASE Spent
  <2> DEFINE old == IF mode = "queue" /\ req[r].kind = "predict"
                    THEN NewUnsubscriptions(ServerOf(r), ChatOf(r), By(r)) ELSE {}
             pc == IF old = {} THEN "done" ELSE "unsubscribing"
             locals == [[req[r] EXCEPT !.refused = TRUE] EXCEPT !.pc = pc]
  <2>1. req' = [req EXCEPT ![r] = locals] /\ job' = job
    BY <1>3 DEF Build, Finishes
  <2>2. pc \in {"done", "unsubscribing"}
    OBVIOUS
  <2> HIDE DEF old, pc
  <2>3. locals.pc = pc
    BY <1>1 DEF RequestRow
  <2> HIDE DEF locals
  <2>4. req'[r] = locals /\ \A q \in Request : q # r => req'[q] = req[q]
    BY <2>1 DEF AbortInv, ShapeInv
  <2>5. Succeeded' = Succeeded
    BY <2>1 DEF Succeeded
  <2>6. Stored' = Stored
    BY <1>1, <2>4, <2>5 DEF Stored, Succeeded
  <2>7. limit # -1 /\ limit =< Cardinality(Succeeded)
    <3>1. limit \in Int /\ usage \in Int
      BY JobsAssumption DEF ReadInv, limit
    <3> QED
      BY <1>3, <3>1, StoredFacts DEF Spent, QuotaInv
  <2>8. /\ IsFiniteSet(Succeeded)' /\ (usage =< Cardinality(Stored))'
        /\ (limit # -1)' /\ (limit =< Cardinality(Succeeded))'
    BY <1>1, <2>5, <2>6, <2>7 DEF QuotaInv, limit
  <2>9. \A q \in Request :
          /\ (At(q, "count") \/ At(q, "store") => job[q].pc = "done")'
          /\ (job[q].pc = "done" =>
                req[q].pc \in {"waiting", "count", "store", "unsubscribing", "done"})'
          /\ (At(q, "store") => req[q].seen =< Cardinality(Stored))'
    BY <2>1, <2>2, <2>3, <2>4, <2>6 DEF QuotaInv, At
  <2> QED
    BY <2>8, <2>9 DEF QuotaInv
<1> QED
  BY <1>2, <1>3

LEMMA ResolveQuota ==
  ASSUME AbortInv, QuotaInv, NEW r \in Request, Resolve(r)
  PROVE  QuotaInv'
<1>1. At(r, "waiting") /\ UNCHANGED <<usage, setup, job>>
  BY DEF Resolve
<1>2. CASE job[r].pc = "failed" /\ Finishes(r, "error", req[r])
  BY <1>1, <1>2, FinishesQuota
<1>3. CASE job[r].pc = "done" /\ Moves(r, "count")
  <2> DEFINE locals == [req[r] EXCEPT !.pc = "count"]
  <2>1. req' = [req EXCEPT ![r] = locals]
    BY <1>3 DEF Moves, AbortInv, ShapeInv
  <2>2. locals \in RequestRow /\ locals.pc = "count" /\ locals.refused = req[r].refused
    BY DEF AbortInv, ShapeInv, RequestRow, Pcs
  <2> HIDE DEF locals
  <2> QED
    BY <1>1, <1>3, <2>1, <2>2, QuotaSameForOne
<1> QED
  BY <1>2, <1>3 DEF Resolve

LEMMA ReadUsageQuota ==
  ASSUME AbortInv, QuotaInv, NEW r \in Request, ReadUsage(r)
  PROVE  QuotaInv'
<1>1. /\ At(r, "count") /\ UNCHANGED <<usage, setup, job>> /\ req[r] \in RequestRow
      /\ job[r].pc = "done" /\ req' = [req EXCEPT ![r].pc = "store", ![r].seen = usage]
  BY DEF ReadUsage, QuotaInv, AbortInv, ShapeInv
<1>2. /\ req'[r].pc = "store" /\ req'[r].seen = usage /\ req'[r].refused = req[r].refused
      /\ \A q \in Request : q # r => req'[q] = req[q]
  BY <1>1 DEF AbortInv, ShapeInv, RequestRow
<1>3. Succeeded' = Succeeded /\ Stored' = Stored
  BY <1>1, <1>2 DEF Succeeded, Stored, At
<1>4. /\ IsFiniteSet(Succeeded)' /\ usage' =< Cardinality(Stored)'
      /\ limit' = limit /\ Cardinality(Succeeded)' = Cardinality(Succeeded)
  BY <1>1, <1>3 DEF QuotaInv, limit
<1>5. ASSUME NEW q \in Request
      PROVE  /\ At(q, "count")' \/ At(q, "store")' => job'[q].pc = "done"
             /\ job'[q].pc = "done" =>
                  req'[q].pc \in {"waiting", "count", "store", "unsubscribing", "done"}
             /\ At(q, "store")' => req'[q].seen =< Cardinality(Stored)'
             /\ req'[q].refused => limit' # -1 /\ limit' =< Cardinality(Succeeded)'
  <2>1. CASE q = r
    BY <1>1, <1>2, <1>3, <1>4, <2>1 DEF QuotaInv, At
  <2>2. CASE q # r
    BY <1>1, <1>2, <1>3, <1>4, <2>2 DEF QuotaInv, At
  <2> QED
    BY <2>1, <2>2
<1> QED
  BY <1>4, <1>5 DEF QuotaInv

(* The count that is stored is at most one more than the predictions that  *)
(* were counted when it was read.                                          *)
LEMMA StoreUsageQuota ==
  ASSUME AbortInv, ReadInv, QuotaInv, NEW r \in Request, StoreUsage(r)
  PROVE  QuotaInv'
<1> DEFINE old == IF mode = "queue" /\ req[r].kind = "predict"
                  THEN NewUnsubscriptions(ServerOf(r), ChatOf(r), By(r)) ELSE {}
           pc == IF old = {} THEN "done" ELSE "unsubscribing"
           locals == [[req[r] EXCEPT !.seen = 0] EXCEPT !.pc = pc]
<1>1. /\ At(r, "store") /\ UNCHANGED <<setup, job>> /\ usage' = Counted(req[r].seen)
      /\ req' = [req EXCEPT ![r] = locals] /\ req[r] \in RequestRow
  BY DEF StoreUsage, Finishes, AbortInv, ShapeInv
<1>2. pc \in {"done", "unsubscribing"}
  OBVIOUS
<1> HIDE DEF old, pc
<1>3. locals.pc = pc /\ locals.refused = req[r].refused
  BY <1>1 DEF RequestRow
<1> HIDE DEF locals
<1>4. req'[r] = locals /\ \A q \in Request : q # r => req'[q] = req[q]
  BY <1>1 DEF AbortInv, ShapeInv
<1>5. r \in Succeeded /\ r \notin Stored
  BY <1>1 DEF QuotaInv, Succeeded, Stored, At
<1>6. Succeeded' = Succeeded
  BY <1>1 DEF Succeeded
<1>7. Stored' = Stored \cup {r}
  BY <1>2, <1>3, <1>4, <1>5, <1>6 DEF Stored, Succeeded
<1>8. Cardinality(Stored') = Cardinality(Stored) + 1
  BY <1>5, <1>7, StoredFacts, FS_AddElement
<1>9. usage' =< Cardinality(Stored) + 1
  <2>1. req[r].seen =< Cardinality(Stored) /\ req[r].seen \in Int /\ limit \in Int
        /\ Cardinality(Stored) \in Nat
    BY <1>1, StoredFacts, JobsAssumption DEF QuotaInv, RequestRow, ReadInv, limit
  <2> QED
    BY <1>1, <2>1 DEF Counted
<1>10. Cardinality(Stored) \in Nat
  BY StoredFacts
<1>11. /\ IsFiniteSet(Succeeded)' /\ (usage =< Cardinality(Stored))'
  BY <1>6, <1>8, <1>9 DEF QuotaInv
<1>12. \A q \in Request :
         /\ (At(q, "count") \/ At(q, "store") => job[q].pc = "done")'
         /\ (job[q].pc = "done" =>
               req[q].pc \in {"waiting", "count", "store", "unsubscribing", "done"})'
         /\ (req[q].refused => limit # -1 /\ limit =< Cardinality(Succeeded))'
  BY <1>1, <1>2, <1>3, <1>4, <1>6 DEF QuotaInv, At, limit
<1>13. ASSUME NEW q \in Request, At(q, "store")' PROVE req'[q].seen =< Cardinality(Stored')
  <2>1. q # r /\ req'[q] = req[q] /\ req[q].seen =< Cardinality(Stored) /\ req[q].seen \in Int
    BY <1>2, <1>3, <1>4, <1>13 DEF QuotaInv, At, AbortInv, ShapeInv, RequestRow
  <2> QED
    BY <1>8, <1>10, <2>1
<1> QED
  BY <1>11, <1>12, <1>13 DEF QuotaInv

(* A flow ends: the request that waits for it is not counted yet.          *)
LEMMA FinishQuota ==
  ASSUME AbortInv, ReadInv, QuotaInv, NEW r \in Request, Finish(r)
  PROVE  QuotaInv'
<1>1. PICK outcome \in {"done", "failed"} : job' = [job EXCEPT ![r].pc = outcome]
  BY DEF Finish
<1>2. UNCHANGED <<usage, setup, req>> /\ At(r, "waiting") /\ job[r].pc = "active"
  BY DEF Finish, AbortInv, JobsAreAwaited
<1>3. job'[r].pc = outcome /\ \A q \in Request : q # r => job'[q] = job[q]
  BY <1>1 DEF AbortInv, ShapeInv, JobRow
<1>4. Succeeded' = Succeeded \/ Succeeded' = Succeeded \cup {r}
  BY <1>2, <1>3 DEF Succeeded
<1>5. /\ IsFiniteSet(Succeeded)' /\ Cardinality(Succeeded) \in Nat
      /\ Cardinality(Succeeded') \in Nat /\ Cardinality(Succeeded) =< Cardinality(Succeeded')
  <2>1. IsFiniteSet(Succeeded)
    BY DEF QuotaInv
  <2>2. IsFiniteSet(Succeeded')
    BY <1>4, <2>1, FS_AddElement
  <2>3. Succeeded \in SUBSET Succeeded'
    BY <1>4
  <2> QED
    BY <2>1, <2>2, <2>3, FS_CardinalityType, FS_Subset
<1>6. Stored' = Stored
  BY <1>2, <1>3 DEF Stored, Succeeded, At
<1>7. limit \in Int
  BY JobsAssumption DEF ReadInv, limit
<1>8. \A q \in Request : (req[q].refused => limit # -1 /\ limit =< Cardinality(Succeeded))'
  BY <1>2, <1>5, <1>7 DEF QuotaInv, limit
<1>9. \A q \in Request :
        /\ (At(q, "count") \/ At(q, "store") => job[q].pc = "done")'
        /\ (job[q].pc = "done" =>
              req[q].pc \in {"waiting", "count", "store", "unsubscribing", "done"})'
        /\ (At(q, "store") => req[q].seen =< Cardinality(Stored))'
  BY <1>2, <1>3, <1>6 DEF QuotaInv, At
<1>10. (usage =< Cardinality(Stored))'
  BY <1>2, <1>6 DEF QuotaInv
<1> QED
  BY <1>5, <1>8, <1>9, <1>10 DEF QuotaInv

(* A step that moves jobs, and ends none with success.                     *)
LEMMA JobsQuota ==
  ASSUME QuotaInv, UNCHANGED <<usage, setup, req>>,
         \A r \in Request : job'[r].pc = "done" <=> job[r].pc = "done"
  PROVE  QuotaInv'
BY QuotaSame DEF NotCounting

LEMMA RunningQuota ==
  ASSUME AbortInv, QuotaInv, NEW r \in Request, Emit(r) \/ \E w \in Worker : Pick(w, r)
  PROVE  QuotaInv'
<1>1. UNCHANGED <<usage, setup, req>>
  BY DEF Emit, Pick
<1>2. CASE Emit(r)
  BY <1>1, <1>2, JobsQuota DEF Emit, AbortInv, ShapeInv, JobRow
<1>3. ASSUME NEW w \in Worker, Pick(w, r) PROVE QuotaInv'
  BY <1>1, <1>3, JobsQuota DEF Pick, AbortInv, ShapeInv, JobRow
<1> QED
  BY <1>2, <1>3

LEMMA AbortedQuota ==
  ASSUME AbortInv, QuotaInv, NEW p \in Server \cup Worker, NEW c \in Chat,
         job' = job \/ job' = Aborted(p, c), UNCHANGED <<usage, setup, req>>
  PROVE  QuotaInv'
<1>1. job \in [Request -> JobRow] /\ pool[p][c] \in Request \cup {NoJob}
  BY DEF AbortInv, ShapeInv
<1>2. CASE job' = job
  BY <1>2, JobsQuota
<1>3. CASE job' # job
  <2> DEFINE q == pool[p][c]
  <2>1. q \in Request /\ job' = [job EXCEPT ![q].aborted = TRUE]
    BY <1>1, <1>3 DEF Aborted
  <2> HIDE DEF q
  <2>2. \A r \in Request : job'[r].pc = job[r].pc
    BY <1>1, <2>1 DEF JobRow
  <2> QED
    BY <2>2, JobsQuota
<1> QED
  BY <1>2, <1>3

LEMMA CrashQuota ==
  ASSUME AbortInv, QuotaInv, NEW w \in Worker, Crash(w)
  PROVE  QuotaInv'
<1>1. UNCHANGED <<usage, setup, req>>
  BY DEF Crash
<1>2. NewJob \in JobRow
  BY DEF NewJob, JobRow
<1>3. ASSUME NEW r \in Request
      PROVE  job'[r].pc = "done" <=> job[r].pc = "done"
  <2>1. job[r] \in JobRow
    BY DEF AbortInv, ShapeInv
  <2>2. \/ job'[r] = job[r]
        \/ job[r].pc = "active" /\ job'[r] = [job[r] EXCEPT !.pc = "failed"]
        \/ job[r].pc = "active"
             /\ job'[r] = [NewJob EXCEPT !.pc = "queued", !.try = job[r].try + 1]
    BY DEF Crash
  <2>3. /\ [job[r] EXCEPT !.pc = "failed"].pc = "failed"
        /\ [NewJob EXCEPT !.pc = "queued", !.try = job[r].try + 1].pc = "queued"
    BY <1>2, <2>1 DEF JobRow
  <2> QED
    BY <2>2, <2>3
<1> QED
  BY <1>1, <1>3, JobsQuota

LEMMA SubscribeQuota ==
  ASSUME AbortInv, QuotaInv, NEW t \in subs, Subscribe(t)
  PROVE  QuotaInv'
<1>1. UNCHANGED <<usage, setup, job>>
  BY DEF Subscribe
<1>2. ASSUME NEW q \in Request PROVE NotCounting(q)
  <2>1. req[q] \in RequestRow
    BY DEF AbortInv, ShapeInv
  <2>2. \/ req'[q] = req[q]
        \/ At(q, "subscribing") /\ req'[q] = [req[q] EXCEPT !.pc = "build"]
        \/ At(q, "binding") /\ req'[q] = [req[q] EXCEPT !.pc = "bind"]
    BY DEF Subscribe
  <2>3. req'[q] # req[q] => /\ job[q].pc # "done" /\ req'[q].pc \in {"build", "bind"}
                            /\ req'[q].refused = req[q].refused
    BY <2>1, <2>2 DEF RequestRow, At, QuotaInv
  <2> QED
    BY <1>1, <2>3 DEF NotCounting
<1> QED
  BY <1>1, <1>2, QuotaSame

LEMMA UnsubscribeQuota ==
  ASSUME AbortInv, QuotaInv, NEW t \in unsubs, Unsubscribe(t)
  PROVE  QuotaInv'
<1>1. UNCHANGED <<usage, setup, job>>
  BY DEF Unsubscribe
<1>2. CASE req' = req
  BY <1>1, <1>2, JobsQuota
<1>3. CASE \E r \in Request : t.by = By(r) /\ Moves(r, "done")
  <2>1. PICK r \in Request : t.by = By(r) /\ Moves(r, "done")
    BY <1>3
  <2> DEFINE locals == [req[r] EXCEPT !.pc = "done"]
  <2>2. At(r, "unsubscribing") /\ req' = [req EXCEPT ![r] = locals]
    BY <2>1 DEF Moves, AbortInv, ShapeInv, UnsubscriptionsAreAwaited
  <2>3. locals \in RequestRow /\ locals.pc = "done" /\ locals.refused = req[r].refused
    BY DEF AbortInv, ShapeInv, RequestRow, Pcs
  <2> HIDE DEF locals
  <2> QED
    BY <1>1, <2>2, <2>3, QuotaSameForOne
<1> QED
  BY <1>2, <1>3 DEF Unsubscribe

LEMMA QuotaInvStarts == Init => QuotaInv
<1> SUFFICES ASSUME Init PROVE QuotaInv
  OBVIOUS
<1>1. \A r \in Request : req[r] = NewRequest /\ job[r] = NewJob
  BY DEF Init
<1>2. Succeeded = {} /\ Stored = {}
  BY <1>1 DEF Succeeded, Stored, NewJob
<1>3. usage = 0
  BY DEF Init
<1> QED
  BY <1>1, <1>2, <1>3, FS_EmptySet DEF QuotaInv, At, NewRequest, NewJob

LEMMA QuotaInvStays ==
  ASSUME AbortInv, ReadInv, QuotaInv, [Next]_vars
  PROVE  QuotaInv'
<1>1. CASE UNCHANGED <<usage, setup, req, job>>
  BY <1>1, JobsQuota
<1>2. CASE UNCHANGED vars \/ Relays \/ Watchers \/ Leaves \/ \E w \in Worker : Deliver(w)
  BY <1>1, <1>2 DEF vars, jobVars, Relays, Watchers, Leaves, Deliver
<1>3. CASE \E r \in Request : Begin(r)
  BY <1>3, EarlyQuota
<1>4. CASE \E r \in Request : Serve(r)
  BY <1>4, EarlyQuota, BuildQuota, ResolveQuota, ReadUsageQuota, StoreUsageQuota DEF Serve
<1>5. CASE \E r \in Request : Emit(r) \/ Finish(r)
  BY <1>5, RunningQuota, FinishQuota
<1>6. CASE \E w \in Worker, r \in Request : Pick(w, r)
  BY <1>6, RunningQuota
<1>7. CASE \E w \in Worker : Crash(w)
  BY <1>7, CrashQuota
<1>8. CASE \E w \in Worker, c \in Chat : HandleAbort(w, c)
  BY <1>8, AbortedQuota DEF HandleAbort
<1>9. CASE \E s \in Server, c \in Chat : Abort(s, c)
  BY <1>9, AbortedQuota DEF Abort
<1>10. CASE Redis
  BY <1>10, SubscribeQuota, UnsubscribeQuota DEF Redis
<1> QED
  BY <1>2, <1>3, <1>4, <1>5, <1>6, <1>7, <1>8, <1>9, <1>10 DEF Next

(* However many predictions of different chats run at once, and although   *)
(* the count is read and stored in separate steps (quotaUsage, 89 and 97), *)
(* nobody is refused before the plan is used up.                           *)
THEOREM NobodyRefusedEarly ==
  ASSUME Overlap = FALSE
  PROVE  Spec => []QuotaNeverEarly
<1> DEFINE Inv == AbortInv /\ ReadInv /\ QuotaInv
<1>1. Init => Inv
  BY AbortInvStarts, ReadInvStarts, QuotaInvStarts
<1>2. Inv /\ [Next]_vars => Inv'
  BY AbortInvStays, ReadInvStays, QuotaInvStays
<1>3. Inv => QuotaNeverEarly
  <2> SUFFICES ASSUME Inv PROVE QuotaNeverEarly
    OBVIOUS
  <2>1. usage \in Int /\ limit \in Int
    BY JobsAssumption DEF ReadInv, limit
  <2> QED
    BY <2>1, StoredFacts DEF QuotaNeverEarly, QuotaInv
<1> QED
  BY <1>1, <1>2, <1>3, PTL DEF Spec

-----------------------------------------------------------------------------
(* The relay: types, and what the operations of an SSEStreamer do.         *)

EventEntry == [what : {"event"}, chat : Chat, job : Request, try : Nat, n : Nat \ {0}]
NoteEntry == [what : {"end", "executionEnd", "error", "metadata"}, chat : ClientId,
              job : {0}, try : {0}, n : {0}]
Entry == EventEntry \cup NoteEntry
RelayRow == [clients : [Server -> [ClientId -> Conn \cup {NoConn}]],
             observers : [Server -> [Chat -> SUBSET Listener]],
             line : [Conn -> {"none", "open", "gone", "ended"}],
             log : [Conn -> SUBSET Entry]]

(* From y to z the entry e was written to the responses conns.             *)
Wrote(y, z, conns, e) ==
  \A k \in Conn : z.log[k] = IF k \in conns /\ y.line[k] # "gone" THEN Recorded(y.log[k], e)
                             ELSE y.log[k]

(* ... and the observers of the chat c of the server s became ls.          *)
Watching(y, z, s, c, ls) ==
  \A t \in Server, d \in Chat :
    z.observers[t][d] = IF t = s /\ d = c THEN ls ELSE y.observers[t][d]

LetsGo(y, z, s, l) ==
  \A t \in Server, d \in Chat :
    z.observers[t][d] = IF t = s THEN y.observers[t][d] \ {l} ELSE y.observers[t][d]

Watches(y, z, s, c, l) == Watching(y, z, s, c, y.observers[s][c] \cup {l})

LEMMA TableUpdate ==
  ASSUME NEW A, NEW B, NEW C, NEW f \in [A -> [B -> C]], NEW a \in A, NEW b \in B, NEW v \in C
  PROVE  /\ [f EXCEPT ![a][b] = v] \in [A -> [B -> C]]
         /\ \A t \in A, d \in B :
              [f EXCEPT ![a][b] = v][t][d] = IF t = a /\ d = b THEN v ELSE f[t][d]
OBVIOUS

LEMMA NoteFacts ==
  ASSUME NEW what \in {"end", "executionEnd", "error", "metadata"}, NEW c \in ClientId
  PROVE  /\ Note(what, c) \in Entry
         /\ Note(what, c).what = what /\ Note(what, c).chat = c /\ Note(what, c).job = 0
BY DEF Note, Entry, NoteEntry

LEMMA SentFacts ==
  ASSUME NEW y \in RelayRow, NEW conns, NEW e \in Entry
  PROVE  /\ Sent(y, conns, e) \in [Conn -> SUBSET Entry]
         /\ \A k \in Conn : Sent(y, conns, e)[k] =
              IF k \in conns /\ y.line[k] # "gone" THEN Recorded(y.log[k], e) ELSE y.log[k]
<1>1. \A k \in Conn : y.log[k] \in SUBSET Entry /\ Recorded(y.log[k], e) \in SUBSET Entry
  BY DEF RelayRow, Recorded
<1> QED
  BY <1>1 DEF Sent

LEMMA SafeWriteFacts ==
  ASSUME NEW y \in RelayRow, NEW s \in Server, NEW c \in Chat, NEW e \in Entry,
         NEW z, z = SafeWrite(y, s, c, e)
  PROVE  /\ z \in RelayRow /\ z.clients = y.clients /\ z.line = y.line
         /\ Wrote(y, z, Lines(y, s, {c} \cup y.observers[s][c]), e)
         /\ Watching(y, z, s, c, Connected(y, s, y.observers[s][c]))
<1>1. PICK log : log = Sent(y, Lines(y, s, {c} \cup y.observers[s][c]), e)
  OBVIOUS
<1>2. PICK kept : kept = Connected(y, s, y.observers[s][c])
  OBVIOUS
<1>3. PICK observers : observers = [y.observers EXCEPT ![s][c] = kept]
  OBVIOUS
<1>4. z = [y EXCEPT !.log = log, !.observers = observers]
  BY <1>1, <1>2, <1>3 DEF SafeWrite
<1>5. y.observers \in [Server -> [Chat -> SUBSET Listener]] /\ y \in RelayRow
  BY DEF RelayRow
<1>6. kept \in SUBSET Listener
  BY <1>2, <1>5 DEF Connected
<1>7. /\ observers \in [Server -> [Chat -> SUBSET Listener]]
      /\ \A t \in Server, d \in Chat :
           observers[t][d] = IF t = s /\ d = c THEN kept ELSE y.observers[t][d]
  BY <1>3, <1>5, <1>6, TableUpdate
<1>8. /\ log \in [Conn -> SUBSET Entry]
      /\ \A k \in Conn : log[k] =
           IF k \in Lines(y, s, {c} \cup y.observers[s][c]) /\ y.line[k] # "gone"
           THEN Recorded(y.log[k], e) ELSE y.log[k]
  BY <1>1, SentFacts
<1>9. /\ z \in RelayRow /\ z.clients = y.clients /\ z.line = y.line /\ z.log = log
      /\ z.observers = observers
  <2>1. observers \in [Server -> [Chat -> SUBSET Listener]]
    BY <1>7
  <2>2. log \in [Conn -> SUBSET Entry]
    BY <1>8
  <2> QED
    BY <1>4, <1>5, <2>1, <2>2 DEF RelayRow
<1> QED
  BY <1>2, <1>7, <1>8, <1>9 DEF Wrote, Watching

LEMMA AddClientFacts ==
  ASSUME NEW y \in RelayRow, NEW s \in Server, NEW i \in ClientId, NEW k \in Conn,
         NEW z, z = AddClient(y, s, i, k)
  PROVE  /\ z \in RelayRow /\ z.observers = y.observers /\ z.log = y.log
         /\ \A t \in Server, j \in ClientId :
              z.clients[t][j] = IF t = s /\ j = i THEN k ELSE y.clients[t][j]
         /\ \A q \in Conn : z.line[q] = IF q = k THEN "open" ELSE y.line[q]
<1>1. PICK clients : clients = [y.clients EXCEPT ![s][i] = k]
  OBVIOUS
<1>2. PICK line : line = [y.line EXCEPT ![k] = "open"]
  OBVIOUS
<1>3. z = [y EXCEPT !.clients = clients, !.line = line]
  BY <1>1, <1>2 DEF AddClient
<1>4. y.clients \in [Server -> [ClientId -> Conn \cup {NoConn}]]
  BY DEF RelayRow
<1>5. /\ clients \in [Server -> [ClientId -> Conn \cup {NoConn}]]
      /\ \A t \in Server, j \in ClientId :
           clients[t][j] = IF t = s /\ j = i THEN k ELSE y.clients[t][j]
  BY <1>1, <1>4, TableUpdate
<1>6. /\ line \in [Conn -> {"none", "open", "gone", "ended"}]
      /\ \A q \in Conn : line[q] = IF q = k THEN "open" ELSE y.line[q]
  BY <1>2 DEF RelayRow
<1>7. /\ z \in RelayRow /\ z.observers = y.observers /\ z.log = y.log
      /\ z.clients = clients /\ z.line = line
  <2>1. clients \in [Server -> [ClientId -> Conn \cup {NoConn}]]
    BY <1>5
  <2>2. line \in [Conn -> {"none", "open", "gone", "ended"}]
    BY <1>6
  <2> QED
    BY <1>3, <2>1, <2>2 DEF RelayRow
<1> QED
  BY <1>5, <1>6, <1>7

LEMMA AddObserverFacts ==
  ASSUME NEW y \in RelayRow, NEW s \in Server, NEW c \in Chat, NEW l \in Listener,
         NEW z, z = AddObserver(y, s, c, l)
  PROVE  /\ z \in RelayRow /\ z.clients = y.clients /\ z.log = y.log /\ z.line = y.line
         /\ Watches(y, z, s, c, l)
<1>1. PICK observers : observers = [y.observers EXCEPT ![s][c] = y.observers[s][c] \cup {l}]
  OBVIOUS
<1>2. z = [y EXCEPT !.observers = observers]
  BY <1>1 DEF AddObserver
<1>3. y.observers \in [Server -> [Chat -> SUBSET Listener]]
  BY DEF RelayRow
<1>4. y.observers[s][c] \cup {l} \in SUBSET Listener
  BY <1>3
<1>5. /\ observers \in [Server -> [Chat -> SUBSET Listener]]
      /\ \A t \in Server, d \in Chat :
           observers[t][d] = IF t = s /\ d = c THEN y.observers[s][c] \cup {l}
                             ELSE y.observers[t][d]
  BY <1>1, <1>3, <1>4, TableUpdate
<1>6. /\ z \in RelayRow /\ z.clients = y.clients /\ z.log = y.log /\ z.line = y.line
      /\ z.observers = observers
  <2>1. observers \in [Server -> [Chat -> SUBSET Listener]]
    BY <1>5
  <2> QED
    BY <1>2, <2>1 DEF RelayRow
<1> QED
  BY <1>5, <1>6 DEF Watching, Watches

LEMMA EndedFacts ==
  ASSUME NEW y \in RelayRow, NEW s \in Server, NEW i \in ClientId, NEW z, z = Ended(y, s, i)
  PROVE  /\ z \in RelayRow /\ z.observers = y.observers
         /\ \A t \in Server, j \in ClientId :
              z.clients[t][j] = IF t = s /\ j = i THEN NoConn ELSE y.clients[t][j]
         /\ Wrote(y, z, {y.clients[s][i]}, Note("end", i))
         /\ \A k \in Conn : z.line[k] = IF k = y.clients[s][i] /\ y.line[k] # "gone" THEN "ended"
                                        ELSE y.line[k]
<1>1. PICK k : k = y.clients[s][i]
  OBVIOUS
<1>2. /\ k \in Conn \cup {NoConn} /\ NoConn \notin Conn
      /\ y.clients \in [Server -> [ClientId -> Conn \cup {NoConn}]]
      /\ y.observers \in [Server -> [Chat -> SUBSET Listener]]
  BY <1>1, RelayDistinct DEF RelayRow
<1>3. CASE k = NoConn
  BY <1>1, <1>2, <1>3 DEF Ended, Wrote
<1>4. CASE k # NoConn
  <2>1. PICK log : log = Sent(y, {k}, Note("end", i))
    OBVIOUS
  <2>2. PICK line : line = [y.line EXCEPT ![k] = IF @ = "gone" THEN @ ELSE "ended"]
    OBVIOUS
  <2>3. PICK clients : clients = [y.clients EXCEPT ![s][i] = NoConn]
    OBVIOUS
  <2>4. z = [y EXCEPT !.log = log, !.line = line, !.clients = clients]
    BY <1>1, <1>4, <2>1, <2>2, <2>3 DEF Ended
  <2>5. /\ log \in [Conn -> SUBSET Entry]
        /\ \A q \in Conn : log[q] = IF q \in {k} /\ y.line[q] # "gone"
                                    THEN Recorded(y.log[q], Note("end", i)) ELSE y.log[q]
    BY <2>1, NoteFacts, SentFacts
  <2>6. /\ line \in [Conn -> {"none", "open", "gone", "ended"}]
        /\ \A q \in Conn : line[q] = IF q = k /\ y.line[q] # "gone" THEN "ended" ELSE y.line[q]
    BY <1>2, <1>4, <2>2 DEF RelayRow
  <2>7. /\ clients \in [Server -> [ClientId -> Conn \cup {NoConn}]]
        /\ \A t \in Server, j \in ClientId :
             clients[t][j] = IF t = s /\ j = i THEN NoConn ELSE y.clients[t][j]
    BY <1>2, <2>3, TableUpdate
  <2>8. PICK observers : observers = y.observers
    OBVIOUS
  <2>9. /\ z \in RelayRow /\ z.observers = observers /\ z.log = log
        /\ z.clients = clients /\ z.line = line
    <3>1. observers \in [Server -> [Chat -> SUBSET Listener]]
      BY <1>2, <2>8
    <3>2. log \in [Conn -> SUBSET Entry]
      BY <2>5
    <3>3. line \in [Conn -> {"none", "open", "gone", "ended"}]
      BY <2>6
    <3>4. clients \in [Server -> [ClientId -> Conn \cup {NoConn}]]
      BY <2>7
    <3> QED
      BY <2>4, <2>8, <3>1, <3>2, <3>3, <3>4 DEF RelayRow
  <2> QED
    BY <1>1, <2>5, <2>6, <2>7, <2>8, <2>9 DEF Wrote
<1> QED
  BY <1>3, <1>4

LEMMA ToldFacts ==
  ASSUME NEW y \in RelayRow, NEW s \in Server, NEW c \in Chat, NEW z, z = Told(y, s, c)
  PROVE  /\ z \in RelayRow /\ z.clients = y.clients /\ z.line = y.line
         /\ Wrote(y, z, Lines(y, s, y.observers[s][c]), Note("executionEnd", c))
         /\ Watching(y, z, s, c, {})
<1>1. PICK log : log = Sent(y, Lines(y, s, y.observers[s][c]), Note("executionEnd", c))
  OBVIOUS
<1>2. PICK observers : observers = [y.observers EXCEPT ![s][c] = {}]
  OBVIOUS
<1>3. z = [y EXCEPT !.log = log, !.observers = observers]
  BY <1>1, <1>2 DEF Told
<1>4. /\ log \in [Conn -> SUBSET Entry]
      /\ \A k \in Conn : log[k] =
           IF k \in Lines(y, s, y.observers[s][c]) /\ y.line[k] # "gone"
           THEN Recorded(y.log[k], Note("executionEnd", c)) ELSE y.log[k]
  BY <1>1, NoteFacts, SentFacts DEF ClientId
<1>5. y.observers \in [Server -> [Chat -> SUBSET Listener]] /\ {} \in SUBSET Listener
  BY DEF RelayRow
<1>6. /\ observers \in [Server -> [Chat -> SUBSET Listener]]
      /\ \A t \in Server, d \in Chat :
           observers[t][d] = IF t = s /\ d = c THEN {} ELSE y.observers[t][d]
  BY <1>2, <1>5, TableUpdate
<1>7. /\ z \in RelayRow /\ z.clients = y.clients /\ z.line = y.line /\ z.log = log
      /\ z.observers = observers
  <2>1. observers \in [Server -> [Chat -> SUBSET Listener]]
    BY <1>6
  <2>2. log \in [Conn -> SUBSET Entry]
    BY <1>4
  <2> QED
    BY <1>3, <2>1, <2>2 DEF RelayRow
<1> QED
  BY <1>4, <1>6, <1>7 DEF Wrote, Watching

(* Chats are no listeners, so that removing the client of a chat takes     *)
(* nobody off the lists of other chats, and removing a listener tells no   *)
(* one.                                                                    *)
LEMMA RemoveChatFacts ==
  ASSUME NEW y \in RelayRow, NEW s \in Server, NEW c \in Chat, NEW z, z = RemoveClient(y, s, c)
  PROVE  \E x \in RelayRow :
           /\ x = Ended(y, s, c) /\ z \in RelayRow
           /\ z.clients = x.clients /\ z.line = x.line
           /\ Wrote(x, z, Lines(x, s, x.observers[s][c]), Note("executionEnd", c))
           /\ Watching(x, z, s, c, {})
<1>1. PICK x : x = Ended(y, s, c)
  OBVIOUS
<1>2. PICK told : told = Told(x, s, c)
  OBVIOUS
<1>3. x \in RelayRow
  BY <1>1, EndedFacts DEF ClientId
<1>4. /\ told \in RelayRow /\ told.clients = x.clients /\ told.line = x.line
      /\ Wrote(x, told, Lines(x, s, x.observers[s][c]), Note("executionEnd", c))
      /\ Watching(x, told, s, c, {})
  BY <1>2, <1>3, ToldFacts
<1>5. PICK row : row = [d \in Chat |-> told.observers[s][d] \ {c}]
  OBVIOUS
<1>6. told.observers \in [Server -> [Chat -> SUBSET Listener]] /\ c \notin Listener
  BY <1>4, RelayIds DEF RelayRow
<1>7. row = told.observers[s]
  BY <1>5, <1>6
<1>8. PICK observers : observers = [told.observers EXCEPT ![s] = row]
  OBVIOUS
<1>9. observers = told.observers
  BY <1>6, <1>7, <1>8
<1>10. z = [told EXCEPT !.observers = observers]
  BY <1>1, <1>2, <1>5, <1>8 DEF RemoveClient
<1>11. z = told
  BY <1>4, <1>9, <1>10 DEF RelayRow
<1> QED
  BY <1>1, <1>3, <1>4, <1>11

LEMMA RemoveListenerFacts ==
  ASSUME NEW y \in RelayRow, NEW s \in Server, NEW l \in Listener, NEW z,
         z = RemoveClient(y, s, l)
  PROVE  \E x \in RelayRow :
           /\ x = Ended(y, s, l) /\ z \in RelayRow
           /\ z.clients = x.clients /\ z.line = x.line /\ z.log = x.log
           /\ LetsGo(x, z, s, l)
<1>1. PICK x : x = Ended(y, s, l)
  OBVIOUS
<1>2. x \in RelayRow /\ l \notin Chat
  BY <1>1, EndedFacts, RelayIds DEF ClientId
<1>3. PICK row : row = [d \in Chat |-> x.observers[s][d] \ {l}]
  OBVIOUS
<1>4. PICK observers : observers = [x.observers EXCEPT ![s] = row]
  OBVIOUS
<1>5. z = [x EXCEPT !.observers = observers]
  BY <1>1, <1>2, <1>3, <1>4 DEF RemoveClient, Told
<1>6. x.observers \in [Server -> [Chat -> SUBSET Listener]]
  BY <1>2 DEF RelayRow
<1>7. row \in [Chat -> SUBSET Listener] /\ \A d \in Chat : row[d] = x.observers[s][d] \ {l}
  BY <1>3, <1>6
<1>8. /\ observers \in [Server -> [Chat -> SUBSET Listener]]
      /\ \A t \in Server, d \in Chat :
           observers[t][d] = IF t = s THEN x.observers[t][d] \ {l} ELSE x.observers[t][d]
  BY <1>4, <1>6, <1>7
<1>9. /\ z \in RelayRow /\ z.clients = x.clients /\ z.line = x.line /\ z.log = x.log
      /\ z.observers = observers
  <2>1. observers \in [Server -> [Chat -> SUBSET Listener]]
    BY <1>8
  <2> QED
    BY <1>2, <1>5, <2>1 DEF RelayRow
<1>10. LetsGo(x, z, s, l)
  BY <1>8, <1>9 DEF LetsGo
<1> QED
  BY <1>1, <1>2, <1>9, <1>10

(* The responses that a message on the channel of c reaches.               *)
Readers(c) == UNION {Lines(relay, s, {c} \cup relay.observers[s][c]) : s \in Receivers(c)}

LEMMA PublishedFacts ==
  ASSUME relay \in RelayRow, NEW c \in Chat, NEW e \in Entry, NEW z, z = Published(c, e)
  PROVE  /\ z \in RelayRow /\ z.clients = relay.clients /\ z.line = relay.line
         /\ Wrote(relay, z, Readers(c), e)
         /\ \A t \in Server, d \in Chat :
              z.observers[t][d] = IF t \in Receivers(c) /\ d = c
                                  THEN Connected(relay, t, relay.observers[t][c])
                                  ELSE relay.observers[t][d]
<1>1. PICK conns : conns = Readers(c)
  OBVIOUS
<1>2. PICK log : log = Sent(relay, conns, e)
  OBVIOUS
<1>3. PICK observers :
        observers = [s \in Server |-> IF s \in Receivers(c)
                       THEN [relay.observers[s] EXCEPT
                               ![c] = Connected(relay, s, relay.observers[s][c])]
                       ELSE relay.observers[s]]
  OBVIOUS
<1>4. z = [relay EXCEPT !.log = log, !.observers = observers]
  BY <1>1, <1>2, <1>3 DEF Published, Readers
<1>5. relay.observers \in [Server -> [Chat -> SUBSET Listener]]
  BY DEF RelayRow
<1>6. \A s \in Server : Connected(relay, s, relay.observers[s][c]) \in SUBSET Listener
  BY <1>5 DEF Connected
<1>7. /\ observers \in [Server -> [Chat -> SUBSET Listener]]
      /\ \A t \in Server, d \in Chat :
           observers[t][d] = IF t \in Receivers(c) /\ d = c
                             THEN Connected(relay, t, relay.observers[t][c])
                             ELSE relay.observers[t][d]
  BY <1>3, <1>5, <1>6
<1>8. /\ log \in [Conn -> SUBSET Entry]
      /\ \A k \in Conn : log[k] = IF k \in conns /\ relay.line[k] # "gone"
                                  THEN Recorded(relay.log[k], e) ELSE relay.log[k]
  BY <1>2, SentFacts
<1>9. /\ z \in RelayRow /\ z.clients = relay.clients /\ z.line = relay.line /\ z.log = log
      /\ z.observers = observers
  <2>1. observers \in [Server -> [Chat -> SUBSET Listener]]
    BY <1>7
  <2>2. log \in [Conn -> SUBSET Entry]
    BY <1>8
  <2> QED
    BY <1>4, <2>1, <2>2 DEF RelayRow
<1> QED
  BY <1>1, <1>7, <1>8, <1>9 DEF Wrote

-----------------------------------------------------------------------------
(* How a request goes on: it keeps its server, chat and kind once they are *)
(* known.                                                                  *)

Asked(r) == ~ At(r, "idle")
Early(r) == req[r].pc \in {"idle", "lookup", "bind", "binding"}
Jobless(r) == Early(r) \/ req[r].pc \in {"subscribing", "build"}

AskedInv ==
  \A r \in Request :
    /\ Asked(r) => ServerOf(r) \in Server /\ ChatOf(r) \in Chat /\ req[r].kind \in Kinds
    /\ At(r, "idle") => ChatOf(r) = NoConn

Goes(r) ==
  /\ req'[r].server = req[r].server /\ req'[r].chat = req[r].chat /\ req'[r].kind = req[r].kind
  /\ Asked(r)' <=> Asked(r)
  /\ Early(r)' => Early(r)
  /\ Jobless(r)' => Jobless(r)
  /\ At(r, "done") => At(r, "done")'

Starts(r) ==
  /\ At(r, "idle") /\ req'[r].pc \in {"lookup", "subscribing", "build"}
  /\ req'[r].server \in Server /\ req'[r].chat \in Chat /\ req'[r].kind \in Kinds

LEMMA StartsFacts ==
  ASSUME AbortInv, NEW r \in Request, NEW s \in Server, NEW c \in Chat, NEW kind \in Kinds,
         NEW pc, Asks(r, kind, s, c, pc)
  PROVE  /\ req'[r].pc = pc /\ req'[r].server = s /\ req'[r].chat = c /\ req'[r].kind = kind
         /\ \A q \in Request : q # r => req'[q] = req[q]
<1>1. req' = [req EXCEPT ![r] = [NewRequest EXCEPT !.pc = pc, !.kind = kind, !.server = s,
                                                   !.chat = c]]
  BY DEF Asks
<1> QED
  BY <1>1 DEF AbortInv, ShapeInv, NewRequest

LEMMA FinishesGoes ==
  ASSUME AbortInv, NEW r \in Request, NEW what, NEW locals \in RequestRow,
         Finishes(r, what, locals), locals.server = ServerOf(r), locals.chat = ChatOf(r),
         locals.kind = req[r].kind
  PROVE  /\ req'[r].pc \in {"done", "unsubscribing"}
         /\ req'[r].server = req[r].server /\ req'[r].chat = req[r].chat
         /\ req'[r].kind = req[r].kind
         /\ \A q \in Request : q # r => req'[q] = req[q]
<1>1. PICK pc \in {"done", "unsubscribing"} : req' = [req EXCEPT ![r] = [locals EXCEPT !.pc = pc]]
  BY DEF Finishes
<1> QED
  BY <1>1 DEF AbortInv, ShapeInv, RequestRow, ServerOf, ChatOf

LEMMA RequestsGo ==
  ASSUME AbortInv, [Next]_vars, NEW r \in Request
  PROVE  Goes(r) \/ Starts(r)
<1>1. CASE req' = req
  BY <1>1 DEF Goes, Asked, At, Early, Jobless
<1>2. CASE UNCHANGED vars \/ Relays \/ Watchers \/ Leaves \/ \E w \in Worker : Deliver(w)
  BY <1>1, <1>2 DEF vars, jobVars, Relays, Watchers, Leaves, Deliver
<1>3. ASSUME NEW q \in Request, NEW s \in Server, NEW c \in Chat, BeginPrediction(q, s, c)
      PROVE  Goes(r) \/ Starts(r)
  <2>1. PICK pc \in {"build", "subscribing"} : Asks(q, "predict", s, c, pc)
    BY <1>3 DEF BeginPrediction, PcAfterSubscribe
  <2>2. At(q, "idle") /\ "predict" \in Kinds
    BY <1>3 DEF BeginPrediction, Begins, Kinds
  <2> QED
    BY <2>1, <2>2, StartsFacts DEF Goes, Starts, Asked, At, Early, Jobless
<1>4. ASSUME NEW q \in Request, NEW s \in Server, NEW c \in Chat, NEW kind \in Kinds,
             BeginWebhook(q, s, c, kind)
      PROVE  Goes(r) \/ Starts(r)
  <2>1. Asks(q, kind, s, c, "lookup") /\ At(q, "idle")
    BY <1>4 DEF BeginWebhook, Begins
  <2> QED
    BY <2>1, StartsFacts DEF Goes, Starts, Asked, At, Early, Jobless
<1>5. ASSUME NEW q \in Request, LookUp(q) \/ Bind(q) \/ Bound(q) \/ ReadUsage(q)
      PROVE  Goes(r)
  <2>1. req[q] \in RequestRow /\ req \in [Request -> RequestRow]
    BY DEF AbortInv, ShapeInv
  <2>2. CASE LookUp(q)
    BY <2>1, <2>2 DEF LookUp, Goes, Asked, At, Early, Jobless, RequestRow
  <2>3. CASE Bound(q)
    BY <2>1, <2>3 DEF Bound, Moves, Goes, Asked, At, Early, Jobless, RequestRow
  <2>4. CASE ReadUsage(q)
    BY <2>1, <2>4 DEF ReadUsage, Goes, Asked, At, Early, Jobless, RequestRow
  <2>5. CASE Bind(q)
    <3>1. PICK entry \in req[q].todo :
            \/ req' = [req EXCEPT ![q].todo = @ \ {entry}]
            \/ req' = [[req EXCEPT ![q].todo = @ \ {entry}] EXCEPT ![q].pc = "binding"]
      BY <2>5 DEF Bind
    <3> QED
      BY <2>1, <2>5, <3>1 DEF Bind, Goes, Asked, At, Early, Jobless, RequestRow
  <2> QED
    BY <1>5, <2>2, <2>3, <2>4, <2>5
<1>6. ASSUME NEW q \in Request, Build(q) \/ Resolve(q) \/ StoreUsage(q)
      PROVE  Goes(r)
  <2>1. /\ req[q] \in RequestRow /\ req \in [Request -> RequestRow]
        /\ req[q].pc \in {"build", "waiting", "store"}
    BY <1>6 DEF AbortInv, ShapeInv, Build, Resolve, StoreUsage, At
  <2>2. CASE Moves(q, "waiting") \/ Moves(q, "count")
    BY <2>1, <2>2 DEF Moves, Goes, Asked, At, Early, Jobless, RequestRow
  <2>3. CASE \/ Finishes(q, "error", req[q])
             \/ Finishes(q, "error", [req[q] EXCEPT !.refused = TRUE])
             \/ Finishes(q, "metadata", [req[q] EXCEPT !.seen = 0])
    <3>1. PICK what, locals :
            /\ Finishes(q, what, locals)
            /\ \/ locals = req[q]
               \/ locals = [req[q] EXCEPT !.refused = TRUE]
               \/ locals = [req[q] EXCEPT !.seen = 0]
      BY <2>3
    <3>2. /\ locals \in RequestRow /\ locals.server = ServerOf(q) /\ locals.chat = ChatOf(q)
          /\ locals.kind = req[q].kind
      <4>1. CASE locals = req[q]
        BY <2>1, <4>1 DEF ServerOf, ChatOf
      <4>2. CASE locals = [req[q] EXCEPT !.refused = TRUE]
        BY <2>1, <4>2 DEF RequestRow, ServerOf, ChatOf
      <4>3. CASE locals = [req[q] EXCEPT !.seen = 0]
        BY <2>1, <4>3 DEF RequestRow, ServerOf, ChatOf
      <4> QED
        BY <3>1, <4>1, <4>2, <4>3
    <3> QED
      BY <2>1, <3>1, <3>2, FinishesGoes DEF Goes, Asked, At, Early, Jobless
  <2> QED
    BY <1>6, <2>2, <2>3 DEF Build, Resolve, StoreUsage
<1>7. ASSUME NEW q \in Request, Emit(q) \/ Finish(q) \/ \E w \in Worker : Pick(w, q)
      PROVE  Goes(r)
  BY <1>1, <1>7 DEF Emit, Finish, Pick, Goes, Asked, At, Early, Jobless
<1>8. CASE \/ \E w \in Worker : Crash(w) \/ \E c \in Chat : HandleAbort(w, c)
           \/ \E s \in Server, c \in Chat : Abort(s, c)
  BY <1>1, <1>8 DEF Crash, HandleAbort, Abort
<1>9. CASE Redis
  <2>1. req[r] \in RequestRow /\ req \in [Request -> RequestRow]
    BY DEF AbortInv, ShapeInv
  <2>2. ASSUME NEW t \in subs, Subscribe(t) PROVE Goes(r)
    <3>1. \/ req'[r] = req[r]
          \/ At(r, "subscribing") /\ req'[r] = [req[r] EXCEPT !.pc = "build"]
          \/ At(r, "binding") /\ req'[r] = [req[r] EXCEPT !.pc = "bind"]
      BY <2>2 DEF Subscribe
    <3> QED
      BY <2>1, <3>1 DEF Goes, Asked, At, Early, Jobless, RequestRow
  <2>3. ASSUME NEW t \in unsubs, Unsubscribe(t) PROVE Goes(r)
    <3>1. CASE req' = req
      BY <3>1 DEF Goes, Asked, At, Early, Jobless
    <3>2. ASSUME NEW q \in Request, t.by = By(q), Moves(q, "done") PROVE Goes(r)
      <4>1. At(q, "unsubscribing")
        BY <3>2 DEF AbortInv, UnsubscriptionsAreAwaited
      <4> QED
        BY <2>1, <3>2, <4>1 DEF Moves, Goes, Asked, At, Early, Jobless, RequestRow
    <3> QED
      BY <2>3, <3>1, <3>2 DEF Unsubscribe
  <2> QED
    BY <1>9, <2>2, <2>3 DEF Redis
<1> QED
  BY <1>2, <1>3, <1>4, <1>5, <1>6, <1>7, <1>8, <1>9 DEF Next, Begin, Serve

LEMMA AskedInvStays ==
  ASSUME AbortInv, AskedInv, [Next]_vars
  PROVE  AskedInv'
<1> SUFFICES ASSUME NEW r \in Request
             PROVE  /\ Asked(r)' => /\ ServerOf(r)' \in Server /\ ChatOf(r)' \in Chat
                                    /\ req'[r].kind \in Kinds
                    /\ At(r, "idle")' => ChatOf(r)' = NoConn
  BY DEF AskedInv
<1>1. Goes(r) \/ Starts(r)
  BY RequestsGo
<1> QED
  BY <1>1 DEF Goes, Starts, AskedInv, Asked, At, ServerOf, ChatOf

LEMMA AskedInvStarts == Init => AskedInv
BY DEF Init, AskedInv, NewRequest, At, Asked, ChatOf

-----------------------------------------------------------------------------
(* Events under way.                                                       *)

(* The event e of the job it names is on its way from the worker w.        *)
Travels(w, e) ==
  /\ e.chat = ChatOf(e.job) /\ e.try = job[e.job].try
  /\ job[e.job].at = w /\ e.n =< job[e.job].sent

OutboxInv ==
  /\ outbox \in [Worker -> Seq(EventEntry)]
  /\ \A r \in Request :
       /\ job[r].pc \in {"none", "queued"} => job[r].sent = 0
       /\ Jobless(r) => job[r].pc = "none"
       /\ job[r].pc = "queued" => mode = "queue"
       /\ job[r].pc = "active" => (job[r].at \in Worker <=> mode = "queue")
  /\ mode # "queue" => \A w \in Worker : outbox[w] = <<>>
  /\ \A w \in Worker : \A i \in 1 .. Len(outbox[w]) : Travels(w, outbox[w][i])
  /\ \A w \in Worker : \A i, j \in 1 .. Len(outbox[w]) :
       i < j /\ outbox[w][i].job = outbox[w][j].job => outbox[w][i].n < outbox[w][j].n

LEMMA OutboxEntry ==
  ASSUME OutboxInv, NEW w \in Worker, NEW i \in 1 .. Len(outbox[w])
  PROVE  /\ outbox[w][i] \in EventEntry /\ outbox[w][i] \in Entry
         /\ outbox[w][i].what = "event" /\ outbox[w][i].chat \in Chat
         /\ outbox[w][i].job \in Request /\ outbox[w][i].try \in Nat
         /\ outbox[w][i].n \in Nat /\ outbox[w][i].n > 0
<1>1. outbox[w] \in Seq(EventEntry)
  BY DEF OutboxInv
<1>2. outbox[w][i] \in EventEntry
  BY <1>1, ElementOfSeq
<1> QED
  BY <1>2 DEF EventEntry, Entry

(* A job moves, its events under way stay.                                 *)
JobKeeps(r) ==
  /\ job'[r].sent = job[r].sent
  /\ job[r].sent # 0 => job'[r].try = job[r].try /\ job'[r].at = job[r].at
  /\ job'[r].pc \in {"none", "queued"} => job[r].sent = 0
  /\ Jobless(r)' => job'[r].pc = "none"
  /\ job'[r].pc = "queued" => mode = "queue"
  /\ job'[r].pc = "active" => (job'[r].at \in Worker <=> mode = "queue")

LEMMA OutboxSame ==
  ASSUME AbortInv, OutboxInv, outbox' = outbox, setup' = setup,
         \A r \in Request : Goes(r) \/ Starts(r), \A r \in Request : JobKeeps(r)
  PROVE  OutboxInv'
<1>1. \A w \in Worker : \A i \in 1 .. Len(outbox[w]) : Travels(w, outbox[w][i])'
  <2> SUFFICES ASSUME NEW w \in Worker, NEW i \in 1 .. Len(outbox[w])
               PROVE  Travels(w, outbox[w][i])'
    OBVIOUS
  <2>1. PICK e : e = outbox[w][i]
    OBVIOUS
  <2>2. e.job \in Request /\ e.n > 0 /\ e.n \in Nat /\ Travels(w, e)
    BY <2>1, OutboxEntry DEF OutboxInv
  <2>3. job[e.job].sent \in Nat /\ job[e.job].sent # 0
    BY <2>2 DEF AbortInv, ShapeInv, JobRow, Travels
  <2>4. ~ Starts(e.job)
    BY <2>2, <2>3 DEF Starts, OutboxInv, Jobless, Early, At
  <2>5. Travels(w, e)'
    BY <2>2, <2>3, <2>4 DEF Travels, Goes, JobKeeps, ChatOf
  <2> QED
    BY <2>1, <2>5 DEF Travels, ChatOf
<1>2. \A r \in Request :
        /\ job'[r].pc \in {"none", "queued"} => job'[r].sent = 0
        /\ Jobless(r)' => job'[r].pc = "none"
        /\ job'[r].pc = "queued" => mode' = "queue"
        /\ job'[r].pc = "active" => (job'[r].at \in Worker <=> mode' = "queue")
  BY DEF JobKeeps, mode
<1> QED
  BY <1>1, <1>2 DEF OutboxInv, mode

LEMMA JobStays ==
  ASSUME AbortInv, OutboxInv, NEW r \in Request, job'[r] = job[r], Goes(r) \/ Starts(r)
  PROVE  JobKeeps(r)
BY DEF JobKeeps, OutboxInv, Goes, Starts, Jobless, Early, At

LEMMA OutboxQuiet ==
  ASSUME AbortInv, OutboxInv, outbox' = outbox, setup' = setup, job' = job,
         \A r \in Request : Goes(r) \/ Starts(r)
  PROVE  OutboxInv'
BY JobStays, OutboxSame

LEMMA BuildOutbox ==
  ASSUME AbortInv, AskedInv, OutboxInv, \A q \in Request : Goes(q) \/ Starts(q),
         NEW r \in Request, Build(r)
  PROVE  OutboxInv'
<1>1. UNCHANGED <<outbox, setup>> /\ At(r, "build") /\ job[r] \in JobRow
  BY DEF Build, AbortInv, ShapeInv
<1>2. CASE Spent
  BY <1>1, <1>2, OutboxQuiet DEF Build
<1>3. CASE ~ Spent
  <2>1. /\ req' = [req EXCEPT ![r].pc = "waiting"]
        /\ \/ mode = "queue" /\ job' = [job EXCEPT ![r].pc = "queued"]
           \/ mode # "queue" /\ job' = [job EXCEPT ![r].pc = "active", ![r].at = ServerOf(r)]
    BY <1>3 DEF Build, Moves
  <2>2. /\ \A q \in Request : q # r => job'[q] = job[q]
        /\ job'[r].sent = job[r].sent /\ job'[r].try = job[r].try
        /\ \/ mode = "queue" /\ job'[r].pc = "queued"
           \/ mode # "queue" /\ job'[r].pc = "active" /\ job'[r].at = ServerOf(r)
        /\ req'[r].pc = "waiting"
    BY <1>1, <2>1 DEF AbortInv, ShapeInv, JobRow, RequestRow
  <2>3. job[r].sent = 0 /\ ServerOf(r) \notin Worker
    BY <1>1, JobsAssumption DEF OutboxInv, Jobless, At, AskedInv, Asked
  <2>4. JobKeeps(r)
    BY <2>2, <2>3 DEF JobKeeps, Jobless, Early
  <2>5. \A q \in Request : JobKeeps(q)
    BY <2>2, <2>4, JobStays
  <2> QED
    BY <1>1, <2>5, OutboxSame
<1> QED
  BY <1>2, <1>3

LEMMA PickOutbox ==
  ASSUME AbortInv, OutboxInv, \A q \in Request : Goes(q) \/ Starts(q),
         NEW r \in Request, NEW w \in Worker, Pick(w, r)
  PROVE  OutboxInv'
<1>1. /\ UNCHANGED <<outbox, setup, req>> /\ job[r].pc = "queued" /\ job[r] \in JobRow
      /\ job' = [job EXCEPT ![r].pc = "active", ![r].at = w] /\ At(r, "waiting")
  BY DEF Pick, AbortInv, ShapeInv, JobsAreAwaited
<1>2. /\ \A q \in Request : q # r => job'[q] = job[q]
      /\ job'[r].sent = job[r].sent /\ job'[r].pc = "active" /\ job'[r].at = w
  BY <1>1 DEF AbortInv, ShapeInv, JobRow
<1>3. job[r].sent = 0 /\ mode = "queue"
  BY <1>1 DEF OutboxInv
<1>4. JobKeeps(r)
  BY <1>1, <1>2, <1>3 DEF JobKeeps, Jobless, Early, At
<1>5. \A q \in Request : JobKeeps(q)
  BY <1>2, <1>4, JobStays
<1> QED
  BY <1>1, <1>5, OutboxSame

LEMMA FinishOutbox ==
  ASSUME AbortInv, OutboxInv, \A q \in Request : Goes(q) \/ Starts(q),
         NEW r \in Request, Finish(r)
  PROVE  OutboxInv'
<1>1. PICK outcome \in {"done", "failed"} : job' = [job EXCEPT ![r].pc = outcome]
  BY DEF Finish
<1>2. UNCHANGED <<outbox, setup, req>> /\ At(r, "waiting") /\ job[r] \in JobRow
  BY DEF Finish, AbortInv, JobsAreAwaited, ShapeInv
<1>3. /\ \A q \in Request : q # r => job'[q] = job[q]
      /\ job'[r].sent = job[r].sent /\ job'[r].try = job[r].try /\ job'[r].at = job[r].at
      /\ job'[r].pc = outcome
  BY <1>1, <1>2 DEF AbortInv, ShapeInv, JobRow
<1>4. JobKeeps(r)
  BY <1>2, <1>3 DEF JobKeeps, Jobless, Early, At
<1>5. \A q \in Request : JobKeeps(q)
  BY <1>3, <1>4, JobStays
<1> QED
  BY <1>2, <1>5, OutboxSame

LEMMA AbortedOutbox ==
  ASSUME AbortInv, OutboxInv, \A q \in Request : Goes(q) \/ Starts(q),
         NEW p \in Server \cup Worker, NEW c \in Chat,
         job' = job \/ job' = Aborted(p, c), UNCHANGED <<outbox, setup, req>>
  PROVE  OutboxInv'
<1>1. job \in [Request -> JobRow] /\ pool[p][c] \in Request \cup {NoJob}
  BY DEF AbortInv, ShapeInv
<1>2. CASE job' = job
  BY <1>2, OutboxQuiet
<1>3. CASE job' # job
  <2>1. PICK r : r = pool[p][c]
    OBVIOUS
  <2>2. r \in Request /\ job' = [job EXCEPT ![r].aborted = TRUE]
    BY <1>1, <1>3, <2>1 DEF Aborted
  <2>3. /\ \A q \in Request : q # r => job'[q] = job[q]
        /\ job'[r].sent = job[r].sent /\ job'[r].try = job[r].try /\ job'[r].at = job[r].at
        /\ job'[r].pc = job[r].pc
    BY <1>1, <2>2 DEF JobRow
  <2>4. JobKeeps(r)
    BY <2>2, <2>3 DEF JobKeeps, OutboxInv, Jobless, Early
  <2>5. \A q \in Request : JobKeeps(q)
    BY <2>3, <2>4, JobStays
  <2> QED
    BY <2>5, OutboxSame
<1> QED
  BY <1>2, <1>3

(* The worker of a running job publishes its next event.                   *)
LEMMA EmitOutbox ==
  ASSUME AbortInv, AskedInv, OutboxInv, \A q \in Request : Goes(q) \/ Starts(q),
         NEW r \in Request, Emit(r)
  PROVE  OutboxInv'
<1>1. /\ setup' = setup /\ req' = req /\ job[r].pc = "active" /\ job[r] \in JobRow
      /\ job' = [job EXCEPT ![r].sent = @ + 1] /\ At(r, "waiting")
      /\ job[r].at \in Server \cup Worker
  BY DEF Emit, AbortInv, ShapeInv, JobsAreAwaited, JobsArePlaced
<1>2. /\ \A q \in Request : q # r => job'[q] = job[q]
      /\ job'[r].sent = job[r].sent + 1 /\ job'[r].pc = "active" /\ job'[r].at = job[r].at
      /\ job'[r].try = job[r].try
  BY <1>1 DEF AbortInv, ShapeInv, JobRow
<1>3. \A q \in Request :
        /\ job'[q].pc \in {"none", "queued"} => job'[q].sent = 0
        /\ Jobless(q)' => job'[q].pc = "none"
        /\ job'[q].pc = "queued" => mode' = "queue"
        /\ job'[q].pc = "active" => (job'[q].at \in Worker <=> mode' = "queue")
  BY <1>1, <1>2 DEF OutboxInv, Jobless, Early, At, mode
<1>4. ASSUME NEW w \in Worker, NEW e, e.job \in Request, e.n \in Nat, Travels(w, e)
      PROVE  Travels(w, e)'
  <2>1. job[e.job].sent \in Nat
    BY <1>4 DEF AbortInv, ShapeInv, JobRow
  <2> QED
    BY <1>1, <1>2, <1>4, <2>1 DEF Travels, ChatOf
<1>5. CASE mode # "queue"
  <2>1. outbox' = outbox
    BY <1>5 DEF Emit
  <2> QED
    BY <1>1, <1>3, <1>5, <2>1 DEF OutboxInv, mode
<1>6. CASE mode = "queue"
  <2>1. PICK w : w = job[r].at
    OBVIOUS
  <2>2. w \in Worker
    BY <1>1, <1>6, <2>1 DEF OutboxInv
  <2>3. PICK e : e = Event(ChatOf(r), r, job[r].try, job[r].sent + 1)
    OBVIOUS
  <2>4. /\ e \in EventEntry /\ e.chat = ChatOf(r) /\ e.job = r /\ e.try = job[r].try
        /\ e.n = job[r].sent + 1 /\ e.n \in Nat
    <3>1. ChatOf(r) \in Chat /\ job[r].try \in Nat /\ job[r].sent + 1 \in Nat \ {0}
      BY <1>1 DEF AskedInv, Asked, At, JobRow
    <3> QED
      BY <2>3, <3>1 DEF Event, EventEntry
  <2>5. outbox' = [outbox EXCEPT ![w] = Append(outbox[w], e)]
    BY <1>6, <2>1, <2>3 DEF Emit
  <2>6. outbox[w] \in Seq(EventEntry) /\ outbox \in [Worker -> Seq(EventEntry)]
    BY <2>2 DEF OutboxInv
  <2>7. PICK new : new = Append(outbox[w], e)
    OBVIOUS
  <2>8. /\ new \in Seq(EventEntry) /\ Len(new) = Len(outbox[w]) + 1 /\ Len(outbox[w]) \in Nat
        /\ \A i \in 1 .. Len(outbox[w]) : new[i] = outbox[w][i]
        /\ new[Len(outbox[w]) + 1] = e
    BY <2>4, <2>6, <2>7, AppendProperties, LenProperties
  <2>9. /\ outbox' \in [Worker -> Seq(EventEntry)] /\ outbox'[w] = new
        /\ \A v \in Worker : v # w => outbox'[v] = outbox[v]
    BY <2>2, <2>5, <2>6, <2>7, <2>8
  <2>10. Travels(w, e)'
    BY <1>1, <1>2, <2>1, <2>4 DEF Travels, ChatOf
  <2>11. \A v \in Worker : \A i \in 1 .. Len(outbox'[v]) : Travels(v, outbox[v][i])'
    <3> SUFFICES ASSUME NEW v \in Worker, NEW i \in 1 .. Len(outbox'[v])
                 PROVE  Travels(v, outbox[v][i])'
      OBVIOUS
    <3>1. PICK x : x = outbox'[v][i]
      OBVIOUS
    <3>2. CASE v = w /\ i = Len(outbox[w]) + 1
      <4>1. x = e
        BY <2>8, <2>9, <3>1, <3>2
      <4> QED
        BY <2>10, <3>1, <3>2, <4>1 DEF Travels, ChatOf
    <3>3. CASE ~ (v = w /\ i = Len(outbox[w]) + 1)
      <4>1. i \in 1 .. Len(outbox[v]) /\ x = outbox[v][i]
        <5>1. CASE v = w
          <6>1. i \in 1 .. Len(outbox[w])
            BY <2>8, <2>9, <3>3, <5>1
          <6> QED
            BY <2>8, <2>9, <3>1, <5>1, <6>1
        <5>2. CASE v # w
          BY <2>9, <3>1, <5>2
        <5> QED
          BY <5>1, <5>2
      <4>2. x.job \in Request /\ x.n \in Nat /\ Travels(v, x)
        BY <4>1, OutboxEntry DEF OutboxInv
      <4>3. Travels(v, x)'
        BY <1>4, <4>2
      <4> QED
        BY <3>1, <4>3 DEF Travels, ChatOf
    <3> QED
      BY <3>2, <3>3
  <2>12. ASSUME NEW v \in Worker, NEW i \in 1 .. Len(outbox'[v]), NEW j \in 1 .. Len(outbox'[v]),
                i < j, outbox'[v][i].job = outbox'[v][j].job
         PROVE  outbox'[v][i].n < outbox'[v][j].n
    <3>1. CASE v = w /\ j = Len(outbox[w]) + 1
      <4>1. /\ i \in 1 .. Len(outbox[w]) /\ outbox'[v][i] = outbox[w][i] /\ outbox'[v][j] = e
        BY <2>8, <2>9, <2>12, <3>1
      <4>2. outbox[w][i].job = r /\ outbox[w][i].n \in Nat /\ outbox[w][i].n =< job[r].sent
        BY <2>2, <2>4, <2>12, <4>1, OutboxEntry DEF OutboxInv, Travels
      <4>3. job[r].sent \in Nat
        BY <1>1 DEF JobRow
      <4> QED
        BY <2>4, <4>1, <4>2, <4>3
    <3>2. CASE ~ (v = w /\ j = Len(outbox[w]) + 1)
      <4>1. /\ i \in 1 .. Len(outbox[v]) /\ j \in 1 .. Len(outbox[v])
            /\ outbox'[v][i] = outbox[v][i] /\ outbox'[v][j] = outbox[v][j]
        BY <2>8, <2>9, <2>12, <3>2
      <4> QED
        BY <2>12, <4>1 DEF OutboxInv
    <3> QED
      BY <3>1, <3>2
  <2>13. mode' = "queue"
    BY <1>1, <1>6 DEF mode
  <2> QED
    BY <1>3, <2>9, <2>11, <2>12, <2>13 DEF OutboxInv
<1> QED
  BY <1>5, <1>6

LEMMA TailFacts ==
  ASSUME NEW S, NEW s \in Seq(S), s # <<>>
  PROVE  /\ Tail(s) \in Seq(S) /\ Len(s) \in Nat /\ Len(s) > 0 /\ Len(Tail(s)) = Len(s) - 1
         /\ \A i \in 1 .. Len(Tail(s)) : i + 1 \in 1 .. Len(s) /\ Tail(s)[i] = s[i + 1]
         /\ Head(s) = s[1] /\ 1 \in 1 .. Len(s)
BY HeadTailProperties, EmptySeq, LenProperties

LEMMA DeliverOutbox ==
  ASSUME AbortInv, OutboxInv, NEW w \in Worker, Deliver(w)
  PROVE  OutboxInv'
<1>1. /\ UNCHANGED <<setup, req, job>> /\ outbox[w] # <<>>
      /\ outbox' = [outbox EXCEPT ![w] = Tail(@)]
  BY DEF Deliver
<1>2. outbox[w] \in Seq(EventEntry) /\ outbox \in [Worker -> Seq(EventEntry)]
  BY DEF OutboxInv
<1>3. PICK rest : rest = Tail(outbox[w])
  OBVIOUS
<1>4. /\ rest \in Seq(EventEntry) /\ Len(outbox[w]) \in Nat /\ Len(rest) = Len(outbox[w]) - 1
      /\ \A i \in 1 .. Len(rest) : i + 1 \in 1 .. Len(outbox[w]) /\ rest[i] = outbox[w][i + 1]
  BY <1>1, <1>2, <1>3, TailFacts
<1>5. /\ outbox' \in [Worker -> Seq(EventEntry)] /\ outbox'[w] = rest
      /\ \A v \in Worker : v # w => outbox'[v] = outbox[v]
  BY <1>1, <1>2, <1>3, <1>4
<1>6. \A v \in Worker : \A i \in 1 .. Len(outbox'[v]) : Travels(v, outbox[v][i])'
  <2> SUFFICES ASSUME NEW v \in Worker, NEW i \in 1 .. Len(outbox'[v])
               PROVE  Travels(v, outbox[v][i])'
    OBVIOUS
  <2>1. CASE v = w
    <3>1. /\ i \in 1 .. Len(rest) /\ i + 1 \in 1 .. Len(outbox[w])
          /\ outbox'[v][i] = outbox[w][i + 1]
      BY <1>4, <1>5, <2>1
    <3>2. Travels(w, outbox[w][i + 1])
      BY <3>1 DEF OutboxInv
    <3> QED
      BY <1>1, <2>1, <3>1, <3>2 DEF Travels, ChatOf
  <2>2. CASE v # w
    <3>1. i \in 1 .. Len(outbox[v]) /\ outbox'[v][i] = outbox[v][i]
      BY <1>5, <2>2
    <3>2. Travels(v, outbox[v][i])
      BY <3>1 DEF OutboxInv
    <3> QED
      BY <1>1, <3>1, <3>2 DEF Travels, ChatOf
  <2> QED
    BY <2>1, <2>2
<1>7. ASSUME NEW v \in Worker, NEW i \in 1 .. Len(outbox'[v]), NEW j \in 1 .. Len(outbox'[v]),
             i < j, outbox'[v][i].job = outbox'[v][j].job
      PROVE  outbox'[v][i].n < outbox'[v][j].n
  <2>1. CASE v = w
    <3>1. /\ i \in 1 .. Len(rest) /\ j \in 1 .. Len(rest)
          /\ rest[i] = outbox[w][i + 1] /\ rest[j] = outbox[w][j + 1]
          /\ i + 1 \in 1 .. Len(outbox[w]) /\ j + 1 \in 1 .. Len(outbox[w]) /\ i + 1 < j + 1
      BY <1>4, <1>5, <1>7, <2>1
    <3>2. outbox[w][i + 1].job = outbox[w][j + 1].job
      BY <1>5, <1>7, <2>1, <3>1
    <3> QED
      BY <1>5, <2>1, <3>1, <3>2 DEF OutboxInv
  <2>2. CASE v # w
    BY <1>5, <1>7, <2>2 DEF OutboxInv
  <2> QED
    BY <2>1, <2>2
<1>8. mode' # "queue" => \A v \in Worker : outbox'[v] = <<>>
  BY <1>1 DEF OutboxInv, mode
<1>9. \A r \in Request :
        /\ job'[r].pc \in {"none", "queued"} => job'[r].sent = 0
        /\ Jobless(r)' => job'[r].pc = "none"
        /\ job'[r].pc = "queued" => mode' = "queue"
        /\ job'[r].pc = "active" => (job'[r].at \in Worker <=> mode' = "queue")
  BY <1>1 DEF OutboxInv, Jobless, Early, mode
<1> QED
  BY <1>5, <1>6, <1>7, <1>8, <1>9 DEF OutboxInv

(* What a job becomes when a worker dies.                                  *)
LEMMA CrashFacts ==
  ASSUME AbortInv, NEW w \in Worker, Crash(w), NEW r \in Request
  PROVE  \/ job'[r] = job[r] /\ (job[r].pc = "active" => job[r].at # w)
         \/ /\ job[r].pc = "active" /\ job[r].at = w
            /\ \/ job'[r].pc = "failed" /\ job'[r].try = job[r].try
                    /\ job'[r].sent = job[r].sent /\ job'[r].at = w
               \/ job'[r].pc = "queued" /\ job'[r].try = job[r].try + 1 /\ job'[r].sent = 0
<1>1. NewJob \in JobRow /\ job[r] \in JobRow /\ NewJob.sent = 0
  BY DEF NewJob, JobRow, AbortInv, ShapeInv
<1>2. \/ job'[r] = job[r] /\ (job[r].pc = "active" => job[r].at # w)
      \/ job[r].pc = "active" /\ job[r].at = w /\ job'[r] = [job[r] EXCEPT !.pc = "failed"]
      \/ job[r].pc = "active" /\ job[r].at = w
           /\ job'[r] = [NewJob EXCEPT !.pc = "queued", !.try = job[r].try + 1]
  BY DEF Crash
<1>3. CASE job'[r] = [job[r] EXCEPT !.pc = "failed"]
  BY <1>1, <1>2, <1>3 DEF JobRow
<1>4. CASE job'[r] = [NewJob EXCEPT !.pc = "queued", !.try = job[r].try + 1]
  BY <1>1, <1>2, <1>4 DEF JobRow
<1> QED
  BY <1>2, <1>3, <1>4

LEMMA CrashOutbox ==
  ASSUME AbortInv, OutboxInv, NEW w \in Worker, Crash(w)
  PROVE  OutboxInv'
<1>1. /\ UNCHANGED <<setup, req>> /\ mode = "queue" /\ outbox' = [outbox EXCEPT ![w] = <<>>]
  BY DEF Crash
<1>2. /\ outbox' \in [Worker -> Seq(EventEntry)] /\ outbox'[w] = <<>>
      /\ Len(outbox'[w]) = 0 /\ \A v \in Worker : v # w => outbox'[v] = outbox[v]
  BY <1>1, EmptySeq DEF OutboxInv
<1>3. \A r \in Request :
        /\ job'[r].pc \in {"none", "queued"} => job'[r].sent = 0
        /\ Jobless(r)' => job'[r].pc = "none"
        /\ job'[r].pc = "queued" => mode' = "queue"
        /\ job'[r].pc = "active" => (job'[r].at \in Worker <=> mode' = "queue")
  BY <1>1, CrashFacts DEF OutboxInv, Jobless, Early, mode
<1>4. \A v \in Worker : \A i \in 1 .. Len(outbox'[v]) : Travels(v, outbox[v][i])'
  <2> SUFFICES ASSUME NEW v \in Worker, NEW i \in 1 .. Len(outbox'[v])
               PROVE  Travels(v, outbox[v][i])'
    OBVIOUS
  <2>1. v # w /\ outbox'[v][i] = outbox[v][i] /\ i \in 1 .. Len(outbox[v])
    BY <1>2, EmptySeq
  <2>2. PICK e : e = outbox[v][i]
    OBVIOUS
  <2>3. e.job \in Request /\ Travels(v, e)
    BY <2>1, <2>2, OutboxEntry DEF OutboxInv
  <2>4. job'[e.job] = job[e.job] \/ job'[e.job].pc = "failed" \/ job[e.job].at = w
    BY <2>3, CrashFacts
  <2>5. job'[e.job] = job[e.job]
    BY <2>1, <2>3, CrashFacts DEF Travels
  <2> QED
    BY <1>1, <2>1, <2>2, <2>3, <2>5 DEF Travels, ChatOf
<1>5. \A v \in Worker : \A i, j \in 1 .. Len(outbox'[v]) :
        i < j /\ outbox'[v][i].job = outbox'[v][j].job => outbox'[v][i].n < outbox'[v][j].n
  <2> SUFFICES ASSUME NEW v \in Worker, NEW i \in 1 .. Len(outbox'[v]),
                      NEW j \in 1 .. Len(outbox'[v]), i < j,
                      outbox'[v][i].job = outbox'[v][j].job
               PROVE  outbox'[v][i].n < outbox'[v][j].n
    OBVIOUS
  <2>1. v # w
    BY <1>2
  <2>2. outbox'[v] = outbox[v]
    BY <1>2, <2>1
  <2> QED
    BY <2>2 DEF OutboxInv
<1>6. mode' = "queue"
  BY <1>1 DEF mode
<1> QED
  BY <1>2, <1>3, <1>4, <1>5, <1>6 DEF OutboxInv

LEMMA OutboxInvStarts == Init => OutboxInv
<1> SUFFICES ASSUME Init PROVE OutboxInv
  OBVIOUS
<1>1. /\ outbox = [w \in Worker |-> <<>>] /\ \A r \in Request : job[r] = NewJob
  BY DEF Init
<1>2. \A w \in Worker : outbox[w] = <<>> /\ Len(outbox[w]) = 0
  BY <1>1, EmptySeq
<1> QED
  BY <1>1, <1>2, EmptySeq DEF OutboxInv, NewJob

LEMMA OutboxInvStays ==
  ASSUME AbortInv, AskedInv, OutboxInv, [Next]_vars
  PROVE  OutboxInv'
<1>1. \A r \in Request : Goes(r) \/ Starts(r)
  BY RequestsGo
<1>2. CASE UNCHANGED <<outbox, setup, job>>
  BY <1>1, <1>2, OutboxQuiet
<1>3. CASE UNCHANGED vars \/ Relays \/ Watchers \/ Leaves \/ Redis
  BY <1>2, <1>3 DEF vars, jobVars, Relays, Watchers, Leaves, Redis, Subscribe, Unsubscribe
<1>4. CASE \E r \in Request : Begin(r)
  BY <1>2, <1>4 DEF Begin, BeginPrediction, BeginWebhook
<1>5. ASSUME NEW r \in Request, Serve(r) PROVE OutboxInv'
  <2>1. CASE LookUp(r) \/ Bind(r) \/ Bound(r) \/ ReadUsage(r) \/ Resolve(r) \/ StoreUsage(r)
    BY <1>2, <2>1 DEF LookUp, Bind, Bound, ReadUsage, Resolve, StoreUsage
  <2> QED
    BY <1>1, <1>5, <2>1, BuildOutbox DEF Serve
<1>6. CASE \E r \in Request : Emit(r) \/ Finish(r)
  BY <1>1, <1>6, EmitOutbox, FinishOutbox
<1>7. CASE \E w \in Worker, r \in Request : Pick(w, r)
  BY <1>1, <1>7, PickOutbox
<1>8. CASE \E w \in Worker : Deliver(w) \/ Crash(w)
  BY <1>8, DeliverOutbox, CrashOutbox
<1>9. ASSUME NEW s \in Server, NEW c \in Chat, Abort(s, c) PROVE OutboxInv'
  BY <1>1, <1>9, AbortedOutbox DEF Abort
<1>10. ASSUME NEW w \in Worker, NEW c \in Chat, HandleAbort(w, c) PROVE OutboxInv'
  BY <1>1, <1>10, AbortedOutbox DEF HandleAbort
<1> QED
  BY <1>3, <1>4, <1>5, <1>6, <1>7, <1>8, <1>9, <1>10 DEF Next

-----------------------------------------------------------------------------
(* Who is a client of whom.                                                *)

Listens(l) == listener[l].pc \in {"added", "left", "open", "lost"}
Serves(k, s, c) == k \in Request /\ Busy(k) /\ ServerOf(k) = s /\ ChatOf(k) = c

(* The client of a chat is the request that is served for it, on its       *)
(* server, and its response is not ended.                                  *)
Served(y) ==
  \A s \in Server, c \in Chat :
    y.clients[s][c] # NoConn => /\ Serves(y.clients[s][c], s, c)
                                /\ y.line[y.clients[s][c]] \in {"open", "gone"}

(* The client under the id of a listener is the listener, on one server.   *)
Homed(y) ==
  \A l \in Listener :
    /\ \A s \in Server :
         y.clients[s][l] = IF Listens(l) /\ listener[l].server = s THEN l ELSE NoConn
    /\ Listens(l) => listener[l].server \in Server
    /\ listener[l].pc = "idle" => y.log[l] = {}
    /\ y.line[l] # "gone"

(* A response is written to when its request has joined, and the note of   *)
(* its end is the last about its chat.                                     *)
LinesOK(y) ==
  \A r \in Request :
    /\ Early(r) => y.line[r] = "none" /\ y.log[r] = {}
    /\ y.line[r] = "ended" <=> Note("end", ChatOf(r)) \in y.log[r]

ClientRules(y) == Served(y) /\ Homed(y) /\ LinesOK(y)

ClientInv == relay \in RelayRow /\ ClientRules(relay)

LEMMA Disjoint ==
  /\ NoConn \notin Request /\ NoConn \notin Listener /\ NoConn \notin Chat
  /\ \A r \in Request : r \notin Listener /\ r \in Conn
  /\ \A l \in Listener : l \notin Request /\ l \in Conn /\ l \notin Chat /\ l \in ClientId
  /\ \A c \in Chat : c \notin Listener /\ c \in ClientId
BY RelayDistinct, RelayIds DEF Conn, ClientId

(* Whom a write for a chat reaches: the request that is served for it, and *)
(* listeners of the server that observe it.                                *)
ListensAt(l, s) == l \in Listener /\ Listens(l) /\ listener[l].server = s

LEMMA ObserversReached ==
  ASSUME NEW y \in RelayRow, Homed(y), NEW s \in Server, NEW c \in Chat
  PROVE  /\ \A k : k \in Lines(y, s, y.observers[s][c]) <=>
                     k \in y.observers[s][c] /\ ListensAt(k, s)
         /\ \A l : l \in Connected(y, s, y.observers[s][c]) <=>
                     l \in y.observers[s][c] /\ ListensAt(l, s)
<1>1. \A l \in y.observers[s][c] : l \in Listener
  BY DEF RelayRow
<1> QED
  BY <1>1, Disjoint DEF Lines, Connected, Homed, ListensAt

LEMMA Reached ==
  ASSUME NEW y \in RelayRow, Homed(y), NEW s \in Server, NEW c \in Chat
  PROVE  \A k : k \in Lines(y, s, {c} \cup y.observers[s][c]) <=>
                  \/ k = y.clients[s][c] /\ k # NoConn
                  \/ k \in y.observers[s][c] /\ ListensAt(k, s)
<1>1. \A k : k \in Lines(y, s, {c} \cup y.observers[s][c]) <=>
               \/ k = y.clients[s][c] /\ k # NoConn
               \/ k \in Lines(y, s, y.observers[s][c])
  BY DEF Lines, Connected
<1> QED
  BY <1>1, ObserversReached

(* A write of anything but an end keeps the rules.                         *)
LEMMA WroteRules ==
  ASSUME NEW y, NEW z, ClientRules(y), z.clients = y.clients, z.line = y.line,
         NEW conns, NEW e \in Entry, e.what # "end", Wrote(y, z, conns, e),
         \A k \in conns : \/ k \in Request /\ ~ Early(k) /\ y.line[k] # "ended"
                          \/ k \in Listener /\ Listens(k)
  PROVE  ClientRules(z)
<1>1. Served(z)
  BY DEF ClientRules, Served
<1>2. Homed(z)
  <2> SUFFICES ASSUME NEW l \in Listener PROVE listener[l].pc = "idle" => z.log[l] = {}
    BY DEF ClientRules, Homed
  <2> QED
    BY Disjoint DEF ClientRules, Homed, Wrote, Listens
<1>3. LinesOK(z)
  <2> SUFFICES ASSUME NEW r \in Request
               PROVE  /\ Early(r) => z.line[r] = "none" /\ z.log[r] = {}
                      /\ z.line[r] = "ended" <=> Note("end", ChatOf(r)) \in z.log[r]
    BY DEF LinesOK
  <2>1. Note("end", ChatOf(r)).what = "end"
    BY DEF Note
  <2>2. CASE z.log[r] = y.log[r]
    BY <2>2 DEF ClientRules, LinesOK
  <2>3. CASE z.log[r] = Recorded(y.log[r], e) /\ r \in conns
    <3>1. ~ Early(r) /\ y.line[r] # "ended"
      BY <2>3, Disjoint
    <3>2. Note("end", ChatOf(r)) \notin Recorded(y.log[r], e)
      BY <2>1, <3>1 DEF ClientRules, LinesOK, Recorded
    <3> QED
      BY <2>3, <3>1, <3>2
  <2> QED
    BY <2>2, <2>3, Disjoint DEF Wrote
<1> QED
  BY <1>1, <1>2, <1>3 DEF ClientRules

LEMMA SafeWriteRules ==
  ASSUME NEW y \in RelayRow, ClientRules(y), NEW s \in Server, NEW c \in Chat, NEW e \in Entry,
         e.what # "end", NEW z, z = SafeWrite(y, s, c, e)
  PROVE  z \in RelayRow /\ ClientRules(z)
<1>1. PICK conns : conns = Lines(y, s, {c} \cup y.observers[s][c])
  OBVIOUS
<1>2. z \in RelayRow /\ z.clients = y.clients /\ z.line = y.line /\ Wrote(y, z, conns, e)
  BY <1>1, SafeWriteFacts
<1>3. \A k \in conns : \/ k \in Request /\ ~ Early(k) /\ y.line[k] # "ended"
                       \/ k \in Listener /\ Listens(k)
  BY <1>1, Reached DEF ClientRules, Served, Serves, LinesOK, ListensAt
<1> QED
  BY <1>2, <1>3, WroteRules

(* The rules are about requests and listeners too: they stay when these    *)
(* keep their places.                                                      *)
SameHomes ==
  \A l \in Listener :
    /\ Listens(l)' <=> Listens(l)
    /\ Listens(l) => listener'[l].server = listener[l].server
    /\ listener'[l].pc = "idle" => listener[l].pc = "idle"

LEMMA RulesCarry ==
  ASSUME ClientRules(relay'), SameHomes,
         \A r \in Request : Goes(r) \/ (Starts(r) /\ Early(r)'),
         \A r \in Request : Busy(r) => Busy(r)'
  PROVE  ClientRules(relay)'
<1>1. Served(relay)'
  <2> SUFFICES ASSUME NEW s \in Server, NEW c \in Chat, relay'.clients[s][c] # NoConn
               PROVE  /\ Serves(relay.clients[s][c], s, c)'
                      /\ relay'.line[relay'.clients[s][c]] \in {"open", "gone"}
    BY DEF Served
  <2>1. PICK r : r = relay'.clients[s][c]
    OBVIOUS
  <2>2. Serves(r, s, c) /\ relay'.line[r] \in {"open", "gone"}
    BY <2>1 DEF ClientRules, Served
  <2>3. Serves(r, s, c)'
    BY <2>2 DEF Serves, Goes, Starts, Busy, At, ServerOf, ChatOf
  <2> QED
    BY <2>1, <2>2, <2>3 DEF Serves, Busy, ServerOf, ChatOf
<1>2. Homed(relay)'
  BY DEF ClientRules, Homed, SameHomes
<1>3. LinesOK(relay)'
  <2> SUFFICES ASSUME NEW r \in Request
               PROVE  /\ Early(r)' => relay'.line[r] = "none" /\ relay'.log[r] = {}
                      /\ relay'.line[r] = "ended" <=> Note("end", ChatOf(r)') \in relay'.log[r]
    BY DEF LinesOK, Note
  <2>1. CASE Goes(r)
    BY <2>1 DEF ClientRules, LinesOK, Goes, ChatOf
  <2>2. CASE Starts(r)
    BY <2>2 DEF ClientRules, LinesOK, Starts, Early, At
  <2> QED
    BY <2>1, <2>2
<1> QED
  BY <1>1, <1>2, <1>3 DEF ClientRules

(* A request becomes the client of its chat.                               *)
LEMMA JoinRules ==
  ASSUME ClientInv, NEW r \in Request, Early(r), NEW s \in Server, NEW c \in Chat,
         relay' = AddClient(relay, s, c, r), listener' = listener,
         ~ Early(r)', Busy(r)', ServerOf(r)' = s, ChatOf(r)' = c,
         \A q \in Request : q # r => req'[q] = req[q] /\ (Busy(q) => ChatOf(q) # c)
  PROVE  relay' \in RelayRow /\ ClientRules(relay)'
<1>1. /\ relay' \in RelayRow /\ relay'.log = relay.log
      /\ \A t \in Server, j \in ClientId :
           relay'.clients[t][j] = IF t = s /\ j = c THEN r ELSE relay.clients[t][j]
      /\ \A q \in Conn : relay'.line[q] = IF q = r THEN "open" ELSE relay.line[q]
  BY AddClientFacts, Disjoint DEF ClientInv
<1>2. relay.line[r] = "none" /\ relay.log[r] = {}
  BY DEF ClientInv, ClientRules, LinesOK
<1>3. Served(relay)'
  <2> SUFFICES ASSUME NEW t \in Server, NEW d \in Chat, relay'.clients[t][d] # NoConn
               PROVE  /\ Serves(relay.clients[t][d], t, d)'
                      /\ relay'.line[relay'.clients[t][d]] \in {"open", "gone"}
    BY DEF Served
  <2>1. PICK k : k = relay'.clients[t][d]
    OBVIOUS
  <2>2. CASE t = s /\ d = c
    BY <1>1, <2>1, <2>2, Disjoint DEF Serves, Busy, ServerOf, ChatOf, At
  <2>3. CASE ~ (t = s /\ d = c)
    <3>1. k = relay.clients[t][d] /\ k # NoConn
      BY <1>1, <2>1, <2>3, Disjoint
    <3>2. Serves(k, t, d) /\ relay.line[k] \in {"open", "gone"}
      BY <3>1 DEF ClientInv, ClientRules, Served
    <3>3. k # r /\ k \in Request
      BY <1>2, <3>2 DEF Serves
    <3> QED
      BY <1>1, <2>1, <3>2, <3>3, Disjoint DEF Serves, Busy, ServerOf, ChatOf
  <2> QED
    BY <2>2, <2>3
<1>4. Homed(relay)'
  BY <1>1, Disjoint DEF ClientInv, ClientRules, Homed, Listens
<1>5. LinesOK(relay)'
  <2> SUFFICES ASSUME NEW q \in Request
               PROVE  /\ Early(q)' => relay'.line[q] = "none" /\ relay'.log[q] = {}
                      /\ relay'.line[q] = "ended" <=> Note("end", ChatOf(q)') \in relay'.log[q]
    BY DEF LinesOK, Note
  <2>1. CASE q = r
    BY <1>1, <1>2, <2>1, Disjoint
  <2>2. CASE q # r
    BY <1>1, <2>2, Disjoint DEF ClientInv, ClientRules, LinesOK, Early, ChatOf
  <2> QED
    BY <2>1, <2>2
<1> QED
  BY <1>1, <1>3, <1>4, <1>5 DEF ClientRules

(* A request is done: its response is ended, and nobody's client.          *)
LEMMA LeaveRules ==
  ASSUME Exclusive, NEW y \in RelayRow, ClientRules(y), NEW r \in Request, Busy(r),
         NEW s \in Server, NEW c \in Chat, ServerOf(r) = s, ChatOf(r) = c,
         relay' = RemoveClient(y, s, c), listener' = listener, At(r, "done")',
         ServerOf(r)' = s, ChatOf(r)' = c, ~ Early(r), \A q \in Request : q # r => req'[q] = req[q]
  PROVE  relay' \in RelayRow /\ ClientRules(relay)'
<1>1. PICK x \in RelayRow :
        /\ x = Ended(y, s, c) /\ relay' \in RelayRow
        /\ relay'.clients = x.clients /\ relay'.line = x.line
        /\ Wrote(x, relay', Lines(x, s, x.observers[s][c]), Note("executionEnd", c))
  BY RemoveChatFacts
<1>2. /\ \A t \in Server, j \in ClientId :
           x.clients[t][j] = IF t = s /\ j = c THEN NoConn ELSE y.clients[t][j]
      /\ Wrote(y, x, {y.clients[s][c]}, Note("end", c))
      /\ \A k \in Conn : x.line[k] = IF k = y.clients[s][c] /\ y.line[k] # "gone" THEN "ended"
                                     ELSE y.line[k]
  BY <1>1, EndedFacts, Disjoint
<1>3. y.clients[s][c] \in {NoConn, r}
  BY DEF ClientRules, Served, Serves, Exclusive
<1>4. Homed(x)
  BY <1>2, <1>3, Disjoint DEF ClientRules, Homed, Wrote
<1>5. \A k \in Request : relay'.log[k] = x.log[k]
  BY <1>1, <1>4, ObserversReached, Disjoint DEF Wrote, ListensAt
<1>6. Served(relay)'
  <2> SUFFICES ASSUME NEW t \in Server, NEW d \in Chat, relay'.clients[t][d] # NoConn
               PROVE  /\ Serves(relay.clients[t][d], t, d)'
                      /\ relay'.line[relay'.clients[t][d]] \in {"open", "gone"}
    BY DEF Served
  <2>1. PICK k : k = relay'.clients[t][d]
    OBVIOUS
  <2>2. ~ (t = s /\ d = c) /\ k = y.clients[t][d] /\ k # NoConn
    BY <1>1, <1>2, <2>1, Disjoint
  <2>3. Serves(k, t, d) /\ y.line[k] \in {"open", "gone"}
    BY <2>2 DEF ClientRules, Served
  <2>4. k # r /\ k \in Request
    BY <2>2, <2>3 DEF Serves
  <2> QED
    BY <1>1, <1>2, <1>3, <2>1, <2>3, <2>4, Disjoint DEF Serves, Busy, ServerOf, ChatOf
<1>7. Homed(relay)'
  <2>1. \A l \in Listener : listener[l].pc = "idle" => relay'.log[l] = x.log[l]
    BY <1>1, <1>4, ObserversReached, Disjoint DEF Wrote, ListensAt, Listens
  <2> QED
    BY <1>1, <1>4, <2>1 DEF Homed, Listens
<1>8. LinesOK(relay)'
  <2> SUFFICES ASSUME NEW q \in Request
               PROVE  /\ Early(q)' => relay'.line[q] = "none" /\ relay'.log[q] = {}
                      /\ relay'.line[q] = "ended" <=> Note("end", ChatOf(q)') \in relay'.log[q]
    BY DEF LinesOK, Note
  <2>1. /\ y.line[q] = "ended" <=> Note("end", ChatOf(q)) \in y.log[q]
        /\ Early(q) => y.line[q] = "none" /\ y.log[q] = {}
    BY DEF ClientRules, LinesOK
  <2>2. CASE q = r /\ y.clients[s][c] = r /\ y.line[r] # "gone"
    <3>1. relay'.line[q] = "ended" /\ relay'.log[q] = Recorded(y.log[q], Note("end", c))
      BY <1>1, <1>2, <1>5, <2>2, Disjoint DEF Wrote
    <3> QED
      BY <2>2, <3>1 DEF Recorded, Early, At
  <2>3. CASE ~ (q = r /\ y.clients[s][c] = r /\ y.line[r] # "gone")
    <3>1. relay'.line[q] = y.line[q] /\ relay'.log[q] = y.log[q]
      BY <1>1, <1>2, <1>3, <1>5, <2>3, Disjoint DEF Wrote
    <3> QED
      BY <2>1, <3>1 DEF Early, At, ChatOf
  <2> QED
    BY <2>2, <2>3
<1> QED
  BY <1>1, <1>6, <1>7, <1>8 DEF ClientRules

-----------------------------------------------------------------------------
(* What a step does to the relay.                                          *)

QuietStep ==
  /\ relay' = relay /\ SameHomes
  /\ \A r \in Request : Goes(r) \/ (Starts(r) /\ Early(r)')
  /\ \A r \in Request : Busy(r) => Busy(r)'

(* The response to r becomes a client.                                     *)
JoinStep(r) ==
  /\ Early(r) /\ ~ Early(r)' /\ Busy(r)'
  /\ ServerOf(r)' \in Server /\ ChatOf(r)' \in Chat
  /\ relay' = AddClient(relay, req'[r].server, req'[r].chat, r)
  /\ \A q \in Request : q # r => req'[q] = req[q] /\ (Busy(q) => ChatOf(q) # ChatOf(r)')
  /\ UNCHANGED <<listener, subscribed, job, outbox, setup>>

(* A listener becomes an observer, of a request that is being bound on its *)
(* server, or of one of another server.                                    *)
ObserveStep(r, s, c, l) ==
  /\ c \in Chat /\ s \in Server /\ l \in Listener
  /\ Asked(r) /\ ChatOf(r) = c /\ (ServerOf(r) # s \/ At(r, "bind"))
  /\ relay' = AddObserver(relay, s, c, l)
  /\ \A q \in Request : Goes(q) /\ (Busy(q) => Busy(q)')
  /\ UNCHANGED <<listener, subscribed, job, outbox, setup>>

(* The last words about r, with its response, or before it is ended.       *)
EndStep(r, y) ==
  /\ Busy(r) /\ ~ Early(r) /\ ServerOf(r) \in Server /\ ChatOf(r) \in Chat
  /\ \/ y = relay
     \/ \E what \in {"error", "metadata"} :
          y = SafeWrite(relay, ServerOf(r), ChatOf(r), Note(what, ChatOf(r)))
  /\ \/ relay' = y /\ At(r, "unsubscribing")'
     \/ relay' = RemoveClient(y, ServerOf(r), ChatOf(r)) /\ At(r, "done")'
  /\ Goes(r) /\ \A q \in Request : q # r => req'[q] = req[q]
  /\ UNCHANGED <<listener, job, outbox, setup>>

(* The flow of r streams an event to the responses of its server.          *)
StreamStep(r) ==
  /\ Emit(r) /\ mode # "queue"
  /\ relay' = SafeWrite(relay, ServerOf(r), ChatOf(r),
                        Event(ChatOf(r), r, job[r].try, job[r].sent + 1))

(* Clients and listeners that come and go.                                 *)
ComeOrGo ==
  /\ \/ \E r \in Request : HangUp(r)
     \/ \E s \in Server, c \in Chat : DropDead(s, c)
     \/ \E l \in Listener, s \in Server : OpenListener(l, s)
     \/ \E l \in Listener : CloseListener(l)
  /\ UNCHANGED <<setup, req, job, outbox>>

LEMMA RequestStays ==
  ASSUME NEW r \in Request, req'[r] = req[r]
  PROVE  Goes(r) /\ (Busy(r) => Busy(r)')
BY DEF Goes, Asked, At, Early, Jobless, Busy

LEMMA QuietSame ==
  ASSUME UNCHANGED <<relay, listener, req>>
  PROVE  QuietStep
BY RequestStays DEF QuietStep, SameHomes, Listens

LEMMA QuietOne ==
  ASSUME AbortInv, [Next]_vars, UNCHANGED <<relay, listener>>, NEW r \in Request,
         At(r, "idle") => Early(r)', Busy(r)', \A q \in Request : q # r => req'[q] = req[q]
  PROVE  QuietStep
<1>1. \A q \in Request : q # r => Goes(q) /\ (Busy(q) => Busy(q)')
  BY RequestStays
<1>2. Goes(r) \/ Starts(r)
  BY RequestsGo
<1> QED
  BY <1>1, <1>2 DEF QuietStep, SameHomes, Listens, Starts

LEMMA LocalsFacts ==
  ASSUME NEW row \in RequestRow, NEW locals,
         \/ locals = row
         \/ locals = [row EXCEPT !.refused = TRUE]
         \/ locals = [row EXCEPT !.seen = 0]
  PROVE  /\ locals \in RequestRow /\ locals.server = row.server /\ locals.chat = row.chat
         /\ locals.kind = row.kind
<1>1. CASE locals = row
  BY <1>1
<1>2. CASE locals = [row EXCEPT !.refused = TRUE]
  BY <1>2 DEF RequestRow
<1>3. CASE locals = [row EXCEPT !.seen = 0]
  BY <1>3 DEF RequestRow
<1> QED
  BY <1>1, <1>2, <1>3

LEMMA FinishesEnds ==
  ASSUME AbortInv, NEW r \in Request, NEW what \in {"error", "metadata"}, NEW locals \in RequestRow,
         Finishes(r, what, locals), locals.server = ServerOf(r), locals.chat = ChatOf(r),
         locals.kind = req[r].kind, req[r].pc \in {"build", "waiting", "store"},
         UNCHANGED <<job, outbox, setup>>, Goes(r)
  PROVE  \E y : EndStep(r, y)
<1>1. PICK y : y = IF Streams(r) THEN SafeWrite(relay, ServerOf(r), ChatOf(r), Note(what, ChatOf(r)))
                   ELSE relay
  OBVIOUS
<1>2. PICK old : old = IF mode = "queue" /\ req[r].kind = "predict"
                       THEN NewUnsubscriptions(ServerOf(r), ChatOf(r), By(r)) ELSE {}
  OBVIOUS
<1>3. /\ relay' = IF old = {} THEN RemoveClient(y, ServerOf(r), ChatOf(r)) ELSE y
      /\ req' = [req EXCEPT ![r] = [locals EXCEPT !.pc = IF old = {} THEN "done"
                                                         ELSE "unsubscribing"]]
      /\ listener' = listener
  BY <1>1, <1>2 DEF Finishes
<1>4. /\ req'[r].pc = IF old = {} THEN "done" ELSE "unsubscribing"
      /\ \A q \in Request : q # r => req'[q] = req[q]
  BY <1>3 DEF AbortInv, ShapeInv, RequestRow
<1>5. /\ Busy(r) /\ ~ Early(r) /\ ServerOf(r) \in Server /\ ChatOf(r) \in Chat
  BY DEF Busy, Early, AbortInv, ShapeInv
<1>6. \/ relay' = y /\ At(r, "unsubscribing")'
      \/ relay' = RemoveClient(y, ServerOf(r), ChatOf(r)) /\ At(r, "done")'
  BY <1>3, <1>4 DEF At
<1>7. \/ y = relay
      \/ \E w \in {"error", "metadata"} :
           y = SafeWrite(relay, ServerOf(r), ChatOf(r), Note(w, ChatOf(r)))
  BY <1>1
<1> HIDE <1>1, <1>2, <1>3
<1>8. UNCHANGED <<listener, job, outbox, setup>>
  BY DEF Finishes
<1>9. EndStep(r, y)
  BY <1>4, <1>5, <1>6, <1>7, <1>8 DEF EndStep
<1> QED
  BY <1>9

LEMMA ServeSteps ==
  ASSUME AbortInv, AskedInv, [Next]_vars, NEW r \in Request, Serve(r)
  PROVE  \/ QuietStep \/ JoinStep(r) \/ \E y : EndStep(r, y)
         \/ \E s, c, l : ObserveStep(r, s, c, l)
<1>0. /\ req[r] \in RequestRow /\ req \in [Request -> RequestRow]
      /\ At(r, "idle") \/ (ServerOf(r) \in Server /\ ChatOf(r) \in Chat)
  <2>1. req[r] \in RequestRow /\ req \in [Request -> RequestRow]
    BY DEF AbortInv, ShapeInv
  <2> QED
    BY <2>1 DEF AskedInv, Asked
<1>1. CASE LookUp(r) \/ ReadUsage(r)
  <2>1. UNCHANGED <<relay, listener>> /\ ~ At(r, "idle")
    BY <1>1 DEF LookUp, ReadUsage, relayVars, At
  <2>2. /\ Busy(r)' /\ \A q \in Request : q # r => req'[q] = req[q]
    BY <1>0, <1>1 DEF LookUp, ReadUsage, Busy, RequestRow
  <2> QED
    BY <2>1, <2>2, QuietOne
<1>2. CASE Bind(r)
  <2>1. PICK entry \in req[r].todo :
          /\ \/ req' = [req EXCEPT ![r].todo = @ \ {entry}]
             \/ req' = [[req EXCEPT ![r].todo = @ \ {entry}] EXCEPT ![r].pc = "binding"]
          /\ IF entry[2] = ServerOf(r)
             THEN relay' = AddObserver(relay, entry[2], ChatOf(r), entry[1])
             ELSE relay' = relay
    BY <1>2 DEF Bind
  <2>2. /\ At(r, "bind") /\ UNCHANGED <<listener, subscribed, job, outbox, setup>>
        /\ entry[1] \in Listener /\ entry[2] \in Server /\ ChatOf(r) \in Chat
    BY <1>0, <1>2 DEF Bind, RequestRow, At
  <2>3. /\ Busy(r)' /\ \A q \in Request : q # r => req'[q] = req[q]
    BY <1>0, <2>1, <2>2 DEF Busy, RequestRow, At
  <2>4. Goes(r)
    BY <2>2, RequestsGo DEF Starts, At
  <2>5. CASE entry[2] = ServerOf(r)
    <3>1. \A q \in Request : Goes(q) /\ (Busy(q) => Busy(q)')
      BY <2>3, <2>4, RequestStays
    <3>2. ObserveStep(r, entry[2], ChatOf(r), entry[1])
      BY <2>1, <2>2, <2>5, <3>1 DEF ObserveStep, Asked, At
    <3> QED
      BY <3>2
  <2>6. CASE entry[2] # ServerOf(r)
    BY <2>1, <2>2, <2>3, <2>6, QuietOne DEF At
  <2> QED
    BY <2>5, <2>6
<1>3. CASE Bound(r)
  <2>1. /\ At(r, "bind") /\ UNCHANGED <<listener, subscribed, job, outbox, setup>>
        /\ relay' = IF req[r].kind = "hookStream"
                    THEN AddClient(relay, ServerOf(r), ChatOf(r), r) ELSE relay
        /\ req' = [req EXCEPT ![r].pc = "build"]
    BY <1>3 DEF Bound, Moves
  <2>2. /\ Busy(r)' /\ ~ Early(r)' /\ req'[r].server = ServerOf(r) /\ req'[r].chat = ChatOf(r)
        /\ \A q \in Request : q # r => req'[q] = req[q]
    BY <1>0, <2>1 DEF Busy, Early, RequestRow, ServerOf, ChatOf
  <2>3. CASE req[r].kind = "hookStream"
    <3>1. \A q \in Request : q # r => (Busy(q) => ChatOf(q) # req'[r].chat)
      BY <2>1, <2>2 DEF AbortInv, Exclusive, Busy, At
    <3> QED
      BY <1>0, <2>1, <2>2, <2>3, <3>1 DEF JoinStep, Early, At, ServerOf, ChatOf
  <2>4. CASE req[r].kind # "hookStream"
    BY <2>1, <2>2, <2>4, QuietOne DEF At
  <2> QED
    BY <2>3, <2>4
<1>4. CASE Build(r) \/ Resolve(r) \/ StoreUsage(r)
  <2>1. req[r].pc \in {"build", "waiting", "store"}
    BY <1>4 DEF Build, Resolve, StoreUsage, At
  <2>2. Goes(r)
    BY <2>1, RequestsGo DEF Starts, At
  <2>3. CASE Moves(r, "waiting") \/ Moves(r, "count")
    <3>1. /\ Busy(r)' /\ \A q \in Request : q # r => req'[q] = req[q]
      BY <1>0, <2>3 DEF Moves, Busy, RequestRow
    <3>2. UNCHANGED <<relay, listener>>
      <4>1. CASE UNCHANGED relayVars
        BY <4>1 DEF relayVars
      <4>2. CASE ~ UNCHANGED relayVars
        <5>1. PICK what, locals : Finishes(r, what, locals) /\ locals \in RequestRow
          <6>1. \/ Finishes(r, "error", req[r])
                \/ Finishes(r, "error", [req[r] EXCEPT !.refused = TRUE])
                \/ Finishes(r, "metadata", [req[r] EXCEPT !.seen = 0])
            BY <1>4, <4>2 DEF Build, Resolve, StoreUsage
          <6> QED
            BY <1>0, <6>1, LocalsFacts
        <5>2. PICK pc \in {"done", "unsubscribing"} :
                req' = [req EXCEPT ![r] = [locals EXCEPT !.pc = pc]]
          BY <5>1 DEF Finishes
        <5>3. req'[r].pc \in {"done", "unsubscribing"}
          BY <1>0, <5>1, <5>2 DEF RequestRow
        <5>4. req'[r].pc \in {"waiting", "count"}
          BY <1>0, <2>3 DEF Moves, RequestRow
        <5> QED
          BY <5>3, <5>4
      <4> QED
        BY <4>1, <4>2
    <3> QED
      BY <2>1, <3>1, <3>2, QuietOne DEF At
  <2>4. CASE ~ (Moves(r, "waiting") \/ Moves(r, "count"))
    <3>1. /\ UNCHANGED <<job, outbox, setup>>
          /\ \/ Finishes(r, "error", req[r])
             \/ Finishes(r, "error", [req[r] EXCEPT !.refused = TRUE])
             \/ Finishes(r, "metadata", [req[r] EXCEPT !.seen = 0])
      BY <1>4, <2>4 DEF Build, Resolve, StoreUsage
    <3>2. PICK what \in {"error", "metadata"},
               locals \in {req[r], [req[r] EXCEPT !.refused = TRUE], [req[r] EXCEPT !.seen = 0]} :
            Finishes(r, what, locals)
      BY <3>1
    <3>3. /\ locals \in RequestRow /\ locals.server = ServerOf(r) /\ locals.chat = ChatOf(r)
          /\ locals.kind = req[r].kind
      BY <1>0, <3>2, LocalsFacts DEF ServerOf, ChatOf
    <3> QED
      BY <2>1, <2>2, <3>1, <3>2, <3>3, FinishesEnds
  <2> QED
    BY <2>3, <2>4
<1> QED
  BY <1>1, <1>2, <1>3, <1>4 DEF Serve

LEMMA BeginSteps ==
  ASSUME Overlap = FALSE, AbortInv, AskedInv, [Next]_vars, NEW r \in Request, Begin(r)
  PROVE  QuietStep \/ JoinStep(r)
<1>1. ASSUME NEW s \in Server, NEW c \in Chat, BeginPrediction(r, s, c)
      PROVE  JoinStep(r)
  <2>1. PICK pc \in {"build", "subscribing"} : Asks(r, "predict", s, c, pc)
    BY <1>1 DEF BeginPrediction, PcAfterSubscribe
  <2>2. /\ At(r, "idle") /\ \A q \in Request : Busy(q) => ChatOf(q) # c
        /\ relay' = AddClient(relay, s, c, r)
        /\ UNCHANGED <<listener, subscribed, job, outbox, setup>>
    BY <1>1 DEF BeginPrediction, Begins
  <2>3. /\ req'[r].pc = pc /\ req'[r].server = s /\ req'[r].chat = c
        /\ \A q \in Request : q # r => req'[q] = req[q]
    BY <2>1, StartsFacts DEF Kinds
  <2> QED
    BY <2>1, <2>2, <2>3 DEF JoinStep, Early, Busy, At, ServerOf, ChatOf
<1>2. ASSUME NEW s \in Server, NEW c \in Chat, NEW kind \in Kinds, BeginWebhook(r, s, c, kind)
      PROVE  QuietStep
  <2>1. Asks(r, kind, s, c, "lookup") /\ UNCHANGED <<relay, listener>>
    BY <1>2 DEF BeginWebhook, relayVars
  <2>2. req'[r].pc = "lookup" /\ \A q \in Request : q # r => req'[q] = req[q]
    BY <2>1, StartsFacts
  <2> QED
    BY <2>1, <2>2, QuietOne DEF Early, Busy
<1> QED
  BY <1>1, <1>2 DEF Begin

(* Bind messages and subscriptions under way.                              *)
AskedElsewhere(r, s, c) == Asked(r) /\ ChatOf(r) = c /\ ServerOf(r) # s

BindOK(m) ==
  /\ m.server \in Server /\ m.chat \in Chat /\ m.listener \in Listener
  /\ m.by \in Request /\ AskedElsewhere(m.by, m.server, m.chat)

Waits(r) == req[r].pc \in {"subscribing", "binding"}

SubscriptionOK(t) ==
  /\ t.server \in Server /\ t.chat \in Chat
  /\ \/ \E r \in Request : t = Token(ServerOf(r), ChatOf(r), By(r)) /\ Waits(r)
     \/ \E r \in Request, l \in Listener :
          t.by = <<r, l>> /\ AskedElsewhere(r, t.server, t.chat)

BindInv ==
  /\ subscribed \in [Server -> SUBSET Chat]
  /\ \A m \in binds : BindOK(m)
  /\ \A t \in subs : SubscriptionOK(t)

LEMMA RedisSteps ==
  ASSUME AbortInv, AskedInv, [Next]_vars, Redis
  PROVE  QuietStep \/ \E r \in Request : \E y : EndStep(r, y)
<1>0. req \in [Request -> RequestRow]
  BY DEF AbortInv, ShapeInv
<1>1. ASSUME NEW t \in subs, Subscribe(t) PROVE QuietStep
  <2>1. UNCHANGED <<relay, listener>>
    BY <1>1 DEF Subscribe
  <2>2. ASSUME NEW q \in Request
        PROVE  /\ Goes(q) \/ (Starts(q) /\ Early(q)')
               /\ Busy(q) => Busy(q)'
    <3>1. \/ req'[q] = req[q]
          \/ At(q, "subscribing") /\ req'[q] = [req[q] EXCEPT !.pc = "build"]
          \/ At(q, "binding") /\ req'[q] = [req[q] EXCEPT !.pc = "bind"]
      BY <1>1 DEF Subscribe
    <3>2. CASE req'[q] = req[q]
      BY <3>2, RequestStays
    <3>3. CASE req'[q] # req[q]
      <4>1. req'[q].pc \in {"build", "bind"} /\ ~ At(q, "idle")
        BY <1>0, <3>1, <3>3 DEF RequestRow, At
      <4> QED
        BY <4>1, RequestsGo DEF Busy, Starts
    <3> QED
      BY <3>2, <3>3
  <2> QED
    BY <2>1, <2>2 DEF QuietStep, SameHomes, Listens
<1>2. ASSUME NEW t \in unsubs, Unsubscribe(t)
      PROVE  QuietStep \/ \E r \in Request : \E y : EndStep(r, y)
  <2>1. UNCHANGED <<listener, job, outbox, setup>>
    BY <1>2 DEF Unsubscribe
  <2>2. CASE UNCHANGED <<relay, req>>
    BY <2>1, <2>2, QuietSame
  <2>3. ASSUME NEW r \in Request, t.by = By(r), relay' = RemoveClient(relay, t.server, t.chat),
               Moves(r, "done")
        PROVE  EndStep(r, relay)
    <3>1. At(r, "unsubscribing") /\ t.server = ServerOf(r) /\ t.chat = ChatOf(r)
      BY <2>3 DEF AbortInv, UnsubscriptionsAreAwaited, Token
    <3>2. At(r, "done")' /\ \A q \in Request : q # r => req'[q] = req[q]
      BY <1>0, <2>3 DEF Moves, At, RequestRow
    <3>3. Busy(r) /\ ~ Early(r) /\ ServerOf(r) \in Server /\ ChatOf(r) \in Chat
      BY <3>1 DEF Busy, At, Early, AbortInv, ShapeInv
    <3>4. Goes(r)
      BY <3>1, RequestsGo DEF Starts, At
    <3> QED
      BY <2>1, <2>3, <3>1, <3>2, <3>3, <3>4 DEF EndStep
  <2> QED
    BY <1>2, <2>2, <2>3 DEF Unsubscribe
<1> QED
  BY <1>1, <1>2 DEF Redis

LEMMA RelaysSteps ==
  ASSUME AbortInv, ReadInv, BindInv, Relays
  PROVE  QuietStep \/ \E r \in Request : \E s, c, l : ObserveStep(r, s, c, l)
<1>1. UNCHANGED <<setup, req, job, outbox>>
  BY DEF Relays, jobVars
<1>2. ASSUME NEW l \in Listener, Heartbeat(l) \/ Unregister(l) PROVE QuietStep
  <2>1. /\ relay' = relay
        /\ \/ \E pc \in {"open", "lost"} : /\ listener[l].pc \in {"added", "left"}
                                            /\ listener' = [listener EXCEPT ![l].pc = pc]
           \/ listener[l].pc = "closing" /\ listener' = [listener EXCEPT ![l].pc = "closed"]
    BY <1>2 DEF Heartbeat, Unregister
  <2>2. SameHomes
    BY <2>1 DEF SameHomes, Listens, ReadInv
  <2> QED
    BY <1>1, <2>1, <2>2, RequestStays DEF QuietStep
<1>3. ASSUME NEW s \in Server, Cleanup(s) PROVE QuietStep
  BY <1>1, <1>3, QuietSame DEF Cleanup
<1>4. ASSUME NEW m \in binds, HandleBind(m)
      PROVE  QuietStep \/ \E r \in Request : \E s, c, l : ObserveStep(r, s, c, l)
  <2>1. UNCHANGED <<subscribed, listener>>
    BY <1>4 DEF HandleBind
  <2>2. CASE relay' = relay
    BY <1>1, <2>1, <2>2, QuietSame
  <2>3. CASE relay' = AddObserver(relay, m.server, m.chat, m.listener)
    <3>1. ObserveStep(m.by, m.server, m.chat, m.listener)
      BY <1>1, <2>1, <2>3, RequestStays DEF ObserveStep, BindInv, BindOK, AskedElsewhere
    <3>2. m.by \in Request
      BY DEF BindInv, BindOK
    <3> QED
      BY <3>1, <3>2
  <2> QED
    BY <1>4, <2>2, <2>3 DEF HandleBind
<1> QED
  BY <1>2, <1>3, <1>4 DEF Relays

LEMMA RelaySteps ==
  ASSUME Overlap = FALSE, AbortInv, ReadInv, AskedInv, BindInv, [Next]_vars
  PROVE  \/ QuietStep \/ ComeOrGo
         \/ \E r \in Request : \/ JoinStep(r) \/ StreamStep(r) \/ \E y : EndStep(r, y)
                               \/ \E s, c, l : ObserveStep(r, s, c, l)
         \/ \E w \in Worker : Deliver(w)
<1>1. CASE UNCHANGED <<relay, listener, req>>
  BY <1>1, QuietSame
<1>2. CASE UNCHANGED vars \/ (\E r \in Request : Finish(r)) \/ (\E w \in Worker : Crash(w))
  BY <1>1, <1>2 DEF vars, relayVars, jobVars, Finish, Crash
<1>3. CASE \/ \E w \in Worker, r \in Request : Pick(w, r)
           \/ \E s \in Server, c \in Chat : Abort(s, c)
           \/ \E w \in Worker, c \in Chat : HandleAbort(w, c)
  BY <1>1, <1>3 DEF Pick, Abort, HandleAbort, relayVars
<1>4. ASSUME NEW r \in Request, Emit(r) PROVE QuietStep \/ StreamStep(r)
  <2>1. CASE mode = "queue"
    BY <1>1, <1>4, <2>1, QuietSame DEF Emit
  <2>2. CASE mode # "queue"
    BY <1>4, <2>2 DEF StreamStep, Emit
  <2> QED
    BY <2>1, <2>2
<1>5. CASE Leaves \/ Watchers
  <2>1. UNCHANGED <<setup, req, job, outbox>>
    BY <1>5 DEF Leaves, Watchers, jobVars
  <2>2. ASSUME NEW l \in Listener, LoseListener(l) PROVE QuietStep
    <3>1. relay' = relay /\ listener[l].pc = "added"
          /\ listener' = [listener EXCEPT ![l].pc = "left"]
      BY <2>2 DEF LoseListener
    <3>2. SameHomes
      BY <3>1 DEF SameHomes, Listens, ReadInv
    <3> QED
      BY <2>1, <3>1, <3>2, RequestStays DEF QuietStep
  <2>3. CASE ComeOrGo
    BY <2>3
  <2> QED
    BY <1>5, <2>1, <2>2, <2>3 DEF Leaves, Watchers, ComeOrGo
<1>6. ASSUME NEW r \in Request, Begin(r) PROVE QuietStep \/ JoinStep(r)
  BY <1>6, BeginSteps
<1>7. ASSUME NEW r \in Request, Serve(r)
      PROVE  \/ QuietStep \/ JoinStep(r) \/ \E y : EndStep(r, y)
             \/ \E s, c, l : ObserveStep(r, s, c, l)
  BY <1>7, ServeSteps
<1>8. CASE Redis
  BY <1>8, RedisSteps
<1>9. CASE Relays
  BY <1>9, RelaysSteps
<1> QED
  BY <1>2, <1>3, <1>4, <1>5, <1>6, <1>7, <1>8, <1>9 DEF Next

-----------------------------------------------------------------------------
(* The clients stay the requests and listeners that they should be.        *)

LEMMA ObserveClients ==
  ASSUME ClientInv, NEW r \in Request, NEW s, NEW c, NEW l, ObserveStep(r, s, c, l)
  PROVE  ClientInv'
<1>0. /\ c \in Chat /\ s \in Server /\ l \in Listener /\ relay \in RelayRow
      /\ relay' = AddObserver(relay, s, c, l)
  <2>1. relay \in RelayRow
    BY DEF ClientInv
  <2> QED
    BY <2>1 DEF ObserveStep
<1>1. /\ relay' \in RelayRow /\ relay'.clients = relay.clients /\ relay'.log = relay.log
      /\ relay'.line = relay.line
  <2>1. PICK y \in RelayRow : y = relay
    BY <1>0
  <2>2. PICK z : z = AddObserver(y, s, c, l)
    OBVIOUS
  <2>3. z \in RelayRow /\ z.clients = y.clients /\ z.log = y.log /\ z.line = y.line
    BY <1>0, <2>2, AddObserverFacts
  <2> QED
    BY <1>0, <2>1, <2>2, <2>3
<1>2. ClientRules(relay')
  BY <1>1 DEF ClientInv, ClientRules, Served, Homed, LinesOK
<1>3. ClientRules(relay)'
  BY <1>2, RulesCarry DEF ObserveStep, SameHomes, Listens
<1> QED
  BY <1>1, <1>3 DEF ClientInv

LEMMA EndClients ==
  ASSUME AbortInv, ClientInv, NEW r \in Request, NEW y, EndStep(r, y)
  PROVE  ClientInv'
<1>1. y \in RelayRow /\ ClientRules(y)
  <2>1. CASE y = relay
    BY <2>1 DEF ClientInv
  <2>2. ASSUME NEW what \in {"error", "metadata"},
               y = SafeWrite(relay, ServerOf(r), ChatOf(r), Note(what, ChatOf(r)))
        PROVE  y \in RelayRow /\ ClientRules(y)
    <3>1. Note(what, ChatOf(r)) \in Entry /\ Note(what, ChatOf(r)).what # "end"
      BY NoteFacts DEF EndStep, ClientId
    <3> QED
      BY <2>2, <3>1, SafeWriteRules DEF EndStep, ClientInv
  <2> QED
    BY <2>1, <2>2 DEF EndStep
<1>2. CASE relay' = y /\ At(r, "unsubscribing")'
  <2>1. \A q \in Request : Goes(q) /\ (Busy(q) => Busy(q)')
    BY <1>2, RequestStays DEF EndStep, Busy, At
  <2> QED
    BY <1>1, <1>2, <2>1, RulesCarry DEF EndStep, SameHomes, Listens, ClientInv
<1>3. CASE relay' = RemoveClient(y, ServerOf(r), ChatOf(r)) /\ At(r, "done")'
  <2>1. ServerOf(r)' = ServerOf(r) /\ ChatOf(r)' = ChatOf(r)
    BY DEF EndStep, Goes, ServerOf, ChatOf
  <2> QED
    BY <1>1, <1>3, <2>1, LeaveRules DEF EndStep, ClientInv, AbortInv
<1> QED
  BY <1>2, <1>3 DEF EndStep

LEMMA StreamClients ==
  ASSUME AbortInv, AskedInv, ClientInv, NEW r \in Request, StreamStep(r)
  PROVE  ClientInv'
<1>1. PICK e : e = Event(ChatOf(r), r, job[r].try, job[r].sent + 1)
  OBVIOUS
<1>2. /\ job[r].pc = "active" /\ UNCHANGED <<listener, req>>
      /\ relay' = SafeWrite(relay, ServerOf(r), ChatOf(r), e)
  BY <1>1 DEF StreamStep, Emit
<1>3. /\ ServerOf(r) \in Server /\ ChatOf(r) \in Chat /\ job[r] \in JobRow
  BY <1>2 DEF AbortInv, ShapeInv, JobsAreAwaited, At, Busy
<1>4. e \in Entry /\ e.what # "end"
  BY <1>1, <1>3 DEF Event, Entry, EventEntry, JobRow
<1>5. relay' \in RelayRow /\ ClientRules(relay')
  BY <1>2, <1>3, <1>4, SafeWriteRules DEF ClientInv
<1>6. \A q \in Request : Goes(q) /\ (Busy(q) => Busy(q)')
  BY <1>2, RequestStays
<1> QED
  BY <1>2, <1>5, <1>6, RulesCarry DEF SameHomes, Listens, ClientInv

LEMMA DeliverClients ==
  ASSUME ClientInv, OutboxInv, NEW w \in Worker, Deliver(w)
  PROVE  ClientInv'
<1>1. PICK e : e = Head(outbox[w])
  OBVIOUS
<1>2. relay' = Published(e.chat, e) /\ UNCHANGED <<listener, req>> /\ outbox[w] # <<>>
  BY <1>1 DEF Deliver
<1>3. outbox[w] \in Seq(EventEntry)
  BY DEF OutboxInv
<1>4. e = outbox[w][1] /\ 1 \in 1 .. Len(outbox[w])
  BY <1>1, <1>2, <1>3, TailFacts
<1>5. e \in Entry /\ e.what = "event" /\ e.chat \in Chat
  BY <1>4, OutboxEntry
<1>6. PICK conns : conns = Readers(e.chat)
  OBVIOUS
<1>7. /\ relay' \in RelayRow /\ relay'.clients = relay.clients /\ relay'.line = relay.line
      /\ Wrote(relay, relay', conns, e)
  <2>1. relay \in RelayRow
    BY DEF ClientInv
  <2> QED
    BY <1>2, <1>5, <1>6, <2>1, PublishedFacts
<1>8. \A k \in conns : \/ k \in Request /\ ~ Early(k) /\ relay.line[k] # "ended"
                       \/ k \in Listener /\ Listens(k)
  <2> SUFFICES ASSUME NEW s \in Receivers(e.chat),
                      NEW k \in Lines(relay, s, {e.chat} \cup relay.observers[s][e.chat])
               PROVE  \/ k \in Request /\ ~ Early(k) /\ relay.line[k] # "ended"
                      \/ k \in Listener /\ Listens(k)
    BY <1>6 DEF Readers
  <2>1. s \in Server
    BY DEF Receivers
  <2>2. \/ k = relay.clients[s][e.chat] /\ k # NoConn
        \/ k \in relay.observers[s][e.chat] /\ ListensAt(k, s)
    BY <1>5, <2>1, Reached DEF ClientInv, ClientRules
  <2> QED
    BY <1>5, <2>1, <2>2 DEF ClientInv, ClientRules, Served, Serves, LinesOK, ListensAt
<1>9. ClientRules(relay')
  BY <1>5, <1>7, <1>8, WroteRules DEF ClientInv
<1>10. \A q \in Request : Goes(q) /\ (Busy(q) => Busy(q)')
  BY <1>2, RequestStays
<1> QED
  BY <1>2, <1>7, <1>9, <1>10, RulesCarry DEF SameHomes, Listens, ClientInv

LEMMA HangUpClients ==
  ASSUME ClientInv, NEW r \in Request, HangUp(r), UNCHANGED req
  PROVE  ClientInv'
<1>1. /\ relay.line[r] = "open" /\ relay' = [relay EXCEPT !.line[r] = "gone"]
      /\ listener' = listener
  BY DEF HangUp
<1>2. PICK line : line = [relay.line EXCEPT ![r] = "gone"]
  OBVIOUS
<1>3. relay' = [relay EXCEPT !.line = line] /\ relay \in RelayRow
  BY <1>1, <1>2 DEF ClientInv
<1>4. /\ line \in [Conn -> {"none", "open", "gone", "ended"}]
      /\ \A k \in Conn : line[k] = IF k = r THEN "gone" ELSE relay.line[k]
  BY <1>2, <1>3 DEF RelayRow
<1>5. /\ relay' \in RelayRow /\ relay'.clients = relay.clients /\ relay'.line = line
      /\ relay'.log = relay.log
  BY <1>3, <1>4 DEF RelayRow
<1>6. ClientRules(relay')
  <2>1. Served(relay')
    BY <1>4, <1>5, Disjoint DEF ClientInv, ClientRules, Served, Serves
  <2>2. Homed(relay')
    BY <1>4, <1>5, Disjoint DEF ClientInv, ClientRules, Homed
  <2>3. LinesOK(relay')
    BY <1>1, <1>4, <1>5, Disjoint DEF ClientInv, ClientRules, LinesOK
  <2> QED
    BY <2>1, <2>2, <2>3 DEF ClientRules
<1>7. \A q \in Request : Goes(q) /\ (Busy(q) => Busy(q)')
  BY RequestStays
<1> QED
  BY <1>1, <1>5, <1>6, <1>7, RulesCarry DEF SameHomes, Listens, ClientInv

LEMMA DropDeadClients ==
  ASSUME ClientInv, NEW s \in Server, NEW c \in Chat, DropDead(s, c), UNCHANGED req
  PROVE  ClientInv'
<1>1. relay' = [relay EXCEPT !.clients[s][c] = NoConn] /\ listener' = listener
  BY DEF DropDead
<1>2. PICK clients : clients = [relay.clients EXCEPT ![s][c] = NoConn]
  OBVIOUS
<1>3. relay' = [relay EXCEPT !.clients = clients] /\ relay \in RelayRow
  BY <1>1, <1>2 DEF ClientInv
<1>4. /\ clients \in [Server -> [ClientId -> Conn \cup {NoConn}]]
      /\ \A t \in Server, j \in ClientId :
           clients[t][j] = IF t = s /\ j = c THEN NoConn ELSE relay.clients[t][j]
  <2>1. relay.clients \in [Server -> [ClientId -> Conn \cup {NoConn}]] /\ c \in ClientId
    BY <1>3, Disjoint DEF RelayRow
  <2> QED
    BY <1>2, <2>1, TableUpdate
<1>5. /\ relay' \in RelayRow /\ relay'.clients = clients /\ relay'.line = relay.line
      /\ relay'.log = relay.log
  BY <1>3, <1>4 DEF RelayRow
<1>6. ClientRules(relay')
  <2>1. Served(relay')
    BY <1>4, <1>5, Disjoint DEF ClientInv, ClientRules, Served, Serves
  <2>2. Homed(relay')
    BY <1>4, <1>5, Disjoint DEF ClientInv, ClientRules, Homed
  <2>3. LinesOK(relay')
    BY <1>5 DEF ClientInv, ClientRules, LinesOK
  <2> QED
    BY <2>1, <2>2, <2>3 DEF ClientRules
<1>7. \A q \in Request : Goes(q) /\ (Busy(q) => Busy(q)')
  BY RequestStays
<1> QED
  BY <1>1, <1>5, <1>6, <1>7, RulesCarry DEF SameHomes, Listens, ClientInv

(* What a listener that opens or closes changes concerns itself.           *)
LEMMA ListenerRules ==
  ASSUME ClientInv, UNCHANGED req, NEW l \in Listener, relay' \in RelayRow,
         \A s \in Server, i \in ClientId : i # l => relay'.clients[s][i] = relay.clients[s][i],
         \A k \in Conn : k # l => /\ relay'.line[k] = relay.line[k]
                                  /\ relay'.log[k] = relay.log[k],
         \A k \in Listener : k # l => listener'[k] = listener[k],
         \A s \in Server : relay'.clients[s][l] =
                             IF Listens(l)' /\ listener'[l].server = s THEN l ELSE NoConn,
         Listens(l)' => listener'[l].server \in Server,
         listener'[l].pc # "idle", relay'.line[l] # "gone"
  PROVE  ClientInv'
<1>1. Served(relay)'
  <2> SUFFICES ASSUME NEW s \in Server, NEW c \in Chat, relay'.clients[s][c] # NoConn
               PROVE  /\ Serves(relay.clients[s][c], s, c)'
                      /\ relay'.line[relay'.clients[s][c]] \in {"open", "gone"}
    BY DEF Served
  <2>1. PICK k : k = relay.clients[s][c]
    OBVIOUS
  <2>2. relay'.clients[s][c] = k
    BY <2>1, Disjoint
  <2>3. Serves(k, s, c) /\ relay.line[k] \in {"open", "gone"}
    BY <2>1, <2>2 DEF ClientInv, ClientRules, Served
  <2> QED
    BY <2>2, <2>3, Disjoint DEF Serves, Busy, ServerOf, ChatOf
<1>2. Homed(relay)'
  <2> SUFFICES ASSUME NEW k \in Listener
               PROVE  /\ \A s \in Server :
                           relay'.clients[s][k] =
                             IF Listens(k)' /\ listener'[k].server = s THEN k ELSE NoConn
                      /\ Listens(k)' => listener'[k].server \in Server
                      /\ listener'[k].pc = "idle" => relay'.log[k] = {}
                      /\ relay'.line[k] # "gone"
    BY DEF Homed
  <2>1. CASE k = l
    BY <2>1
  <2>2. CASE k # l
    BY <2>2, Disjoint DEF ClientInv, ClientRules, Homed, Listens
  <2> QED
    BY <2>1, <2>2
<1>3. LinesOK(relay)'
  BY Disjoint DEF ClientInv, ClientRules, LinesOK, Early, ChatOf
<1> QED
  BY <1>1, <1>2, <1>3 DEF ClientInv, ClientRules

LEMMA OpenClients ==
  ASSUME ReadInv, ClientInv, NEW l \in Listener, NEW s \in Server, OpenListener(l, s),
         UNCHANGED req
  PROVE  ClientInv'
<1>1. /\ listener[l].pc = "idle" /\ relay' = AddClient(relay, s, l, l) /\ relay \in RelayRow
      /\ listener' = [listener EXCEPT ![l] = [pc |-> "added", server |-> s]]
  BY DEF OpenListener, ClientInv
<1>2. /\ relay' \in RelayRow /\ relay'.log = relay.log
      /\ \A t \in Server, j \in ClientId :
           relay'.clients[t][j] = IF t = s /\ j = l THEN l ELSE relay.clients[t][j]
      /\ \A q \in Conn : relay'.line[q] = IF q = l THEN "open" ELSE relay.line[q]
  BY <1>1, AddClientFacts, Disjoint
<1>3. /\ listener'[l].pc = "added" /\ listener'[l].server = s
      /\ \A k \in Listener : k # l => listener'[k] = listener[k]
  BY <1>1 DEF ReadInv
<1>4. \A t \in Server : relay.clients[t][l] = NoConn
  BY <1>1 DEF ClientInv, ClientRules, Homed, Listens
<1>5. Listens(l)'
  BY <1>3 DEF Listens
<1>6. \A t \in Server : relay'.clients[t][l] =
                          IF Listens(l)' /\ listener'[l].server = t THEN l ELSE NoConn
  BY <1>2, <1>3, <1>4, <1>5, Disjoint
<1> QED
  BY <1>2, <1>3, <1>6, ListenerRules, Disjoint

LEMMA CloseClients ==
  ASSUME ReadInv, ClientInv, NEW l \in Listener, CloseListener(l), UNCHANGED req
  PROVE  ClientInv'
<1>1. /\ listener[l].pc = "open" /\ relay \in RelayRow
      /\ relay' = RemoveClient(relay, listener[l].server, l)
      /\ listener' = [listener EXCEPT ![l].pc = "closing"]
  BY DEF CloseListener, ClientInv
<1>2. PICK s : s = listener[l].server
  OBVIOUS
<1>3. /\ s \in Server /\ relay.line[l] # "gone"
      /\ \A t \in Server : relay.clients[t][l] = IF t = s THEN l ELSE NoConn
  BY <1>1, <1>2 DEF ClientInv, ClientRules, Homed, Listens
<1>4. PICK x \in RelayRow :
        /\ x = Ended(relay, s, l) /\ relay' \in RelayRow
        /\ relay'.clients = x.clients /\ relay'.line = x.line /\ relay'.log = x.log
  BY <1>1, <1>2, <1>3, RemoveListenerFacts
<1>5. /\ \A t \in Server, j \in ClientId :
           x.clients[t][j] = IF t = s /\ j = l THEN NoConn ELSE relay.clients[t][j]
      /\ Wrote(relay, x, {relay.clients[s][l]}, Note("end", l))
      /\ \A k \in Conn : x.line[k] = IF k = relay.clients[s][l] /\ relay.line[k] # "gone"
                                     THEN "ended" ELSE relay.line[k]
  BY <1>1, <1>3, <1>4, EndedFacts, Disjoint
<1>6. /\ listener'[l].pc = "closing" /\ ~ Listens(l)'
      /\ \A k \in Listener : k # l => listener'[k] = listener[k]
  BY <1>1 DEF ReadInv, Listens
<1>7. /\ \A t \in Server, i \in ClientId : i # l => relay'.clients[t][i] = relay.clients[t][i]
      /\ \A t \in Server : relay'.clients[t][l] = NoConn
      /\ relay'.line[l] # "gone"
      /\ \A k \in Conn : k # l => relay'.line[k] = relay.line[k] /\ relay'.log[k] = relay.log[k]
  BY <1>3, <1>4, <1>5, Disjoint DEF Wrote
<1> QED
  BY <1>4, <1>6, <1>7, ListenerRules

LEMMA ClientInvStarts == Init => ClientInv
<1> SUFFICES ASSUME Init PROVE ClientInv
  OBVIOUS
<1>1. PICK clients : clients = [s \in Server |-> [i \in ClientId |-> NoConn]]
  OBVIOUS
<1>2. PICK observers : observers = [s \in Server |-> [c \in Chat |-> {}]]
  OBVIOUS
<1>3. PICK line : line = [k \in Conn |-> "none"]
  OBVIOUS
<1>4. PICK log : log = [k \in Conn |-> {}]
  OBVIOUS
<1>5. relay = [clients |-> clients, observers |-> observers, line |-> line, log |-> log]
  BY <1>1, <1>2, <1>3, <1>4 DEF Init, RelayInit
<1>6. /\ clients \in [Server -> [ClientId -> Conn \cup {NoConn}]]
      /\ observers \in [Server -> [Chat -> SUBSET Listener]]
      /\ line \in [Conn -> {"none", "open", "gone", "ended"}]
      /\ log \in [Conn -> SUBSET Entry]
  BY <1>1, <1>2, <1>3, <1>4
<1>7. relay \in RelayRow
  BY <1>5, <1>6 DEF RelayRow
<1>8. /\ \A s \in Server, i \in ClientId : relay.clients[s][i] = NoConn
      /\ \A k \in Conn : relay.line[k] = "none" /\ relay.log[k] = {}
  BY <1>1, <1>3, <1>4, <1>5
<1>9. \A l \in Listener : ~ Listens(l)
  BY DEF Init, RelayInit, Listens
<1> QED
  BY <1>7, <1>8, <1>9, Disjoint DEF ClientInv, ClientRules, Served, Homed, LinesOK

LEMMA ClientInvStays ==
  ASSUME Overlap = FALSE, AbortInv, ReadInv, AskedInv, BindInv, OutboxInv, ClientInv, [Next]_vars
  PROVE  ClientInv'
<1>1. CASE QuietStep
  <2>1. ClientRules(relay')
    BY <1>1 DEF QuietStep, ClientInv
  <2> QED
    BY <1>1, <2>1, RulesCarry DEF QuietStep, ClientInv
<1>2. ASSUME NEW r \in Request, JoinStep(r) PROVE ClientInv'
  <2>1. PICK s \in Server, c \in Chat : s = ServerOf(r)' /\ c = ChatOf(r)'
    BY <1>2 DEF JoinStep
  <2>2. relay' = AddClient(relay, s, c, r)
    BY <1>2, <2>1 DEF JoinStep, ServerOf, ChatOf
  <2> QED
    BY <1>2, <2>1, <2>2, JoinRules DEF JoinStep, ClientInv
<1>3. ASSUME NEW r \in Request, StreamStep(r) \/ \E y : EndStep(r, y) PROVE ClientInv'
  BY <1>3, StreamClients, EndClients
<1>4. ASSUME NEW r \in Request, \E s, c, l : ObserveStep(r, s, c, l) PROVE ClientInv'
  BY <1>4, ObserveClients
<1>5. CASE ComeOrGo
  BY <1>5, HangUpClients, DropDeadClients, OpenClients, CloseClients DEF ComeOrGo
<1> QED
  BY <1>1, <1>2, <1>3, <1>4, <1>5, RelaySteps, DeliverClients

-----------------------------------------------------------------------------
(* Bind messages and subscriptions.                                        *)

LEMMA OthersStay ==
  ASSUME AbortInv, NEW q \in Request, Begin(q) \/ Serve(q), NEW r \in Request, r # q
  PROVE  req'[r] = req[r]
<1>0. req \in [Request -> RequestRow]
  BY DEF AbortInv, ShapeInv
<1>1. CASE Begin(q)
  BY <1>0, <1>1 DEF Begin, BeginPrediction, BeginWebhook, Asks
<1>2. CASE LookUp(q) \/ Bind(q) \/ Bound(q) \/ ReadUsage(q)
  <2>1. CASE LookUp(q) \/ Bound(q) \/ ReadUsage(q)
    BY <1>0, <2>1 DEF LookUp, Bound, ReadUsage, Moves
  <2>2. CASE Bind(q)
    <3>1. PICK entry :
            \/ req' = [req EXCEPT ![q].todo = @ \ {entry}]
            \/ req' = [[req EXCEPT ![q].todo = @ \ {entry}] EXCEPT ![q].pc = "binding"]
      BY <2>2 DEF Bind
    <3> QED
      BY <1>0, <3>1
  <2> QED
    BY <1>2, <2>1, <2>2
<1>3. CASE Build(q) \/ Resolve(q) \/ StoreUsage(q)
  <2>1. PICK row : req' = [req EXCEPT ![q] = row]
    <3>1. CASE Moves(q, "waiting") \/ Moves(q, "count")
      BY <1>0, <3>1 DEF Moves
    <3>2. ASSUME NEW what, NEW locals, Finishes(q, what, locals)
          PROVE  \E row : req' = [req EXCEPT ![q] = row]
      BY <3>2 DEF Finishes
    <3> QED
      BY <1>3, <3>1, <3>2 DEF Build, Resolve, StoreUsage
  <2> QED
    BY <1>0, <2>1
<1> QED
  BY <1>1, <1>2, <1>3 DEF Serve

(* A request that waits for Redis goes on when Redis has answered.         *)
LEMMA WaitsOn ==
  ASSUME AbortInv, [Next]_vars, NEW r \in Request, Waits(r)
  PROVE  Waits(r)' \/ \E t \in subs : Subscribe(t) /\ t.by = By(r)
<1>1. CASE req' = req
  BY <1>1 DEF Waits
<1>2. CASE \/ UNCHANGED vars \/ Relays \/ Watchers \/ Leaves
           \/ \E w \in Worker : Deliver(w) \/ Crash(w) \/ \E c \in Chat : HandleAbort(w, c)
           \/ \E s \in Server, c \in Chat : Abort(s, c)
  BY <1>1, <1>2 DEF vars, jobVars, Relays, Watchers, Leaves, Deliver, Crash, HandleAbort, Abort
<1>3. CASE \E q \in Request : Emit(q) \/ Finish(q) \/ \E w \in Worker : Pick(w, q)
  BY <1>1, <1>3 DEF Emit, Finish, Pick
<1>4. ASSUME NEW q \in Request, Begin(q) \/ Serve(q) PROVE Waits(r)'
  <2>1. CASE Begin(q)
    <3>1. At(q, "idle")
      BY <2>1 DEF Begin, BeginPrediction, BeginWebhook, Begins
    <3> QED
      BY <2>1, <3>1, OthersStay DEF At, Waits
  <2>2. CASE Serve(q)
    <3>1. req[q].pc \in {"lookup", "bind", "build", "waiting", "count", "store"}
      BY <2>2 DEF Serve, LookUp, Bind, Bound, Build, Resolve, ReadUsage, StoreUsage, At
    <3>2. r # q
      BY <3>1 DEF Waits
    <3> QED
      BY <2>2, <3>2, OthersStay DEF Waits
  <2> QED
    BY <1>4, <2>1, <2>2
<1>5. ASSUME NEW t \in subs, Subscribe(t)
      PROVE  Waits(r)' \/ \E u \in subs : Subscribe(u) /\ u.by = By(r)
  <2>1. CASE t.by = By(r)
    BY <1>5, <2>1
  <2>2. CASE t.by # By(r)
    BY <1>5, <2>2 DEF Subscribe, Waits
  <2> QED
    BY <2>1, <2>2
<1>6. ASSUME NEW t \in unsubs, Unsubscribe(t) PROVE Waits(r)'
  <2>1. ASSUME NEW q \in Request, t.by = By(q), Moves(q, "done") PROVE Waits(r)'
    <3>1. q # r
      BY <2>1 DEF AbortInv, UnsubscriptionsAreAwaited, At, Waits
    <3>2. req'[r] = req[r]
      BY <2>1, <3>1 DEF Moves, AbortInv, ShapeInv
    <3> QED
      BY <3>2 DEF Waits
  <2> QED
    BY <1>6, <2>1 DEF Unsubscribe, Waits
<1> QED
  BY <1>2, <1>3, <1>4, <1>5, <1>6 DEF Next, Redis

LEMMA ElsewhereStays ==
  ASSUME NEW r \in Request, NEW s, NEW c, AskedElsewhere(r, s, c), Goes(r) \/ Starts(r)
  PROVE  AskedElsewhere(r, s, c)'
BY DEF AskedElsewhere, Goes, Starts, Asked, At, ServerOf, ChatOf

LEMMA BindStays ==
  ASSUME AbortInv, [Next]_vars, NEW m, BindOK(m)
  PROVE  BindOK(m)'
BY RequestsGo, ElsewhereStays DEF BindOK

LEMMA SubscriptionStays ==
  ASSUME AbortInv, BindInv, [Next]_vars, NEW t \in subs, ~ Subscribe(t)
  PROVE  SubscriptionOK(t)'
<1>1. SubscriptionOK(t)
  BY DEF BindInv
<1>2. ASSUME NEW r \in Request, t = Token(ServerOf(r), ChatOf(r), By(r)), Waits(r)
      PROVE  t = Token(ServerOf(r), ChatOf(r), By(r))' /\ Waits(r)'
  <2>1. ~ Starts(r)
    BY <1>2 DEF Waits, Starts, At
  <2>2. t = Token(ServerOf(r), ChatOf(r), By(r))'
    BY <1>2, <2>1, RequestsGo DEF Goes, ServerOf, ChatOf, Token, By
  <2>3. ASSUME NEW u \in subs, Subscribe(u), u.by = By(r) PROVE FALSE
    <3>1. SubscriptionOK(u)
      BY DEF BindInv
    <3>2. ASSUME NEW q \in Request, NEW l \in Listener, u.by = <<q, l>> PROVE FALSE
      BY <2>3, <3>2, RelayDistinct DEF By
    <3>3. PICK q \in Request : u = Token(ServerOf(q), ChatOf(q), By(q))
      BY <3>1, <3>2 DEF SubscriptionOK
    <3>4. q = r
      BY <2>3, <3>3 DEF Token, By
    <3> QED
      BY <1>2, <2>3, <3>3, <3>4
  <2> QED
    BY <1>2, <2>2, <2>3, WaitsOn
<1>3. ASSUME NEW r \in Request, NEW l \in Listener, t.by = <<r, l>>,
             AskedElsewhere(r, t.server, t.chat)
      PROVE  AskedElsewhere(r, t.server, t.chat)'
  BY <1>3, RequestsGo, ElsewhereStays
<1> QED
  BY <1>1, <1>2, <1>3 DEF SubscriptionOK

(* The subscriptions and bind messages that a step starts.                 *)
LEMMA NewBinds ==
  ASSUME AbortInv, AskedInv, BindInv, [Next]_vars
  PROVE  /\ \A m \in binds' : m \in binds \/ BindOK(m)'
         /\ \A t \in subs' : (t \in subs /\ ~ Subscribe(t)) \/ SubscriptionOK(t)'
<1>0. \A t \in subs : Subscribe(t) => t \notin subs'
  BY DEF Subscribe, SubscribeEnd
<1>1. CASE binds' \subseteq binds /\ subs' \subseteq subs
  BY <1>0, <1>1
<1>2. CASE UNCHANGED <<subs, binds>>
  BY <1>1, <1>2
<1>3. CASE UNCHANGED vars \/ Watchers \/ Leaves \/ \E w \in Worker : Deliver(w) \/ Crash(w)
  BY <1>2, <1>3 DEF vars, relayVars, Watchers, Leaves, Deliver, Crash, HangUp, CloseListener,
                    LoseListener, OpenListener, DropDead
<1>4. CASE \/ \E w \in Worker, r \in Request : Pick(w, r)
           \/ \E r \in Request : Emit(r) \/ Finish(r)
           \/ \E s \in Server, c \in Chat : Abort(s, c)
           \/ \E w \in Worker, c \in Chat : HandleAbort(w, c)
  BY <1>2, <1>4 DEF Pick, Emit, Finish, Abort, HandleAbort, relayVars
<1>5. ASSUME NEW r \in Request, NEW s \in Server, NEW c \in Chat, BeginPrediction(r, s, c)
      PROVE  /\ binds' = binds
             /\ \A t \in subs' \ subs : SubscriptionOK(t)'
  <2>1. PICK new : new = IF mode = "queue" THEN NewSubscriptions(s, c, By(r)) ELSE {}
    OBVIOUS
  <2>2. /\ binds' = binds /\ subs' = subs \cup new
        /\ Asks(r, "predict", s, c, PcAfterSubscribe(new))
    BY <1>5, <2>1 DEF BeginPrediction
  <2>3. /\ req'[r].pc = PcAfterSubscribe(new) /\ req'[r].server = s /\ req'[r].chat = c
    BY <2>2, StartsFacts DEF Kinds
  <2>4. \A t \in new : t = Token(s, c, By(r))
    BY <2>1 DEF NewSubscriptions
  <2>5. ASSUME NEW t \in new PROVE SubscriptionOK(t)'
    <3>1. t = Token(ServerOf(r), ChatOf(r), By(r))'
      BY <2>3, <2>4 DEF Token, ServerOf, ChatOf, By
    <3>2. Waits(r)'
      BY <2>3 DEF PcAfterSubscribe, Waits
    <3>3. t.server \in Server /\ t.chat \in Chat
      BY <2>4 DEF Token
    <3> QED
      BY <3>1, <3>2, <3>3 DEF SubscriptionOK
  <2> QED
    BY <2>2, <2>5
<1>6. ASSUME NEW r \in Request, Bind(r)
      PROVE  /\ \A m \in binds' \ binds : BindOK(m)'
             /\ \A t \in subs' \ subs : SubscriptionOK(t)'
  <2> DEFINE Binds(entry, new) ==
               /\ new = IF mode = "queue" THEN NewSubscriptions(entry[2], ChatOf(r), By(r)) ELSE {}
               /\ IF entry[2] = ServerOf(r)
                  THEN /\ subs' = subs \cup new /\ binds' = binds
                       /\ new # {} => req' = [[req EXCEPT ![r].todo = @ \ {entry}]
                                                  EXCEPT ![r].pc = "binding"]
                  ELSE /\ binds' = binds \cup {[server |-> entry[2], chat |-> ChatOf(r),
                                               listener |-> entry[1], by |-> r]}
                       /\ subs' = subs
  <2>0. PICK entry \in req[r].todo : \E new : Binds(entry, new)
    BY <1>6 DEF Bind
  <2>1. PICK new : Binds(entry, new)
    BY <2>0
  <2>2. /\ At(r, "bind") /\ req[r] \in RequestRow /\ req \in [Request -> RequestRow]
    BY <1>6 DEF Bind, AbortInv, ShapeInv
  <2>3. entry[1] \in Listener /\ entry[2] \in Server
    BY <2>2 DEF RequestRow
  <2>4. ChatOf(r) \in Chat /\ Asked(r) /\ Goes(r)
    BY <2>2, RequestsGo DEF AskedInv, Asked, At, Starts
  <2>5. ChatOf(r)' = ChatOf(r) /\ ServerOf(r)' = ServerOf(r) /\ Asked(r)'
    BY <2>4 DEF Goes, ChatOf, ServerOf
  <2>6. CASE entry[2] = ServerOf(r)
    <3>1. ASSUME NEW t \in new PROVE SubscriptionOK(t)'
      <4>1. t = Token(entry[2], ChatOf(r), By(r))
        BY <2>1, <3>1 DEF NewSubscriptions
      <4>2. t = Token(ServerOf(r), ChatOf(r), By(r))'
        BY <2>5, <2>6, <4>1 DEF Token, By
      <4>3. Waits(r)'
        BY <2>1, <2>2, <2>6, <3>1 DEF Waits, RequestRow
      <4>4. t.server \in Server /\ t.chat \in Chat
        BY <2>3, <2>4, <4>1 DEF Token
      <4> QED
        BY <4>2, <4>3, <4>4 DEF SubscriptionOK
    <3> QED
      BY <2>1, <2>6, <3>1
  <2>7. CASE entry[2] # ServerOf(r)
    <3>1. PICK m : m = [server |-> entry[2], chat |-> ChatOf(r), listener |-> entry[1], by |-> r]
      OBVIOUS
    <3>2. /\ m.server \in Server /\ m.chat \in Chat /\ m.listener \in Listener
          /\ m.by \in Request
      BY <2>3, <2>4, <3>1
    <3>3. AskedElsewhere(m.by, m.server, m.chat)'
      BY <2>5, <2>7, <3>1 DEF AskedElsewhere
    <3>4. BindOK(m)'
      BY <3>2, <3>3 DEF BindOK
    <3> QED
      BY <2>1, <2>7, <3>1, <3>4
  <2> QED
    BY <2>6, <2>7
<1>7. ASSUME NEW m \in binds, HandleBind(m), UNCHANGED req
      PROVE  /\ binds' \subseteq binds
             /\ \A t \in subs' \ subs : SubscriptionOK(t)'
  <2>1. BindOK(m)'
    BY BindStays DEF BindInv
  <2>2. ASSUME NEW t \in subs' \ subs PROVE SubscriptionOK(t)'
    <3>1. t = Token(m.server, m.chat, <<m.by, m.listener>>)
      BY <1>7 DEF HandleBind, NewSubscriptions
    <3>2. t.server = m.server /\ t.chat = m.chat /\ t.by = <<m.by, m.listener>>
      BY <3>1 DEF Token
    <3> QED
      BY <2>1, <3>2 DEF SubscriptionOK, BindOK
  <2> QED
    BY <1>7, <2>2 DEF HandleBind
<1>8. CASE Relays
  <2>1. UNCHANGED req
    BY <1>8 DEF Relays, jobVars
  <2>2. CASE \E m \in binds : HandleBind(m)
    BY <1>0, <1>7, <2>1, <2>2
  <2> QED
    BY <1>2, <1>8, <2>2 DEF Relays, Heartbeat, Unregister, Cleanup
<1>9. CASE Redis
  BY <1>1, <1>9 DEF Redis, Subscribe, SubscribeEnd, Unsubscribe
<1>10. ASSUME NEW r \in Request, Begin(r)
       PROVE  /\ \A m \in binds' : m \in binds \/ BindOK(m)'
              /\ \A t \in subs' : (t \in subs /\ ~ Subscribe(t)) \/ SubscriptionOK(t)'
  <2>1. CASE \E s \in Server, c \in Chat, kind \in Kinds : BeginWebhook(r, s, c, kind)
    BY <1>2, <2>1 DEF BeginWebhook, relayVars
  <2>2. CASE \E s \in Server, c \in Chat : BeginPrediction(r, s, c)
    BY <1>0, <1>5, <2>2
  <2> QED
    BY <1>10, <2>1, <2>2 DEF Begin
<1>11. ASSUME NEW r \in Request, Serve(r)
       PROVE  /\ \A m \in binds' : m \in binds \/ BindOK(m)'
              /\ \A t \in subs' : (t \in subs /\ ~ Subscribe(t)) \/ SubscriptionOK(t)'
  <2>1. CASE Bind(r)
    BY <1>0, <1>6, <2>1
  <2>2. CASE LookUp(r) \/ Bound(r) \/ ReadUsage(r)
    BY <1>2, <2>2 DEF LookUp, Bound, ReadUsage, relayVars
  <2>3. CASE Build(r) \/ Resolve(r) \/ StoreUsage(r)
    <3>1. ASSUME NEW what, NEW locals, Finishes(r, what, locals) PROVE UNCHANGED <<subs, binds>>
      BY <3>1 DEF Finishes
    <3> QED
      BY <1>2, <2>3, <3>1 DEF Build, Resolve, StoreUsage, relayVars
  <2> QED
    BY <1>11, <2>1, <2>2, <2>3 DEF Serve
<1> QED
  BY <1>3, <1>4, <1>8, <1>9, <1>10, <1>11 DEF Next

LEMMA SubscribedSteps ==
  ASSUME [Next]_vars
  PROVE  \/ UNCHANGED subscribed
         \/ \E t \in subs : Subscribe(t)
         \/ \E t \in unsubs : Unsubscribe(t)
<1>1. CASE UNCHANGED vars \/ Watchers \/ Leaves \/ \E w \in Worker : Deliver(w) \/ Crash(w)
  BY <1>1 DEF vars, relayVars, Watchers, Leaves, Deliver, Crash, HangUp, CloseListener,
                    LoseListener, OpenListener, DropDead
<1>2. CASE \/ \E w \in Worker, r \in Request : Pick(w, r)
           \/ \E r \in Request : Emit(r) \/ Finish(r)
           \/ \E s \in Server, c \in Chat : Abort(s, c)
           \/ \E w \in Worker, c \in Chat : HandleAbort(w, c)
  BY <1>2 DEF Pick, Emit, Finish, Abort, HandleAbort, relayVars
<1>3. CASE \E r \in Request : Begin(r)
  BY <1>3 DEF Begin, BeginPrediction, BeginWebhook, relayVars
<1>4. ASSUME NEW r \in Request, Serve(r) PROVE UNCHANGED subscribed
  <2>1. ASSUME NEW what, NEW locals, Finishes(r, what, locals) PROVE UNCHANGED subscribed
    BY <2>1 DEF Finishes
  <2> QED
    BY <1>4, <2>1 DEF Serve, LookUp, Bind, Bound, ReadUsage, Build, Resolve, StoreUsage, relayVars
<1>5. CASE Relays
  BY <1>5 DEF Relays, Heartbeat, Unregister, Cleanup, HandleBind
<1> QED
  BY <1>1, <1>2, <1>3, <1>4, <1>5 DEF Next, Redis

LEMMA SubscribedStays ==
  ASSUME BindInv, [Next]_vars
  PROVE  subscribed' \in [Server -> SUBSET Chat]
<1>1. CASE UNCHANGED subscribed
  BY <1>1 DEF BindInv
<1>2. ASSUME NEW t \in subs, Subscribe(t) PROVE subscribed' \in [Server -> SUBSET Chat]
  BY <1>2 DEF Subscribe, SubscribeEnd, BindInv, SubscriptionOK
<1>3. ASSUME NEW t \in unsubs, Unsubscribe(t) PROVE subscribed' \in [Server -> SUBSET Chat]
  BY <1>3 DEF Unsubscribe, UnsubscribeEnd, BindInv
<1> QED
  BY <1>1, <1>2, <1>3, SubscribedSteps

LEMMA BindInvStays ==
  ASSUME AbortInv, AskedInv, BindInv, [Next]_vars
  PROVE  BindInv'
<1>1. \A m \in binds' : BindOK(m)'
  BY NewBinds, BindStays DEF BindInv
<1>2. \A t \in subs' : SubscriptionOK(t)'
  BY NewBinds, SubscriptionStays
<1> QED
  BY <1>1, <1>2, SubscribedStays DEF BindInv

LEMMA BindInvStarts == Init => BindInv
BY DEF Init, RelayInit, BindInv

-----------------------------------------------------------------------------
(* The invariant of the relay so far, and what it says at once.            *)

RelayInv == AbortInv /\ ReadInv /\ AskedInv /\ OutboxInv /\ BindInv /\ ClientInv

LEMMA RelayInvStarts == Init => RelayInv
BY AbortInvStarts, ReadInvStarts, AskedInvStarts, OutboxInvStarts, BindInvStarts, ClientInvStarts
   DEF RelayInv

LEMMA RelayInvStays ==
  ASSUME Overlap = FALSE, RelayInv, [Next]_vars
  PROVE  RelayInv'
BY AbortInvStays, ReadInvStays, AskedInvStays, OutboxInvStays, BindInvStays, ClientInvStays
   DEF RelayInv

LEMMA RelayTypes == RelayInv => RelayTypeOK
<1> SUFFICES ASSUME RelayInv PROVE RelayTypeOK
  OBVIOUS
<1>1. /\ relay.clients \in [Server -> [ClientId -> Conn \cup {NoConn}]]
      /\ relay.observers \in [Server -> [Chat -> SUBSET Listener]]
      /\ relay.line \in [Conn -> {"none", "open", "gone", "ended"}]
  BY DEF RelayInv, ClientInv, RelayRow
<1>2. /\ subscribed \in [Server -> SUBSET Chat] /\ usage \in Int
      /\ pool \in [Server \cup Worker -> [Chat -> Request \cup {NoJob}]]
  BY DEF RelayInv, BindInv, ReadInv, AbortInv, ShapeInv
<1>3. \A s \in Server, c \in Chat :
        relay.clients[s][c] # NoConn => Serves(relay.clients[s][c], s, c)
  BY DEF RelayInv, ClientInv, ClientRules, Served
<1> QED
  BY <1>1, <1>2, <1>3 DEF RelayTypeOK, Serves

(* Whatever clients and workers do, a request whose response is held under *)
(* the id of a chat (SSEStreamer clients.set, 50 and 54) is the one that   *)
(* is served for that chat on that server: removeClient (99) and safeWrite *)
(* (71) have taken every other away.                                       *)
THEOREM ClientsAreServed ==
  ASSUME Overlap = FALSE
  PROVE  Spec => []RelayTypeOK
<1>1. RelayInv /\ [Next]_vars => RelayInv'
  BY RelayInvStays
<1> QED
  BY <1>1, RelayInvStarts, RelayTypes, PTL DEF Spec

(* A response is ended when its request leaves the SSEStreamer, with the   *)
(* note of the end (removeClient, 99-115), and nothing that publishers     *)
(* still have to say about its chat is written to it any more.             *)
THEOREM EndsAreLast ==
  ASSUME Overlap = FALSE
  PROVE  Spec => []NothingAfterEnd
<1>1. RelayInv /\ [Next]_vars => RelayInv'
  BY RelayInvStays
<1>2. RelayInv => NothingAfterEnd
  BY DEF RelayInv, ClientInv, ClientRules, LinesOK, NothingAfterEnd
<1> QED
  BY <1>1, <1>2, RelayInvStarts, PTL DEF Spec

-----------------------------------------------------------------------------
(* What listeners were told.                                               *)

Heard(y, l, c) == \E e \in y.log[l] : e.chat = c

(* Listeners heard of chats of requests only.                              *)
Mentions(y) ==
  \A l \in Listener : \A e \in y.log[l] :
    e.chat \in Chat => \E r \in Request : Asked(r) /\ ChatOf(r) = e.chat

(* A listener on the server of r that heard of its chat still observes it, *)
(* and when r is done was told of the end.                                 *)
Informed(y, r) ==
  /\ At(r, "done") => y.observers[ServerOf(r)][ChatOf(r)] = {}
  /\ \A l \in Listener :
       ListensAt(l, ServerOf(r)) /\ Heard(y, l, ChatOf(r)) =>
         IF At(r, "done") THEN Note("executionEnd", ChatOf(r)) \in y.log[l]
         ELSE l \in y.observers[ServerOf(r)][ChatOf(r)]

ToldInv ==
  /\ Mentions(relay)
  /\ \A r \in Request : Asked(r) /\ AloneInChat(r) => Informed(relay, r)

LEMMA AloneStays ==
  ASSUME AskedInv, NEW r \in Request, Asked(r), Goes(r),
         \A q \in Request : Goes(q) \/ Starts(q), AloneInChat(r)'
  PROVE  AloneInChat(r)
<1> SUFFICES ASSUME NEW q \in Request, q # r PROVE ChatOf(q) # ChatOf(r)
  BY DEF AloneInChat
<1>1. ChatOf(q)' # ChatOf(r)' /\ ChatOf(r)' = ChatOf(r)
  BY DEF AloneInChat, Goes, ChatOf
<1>2. CASE Goes(q)
  BY <1>1, <1>2 DEF Goes, ChatOf
<1>3. CASE Starts(q)
  BY <1>3, Disjoint DEF Starts, AskedInv
<1> QED
  BY <1>2, <1>3

LEMMA ListenersReached ==
  ASSUME NEW y \in RelayRow, Served(y), Homed(y), NEW s \in Server, NEW c \in Chat,
         NEW l \in Listener
  PROVE  l \in Lines(y, s, {c} \cup y.observers[s][c]) <=>
           l \in y.observers[s][c] /\ ListensAt(l, s)
<1>1. l # y.clients[s][c] \/ y.clients[s][c] = NoConn
  BY Disjoint DEF Served, Serves
<1> QED
  BY <1>1, Reached

(* An entry about another chat.                                            *)
LEMMA InformedElsewhere ==
  ASSUME AskedInv, NEW r \in Request, Asked(r), NEW y \in RelayRow, NEW z, Informed(y, r),
         NEW e \in Entry, e.chat # ChatOf(r),
         \A l \in Listener : z.log[l] = y.log[l] \/ z.log[l] = Recorded(y.log[l], e),
         z.observers[ServerOf(r)][ChatOf(r)] = y.observers[ServerOf(r)][ChatOf(r)]
  PROVE  Informed(z, r)
<1> SUFFICES ASSUME NEW l \in Listener, ListensAt(l, ServerOf(r)), Heard(z, l, ChatOf(r))
             PROVE  IF At(r, "done") THEN Note("executionEnd", ChatOf(r)) \in z.log[l]
                    ELSE l \in z.observers[ServerOf(r)][ChatOf(r)]
  BY DEF Informed
<1>1. Heard(y, l, ChatOf(r))
  BY DEF Heard, Recorded
<1>2. Note("executionEnd", ChatOf(r)).what # "event" /\ Note("executionEnd", ChatOf(r)).chat = ChatOf(r)
  BY DEF Note
<1>3. Note("executionEnd", ChatOf(r)) \in y.log[l] => Note("executionEnd", ChatOf(r)) \in z.log[l]
  BY <1>2 DEF Recorded, Replaces
<1> QED
  BY <1>1, <1>3 DEF Informed

(* An entry for observers, while r is served.                              *)
LEMMA InformedHere ==
  ASSUME NEW r \in Request, NEW y, NEW z, Informed(y, r), ~ At(r, "done"),
         \A l \in Listener : ListensAt(l, ServerOf(r)) =>
           /\ z.log[l] = y.log[l] \/ l \in y.observers[ServerOf(r)][ChatOf(r)]
           /\ l \in y.observers[ServerOf(r)][ChatOf(r)] =>
                l \in z.observers[ServerOf(r)][ChatOf(r)]
  PROVE  Informed(z, r)
BY DEF Informed, Heard

LEMMA SafeWriteInformed ==
  ASSUME AskedInv, NEW r \in Request, Asked(r), AloneInChat(r), NEW y \in RelayRow,
         Informed(y, r), Served(y), Homed(y), NEW q \in Request, Busy(q), NEW e \in Entry,
         e.chat = ChatOf(q), NEW z, z = SafeWrite(y, ServerOf(q), ChatOf(q), e)
  PROVE  Informed(z, r)
<1>1. PICK s \in Server, c \in Chat : s = ServerOf(q) /\ c = ChatOf(q)
  BY DEF AskedInv, Asked, Busy, At
<1>2. /\ Wrote(y, z, Lines(y, s, {c} \cup y.observers[s][c]), e)
      /\ Watching(y, z, s, c, Connected(y, s, y.observers[s][c]))
  BY <1>1, SafeWriteFacts
<1>3. ServerOf(r) \in Server /\ ChatOf(r) \in Chat
  BY DEF AskedInv
<1>4. CASE q = r
  <2>1. \A l \in Listener : ListensAt(l, s) =>
          /\ z.log[l] = y.log[l] \/ l \in y.observers[s][c]
          /\ l \in y.observers[s][c] => l \in z.observers[s][c]
    <3> SUFFICES ASSUME NEW l \in Listener, ListensAt(l, s)
                 PROVE  /\ z.log[l] = y.log[l] \/ l \in y.observers[s][c]
                        /\ l \in y.observers[s][c] => l \in z.observers[s][c]
      OBVIOUS
    <3>1. z.log[l] = y.log[l] \/ l \in Lines(y, s, {c} \cup y.observers[s][c])
      BY <1>2, Disjoint DEF Wrote
    <3>2. z.observers[s][c] = Connected(y, s, y.observers[s][c])
      BY <1>2 DEF Watching
    <3> QED
      BY <3>1, <3>2, ListenersReached, ObserversReached
  <2> QED
    BY <1>1, <1>4, <2>1, InformedHere DEF Busy, At
<1>5. CASE q # r
  <2>1. ChatOf(r) # c
    BY <1>1, <1>5 DEF AloneInChat
  <2>2. z.observers[ServerOf(r)][ChatOf(r)] = y.observers[ServerOf(r)][ChatOf(r)]
    BY <1>2, <1>3, <2>1 DEF Watching
  <2>3. \A l \in Listener : z.log[l] = y.log[l] \/ z.log[l] = Recorded(y.log[l], e)
    BY <1>2, Disjoint DEF Wrote
  <2> QED
    BY <1>1, <2>1, <2>2, <2>3, InformedElsewhere
<1> QED
  BY <1>4, <1>5

(* What is known of r stays while it and its listeners stay.               *)
LEMMA InformedCarry ==
  ASSUME NEW r \in Request, Informed(relay', r), Goes(r), At(r, "done")' <=> At(r, "done"),
         \A l \in Listener : ListensAt(l, ServerOf(r))' =>
           ListensAt(l, ServerOf(r)) \/ ~ Heard(relay, l, ChatOf(r))'
  PROVE  Informed(relay, r)'
BY DEF Informed, Goes, ServerOf, ChatOf, Heard, Note, ListensAt, Listens

LEMMA MentionsCarry ==
  ASSUME Mentions(relay'), \A q \in Request : Goes(q) \/ Starts(q)
  PROVE  Mentions(relay)'
<1> SUFFICES ASSUME NEW l \in Listener, NEW e \in relay'.log[l], e.chat \in Chat
             PROVE  \E r \in Request : Asked(r)' /\ ChatOf(r)' = e.chat
  BY DEF Mentions
<1>1. PICK r \in Request : Asked(r) /\ ChatOf(r) = e.chat
  BY DEF Mentions
<1> QED
  BY <1>1 DEF Goes, Starts, Asked, At, ChatOf

LEMMA DoneStays ==
  ASSUME NEW r \in Request, Asked(r), Goes(r), Busy(r) => Busy(r)'
  PROVE  At(r, "done")' <=> At(r, "done")
BY DEF Goes, Asked, Busy, At

LEMMA NewInformed ==
  ASSUME AskedInv, Mentions(relay), NEW r \in Request, Starts(r), AloneInChat(r)',
         \A q \in Request : Goes(q) \/ Starts(q),
         \A l \in Listener : relay'.log[l] = relay.log[l]
  PROVE  Informed(relay, r)'
<1>1. ~ At(r, "done")' /\ ChatOf(r)' \in Chat
  BY DEF Starts, At, ChatOf
<1>2. ASSUME NEW l \in Listener, Heard(relay, l, ChatOf(r))' PROVE FALSE
  <2>1. PICK e \in relay.log[l] : e.chat = ChatOf(r)'
    BY <1>2 DEF Heard
  <2>2. PICK q \in Request : Asked(q) /\ ChatOf(q) = e.chat
    BY <1>1, <2>1 DEF Mentions
  <2>3. q # r /\ Goes(q)
    BY <2>2 DEF Starts, Asked
  <2>4. ChatOf(q)' = ChatOf(r)'
    BY <2>1, <2>2, <2>3 DEF Goes, ChatOf
  <2> QED
    BY <2>3, <2>4 DEF AloneInChat
<1> QED
  BY <1>1, <1>2 DEF Informed

LEMMA QuietTold ==
  ASSUME AskedInv, ToldInv, QuietStep, NEW r \in Request, Asked(r), AloneInChat(r), Goes(r)
  PROVE  Informed(relay, r)'
<1>1. Informed(relay', r)
  BY DEF ToldInv, QuietStep
<1>2. At(r, "done")' <=> At(r, "done")
  BY DoneStays DEF QuietStep
<1>3. \A l \in Listener : ListensAt(l, ServerOf(r))' => ListensAt(l, ServerOf(r))
  BY DEF QuietStep, SameHomes, ListensAt, Goes, ServerOf
<1> QED
  BY <1>1, <1>2, <1>3, InformedCarry

LEMMA JoinTold ==
  ASSUME AskedInv, ClientInv, ToldInv, NEW q \in Request, JoinStep(q),
         NEW r \in Request, Asked(r), AloneInChat(r), Goes(r)
  PROVE  Informed(relay, r)'
<1>1. /\ relay'.observers = relay.observers /\ relay'.log = relay.log
  <2>1. PICK s \in Server, c \in Chat : s = ServerOf(q)' /\ c = ChatOf(q)'
    BY DEF JoinStep
  <2>2. relay' = AddClient(relay, s, c, q) /\ relay \in RelayRow /\ q \in Conn /\ c \in ClientId
    BY <2>1, Disjoint DEF JoinStep, ServerOf, ChatOf, ClientInv
  <2> QED
    BY <2>2, AddClientFacts
<1>2. Informed(relay, r)
  BY DEF ToldInv
<1>3. Informed(relay', r)
  BY <1>1, <1>2 DEF Informed, Heard
<1>4. Busy(r) => Busy(r)'
  BY RequestStays DEF JoinStep
<1>5. At(r, "done")' <=> At(r, "done")
  BY <1>4, DoneStays
<1>6. \A l \in Listener : ListensAt(l, ServerOf(r))' => ListensAt(l, ServerOf(r))
  BY DEF JoinStep, ListensAt, Listens, Goes, ServerOf
<1> QED
  BY <1>3, <1>5, <1>6, InformedCarry

LEMMA ObserveTold ==
  ASSUME AskedInv, ClientInv, ToldInv, NEW q \in Request, NEW s, NEW c, NEW l,
         ObserveStep(q, s, c, l), NEW r \in Request, Asked(r), AloneInChat(r)
  PROVE  Informed(relay, r)'
<1>1. /\ c \in Chat /\ s \in Server /\ l \in Listener /\ relay \in RelayRow
      /\ relay' = AddObserver(relay, s, c, l)
  BY DEF ObserveStep, ClientInv
<1>2. relay'.log = relay.log /\ Watches(relay, relay', s, c, l)
  BY <1>1, AddObserverFacts
<1>3. Asked(q) /\ ChatOf(q) = c /\ (ServerOf(q) # s \/ At(q, "bind"))
  BY DEF ObserveStep
<1>4. Goes(r) /\ (Busy(r) => Busy(r)')
  BY DEF ObserveStep
<1>5. ServerOf(r) \in Server /\ ChatOf(r) \in Chat /\ Informed(relay, r)
  BY DEF AskedInv, ToldInv
<1>6. Informed(relay', r)
  <2>1. CASE s = ServerOf(r) /\ c = ChatOf(r)
    <3>1. q = r
      BY <1>3, <2>1 DEF AloneInChat
    <3>2. ~ At(r, "done")
      BY <1>3, <2>1, <3>1 DEF At
    <3>3. \A k \in relay.observers[s][c] : k \in relay'.observers[s][c]
      BY <1>1, <1>2 DEF Watches, Watching
    <3> QED
      BY <1>2, <1>5, <2>1, <3>2, <3>3, InformedHere
  <2>2. CASE ~ (s = ServerOf(r) /\ c = ChatOf(r))
    <3>1. relay'.observers[ServerOf(r)][ChatOf(r)] = relay.observers[ServerOf(r)][ChatOf(r)]
      BY <1>2, <1>5, <2>2 DEF Watches, Watching
    <3> QED
      BY <1>2, <1>5, <3>1 DEF Informed, Heard
  <2> QED
    BY <2>1, <2>2
<1>7. At(r, "done")' <=> At(r, "done")
  BY <1>4, DoneStays
<1>8. \A k \in Listener : ListensAt(k, ServerOf(r))' => ListensAt(k, ServerOf(r))
  BY <1>4 DEF ObserveStep, ListensAt, Listens, Goes, ServerOf
<1> QED
  BY <1>4, <1>6, <1>7, <1>8, InformedCarry

LEMMA StreamTold ==
  ASSUME AbortInv, AskedInv, ClientInv, ToldInv, NEW q \in Request, StreamStep(q),
         NEW r \in Request, Asked(r), AloneInChat(r)
  PROVE  Informed(relay, r)'
<1>1. PICK e : e = Event(ChatOf(q), q, job[q].try, job[q].sent + 1)
  OBVIOUS
<1>2. /\ job[q].pc = "active" /\ UNCHANGED <<listener, req>>
      /\ relay' = SafeWrite(relay, ServerOf(q), ChatOf(q), e)
  BY <1>1 DEF StreamStep, Emit
<1>3. Busy(q) /\ ChatOf(q) \in Chat /\ job[q] \in JobRow
  BY <1>2 DEF AbortInv, ShapeInv, JobsAreAwaited, At, Busy
<1>4. e \in Entry /\ e.chat = ChatOf(q)
  BY <1>1, <1>3 DEF Event, Entry, EventEntry, JobRow
<1>5. Informed(relay, r) /\ relay \in RelayRow /\ Served(relay) /\ Homed(relay)
  BY DEF ToldInv, ClientInv, ClientRules
<1>6. Informed(relay', r)
  BY <1>2, <1>3, <1>4, <1>5, SafeWriteInformed
<1>7. Goes(r) /\ (At(r, "done")' <=> At(r, "done"))
  BY <1>2, RequestStays DEF At
<1>8. \A l \in Listener : ListensAt(l, ServerOf(r))' => ListensAt(l, ServerOf(r))
  BY <1>2 DEF ListensAt, Listens, ServerOf
<1> QED
  BY <1>6, <1>7, <1>8, InformedCarry

(* The event at the head of an outbox is one of a request that was served. *)
LEMMA HeadFacts ==
  ASSUME OutboxInv, NEW w \in Worker, outbox[w] # <<>>, NEW e, e = Head(outbox[w])
  PROVE  /\ e = outbox[w][1] /\ 1 \in 1 .. Len(outbox[w])
         /\ e \in EventEntry /\ e \in Entry /\ e.what = "event" /\ e.chat \in Chat
         /\ e.job \in Request /\ e.try \in Nat /\ e.n \in Nat /\ e.n > 0
         /\ Travels(w, e)
<1>1. outbox[w] \in Seq(EventEntry)
  BY DEF OutboxInv
<1>2. e = outbox[w][1] /\ 1 \in 1 .. Len(outbox[w])
  BY <1>1, TailFacts
<1> QED
  BY <1>2, OutboxEntry DEF OutboxInv

LEMMA DeliverTold ==
  ASSUME AskedInv, OutboxInv, ClientInv, ToldInv, NEW w \in Worker, Deliver(w),
         NEW r \in Request, Asked(r), AloneInChat(r)
  PROVE  Informed(relay, r)'
<1>1. PICK e : e = Head(outbox[w])
  OBVIOUS
<1>2. relay' = Published(e.chat, e) /\ UNCHANGED <<listener, req>> /\ outbox[w] # <<>>
  BY <1>1 DEF Deliver
<1>3. /\ e \in Entry /\ e.chat \in Chat /\ e.job \in Request /\ e.chat = ChatOf(e.job)
  BY <1>1, <1>2, HeadFacts DEF Travels
<1>4. /\ Informed(relay, r) /\ relay \in RelayRow /\ Served(relay) /\ Homed(relay)
      /\ ServerOf(r) \in Server /\ ChatOf(r) \in Chat
  BY DEF ToldInv, ClientInv, ClientRules, AskedInv
<1>5. PICK c \in Chat : c = e.chat
  BY <1>3
<1>6. /\ Wrote(relay, relay', Readers(c), e)
      /\ \A t \in Server, d \in Chat :
           relay'.observers[t][d] = IF t \in Receivers(c) /\ d = c
                                    THEN Connected(relay, t, relay.observers[t][c])
                                    ELSE relay.observers[t][d]
  BY <1>2, <1>3, <1>4, <1>5, PublishedFacts
<1>7. \A l \in Listener : ListensAt(l, ServerOf(r)) =>
        /\ relay'.log[l] = relay.log[l] \/ l \in relay.observers[ServerOf(r)][c]
  <2> SUFFICES ASSUME NEW l \in Listener, ListensAt(l, ServerOf(r)),
                      relay'.log[l] # relay.log[l]
               PROVE  l \in relay.observers[ServerOf(r)][c]
    OBVIOUS
  <2>1. l \in Readers(c)
    BY <1>6, Disjoint DEF Wrote
  <2>2. PICK s \in Server : l \in Lines(relay, s, {c} \cup relay.observers[s][c])
    BY <2>1 DEF Readers, Receivers
  <2>3. l \in relay.observers[s][c] /\ ListensAt(l, s)
    BY <1>4, <2>2, ListenersReached
  <2> QED
    BY <2>3 DEF ListensAt
<1>8. Informed(relay', r)
  <2>1. CASE ChatOf(r) # c
    <3>1. \A l \in Listener : relay'.log[l] = relay.log[l] \/ relay'.log[l] = Recorded(relay.log[l], e)
      BY <1>6, Disjoint DEF Wrote
    <3>2. relay'.observers[ServerOf(r)][ChatOf(r)] = relay.observers[ServerOf(r)][ChatOf(r)]
      BY <1>4, <1>6, <2>1
    <3> QED
      BY <1>3, <1>4, <1>5, <2>1, <3>1, <3>2, InformedElsewhere
  <2>2. CASE ChatOf(r) = c
    <3>1. /\ \A l \in relay'.observers[ServerOf(r)][c] : l \in relay.observers[ServerOf(r)][c]
          /\ \A l : l \in relay.observers[ServerOf(r)][c] /\ ListensAt(l, ServerOf(r)) =>
               l \in relay'.observers[ServerOf(r)][c]
      <4>1. \/ relay'.observers[ServerOf(r)][c] = relay.observers[ServerOf(r)][c]
            \/ relay'.observers[ServerOf(r)][c]
                 = Connected(relay, ServerOf(r), relay.observers[ServerOf(r)][c])
        BY <1>4, <1>6
      <4> QED
        BY <1>4, <4>1, ObserversReached
    <3>2. CASE At(r, "done")
      <4>1. relay.observers[ServerOf(r)][c] = {}
        BY <1>4, <2>2, <3>2 DEF Informed
      <4>2. \A l \in Listener : ListensAt(l, ServerOf(r)) => relay'.log[l] = relay.log[l]
        BY <1>7, <4>1
      <4>3. relay'.observers[ServerOf(r)][c] = {}
        BY <3>1, <4>1
      <4> QED
        BY <1>4, <2>2, <3>2, <4>2, <4>3 DEF Informed, Heard
    <3>3. CASE ~ At(r, "done")
      BY <1>4, <1>7, <2>2, <3>1, <3>3, InformedHere
    <3> QED
      BY <3>2, <3>3
  <2> QED
    BY <2>1, <2>2
<1>9. Goes(r) /\ (At(r, "done")' <=> At(r, "done"))
  BY <1>2, RequestStays DEF At
<1>10. \A l \in Listener : ListensAt(l, ServerOf(r))' => ListensAt(l, ServerOf(r))
  BY <1>2 DEF ListensAt, Listens, ServerOf
<1> QED
  BY <1>8, <1>9, <1>10, InformedCarry

(* The end of q, after y, for listeners.                                   *)
LEMMA EndListeners ==
  ASSUME NEW y \in RelayRow, ClientRules(y), NEW s \in Server, NEW c \in Chat,
         NEW z, z = RemoveClient(y, s, c)
  PROVE  /\ z \in RelayRow /\ Watching(y, z, s, c, {})
         /\ \A l \in Listener :
              z.log[l] = IF l \in y.observers[s][c] /\ ListensAt(l, s)
                         THEN Recorded(y.log[l], Note("executionEnd", c)) ELSE y.log[l]
<1>1. PICK x \in RelayRow :
        /\ x = Ended(y, s, c) /\ z \in RelayRow
        /\ Wrote(x, z, Lines(x, s, x.observers[s][c]), Note("executionEnd", c))
        /\ Watching(x, z, s, c, {})
  BY RemoveChatFacts
<1>2. /\ x.observers = y.observers
      /\ \A t \in Server, j \in ClientId :
           x.clients[t][j] = IF t = s /\ j = c THEN NoConn ELSE y.clients[t][j]
      /\ Wrote(y, x, {y.clients[s][c]}, Note("end", c))
      /\ \A k \in Conn : x.line[k] = IF k = y.clients[s][c] /\ y.line[k] # "gone" THEN "ended"
                                     ELSE y.line[k]
  BY <1>1, EndedFacts, Disjoint
<1>3. \A l \in Listener : l # y.clients[s][c]
  BY Disjoint DEF ClientRules, Served, Serves
<1>4. \A l \in Listener : x.log[l] = y.log[l]
  BY <1>2, <1>3, Disjoint DEF Wrote
<1>5. Homed(x)
  BY <1>2, <1>3, <1>4, Disjoint DEF ClientRules, Homed
<1>6. Watching(y, z, s, c, {})
  BY <1>1, <1>2 DEF Watching
<1>7. ASSUME NEW l \in Listener
      PROVE  z.log[l] = IF l \in y.observers[s][c] /\ ListensAt(l, s)
                        THEN Recorded(y.log[l], Note("executionEnd", c)) ELSE y.log[l]
  <2>1. l \in Lines(x, s, x.observers[s][c]) <=> l \in y.observers[s][c] /\ ListensAt(l, s)
    BY <1>2, <1>5, ObserversReached
  <2>2. x.line[l] # "gone"
    BY <1>5 DEF Homed
  <2> QED
    BY <1>1, <1>4, <2>1, <2>2, Disjoint DEF Wrote
<1> QED
  BY <1>1, <1>6, <1>7

LEMMA EndRules ==
  ASSUME ClientInv, NEW q \in Request, NEW y, EndStep(q, y)
  PROVE  y \in RelayRow /\ ClientRules(y)
<1>1. CASE y = relay
  BY <1>1 DEF ClientInv
<1>2. ASSUME NEW what \in {"error", "metadata"},
             y = SafeWrite(relay, ServerOf(q), ChatOf(q), Note(what, ChatOf(q)))
      PROVE  y \in RelayRow /\ ClientRules(y)
  <2>1. Note(what, ChatOf(q)) \in Entry /\ Note(what, ChatOf(q)).what # "end"
    BY NoteFacts DEF EndStep, ClientId
  <2> QED
    BY <1>2, <2>1, SafeWriteRules DEF EndStep, ClientInv
<1> QED
  BY <1>1, <1>2 DEF EndStep

LEMMA EndInformed ==
  ASSUME AskedInv, ClientInv, ToldInv, NEW q \in Request, NEW y, EndStep(q, y),
         NEW r \in Request, Asked(r), AloneInChat(r)
  PROVE  Informed(y, r)
<1>0. /\ Informed(relay, r) /\ relay \in RelayRow /\ Served(relay) /\ Homed(relay)
      /\ Busy(q)
  BY DEF ToldInv, ClientInv, ClientRules, EndStep
<1>1. CASE y = relay
  BY <1>0, <1>1
<1>2. ASSUME NEW what \in {"error", "metadata"},
             y = SafeWrite(relay, ServerOf(q), ChatOf(q), Note(what, ChatOf(q)))
      PROVE  Informed(y, r)
  <2>1. Note(what, ChatOf(q)) \in Entry /\ Note(what, ChatOf(q)).chat = ChatOf(q)
    BY NoteFacts DEF EndStep, ClientId
  <2> QED
    BY <1>0, <1>2, <2>1, SafeWriteInformed
<1> QED
  BY <1>1, <1>2 DEF EndStep

LEMMA EndTold ==
  ASSUME AskedInv, ClientInv, ToldInv, NEW q \in Request, NEW y, EndStep(q, y),
         NEW r \in Request, Asked(r), AloneInChat(r)
  PROVE  Informed(relay, r)'
<1>0. /\ Busy(q) /\ ServerOf(q) \in Server /\ ChatOf(q) \in Chat /\ Goes(q)
      /\ \A p \in Request : p # q => req'[p] = req[p]
      /\ listener' = listener
  BY DEF EndStep
<1>1. y \in RelayRow /\ ClientRules(y) /\ Informed(y, r)
  BY EndRules, EndInformed
<1>2. \A l \in Listener : ListensAt(l, ServerOf(r))' => ListensAt(l, ServerOf(r))
  BY <1>0 DEF ListensAt, Listens, Goes, ServerOf
<1>3. Goes(r)
  BY <1>0, RequestStays
<1>4. CASE relay' = y /\ At(q, "unsubscribing")'
  <2>1. At(r, "done")' <=> At(r, "done")
    BY <1>0, <1>4 DEF Busy, At
  <2> QED
    BY <1>1, <1>2, <1>3, <1>4, <2>1, InformedCarry
<1>5. CASE relay' = RemoveClient(y, ServerOf(q), ChatOf(q)) /\ At(q, "done")'
  <2>1. PICK s \in Server, c \in Chat : s = ServerOf(q) /\ c = ChatOf(q)
    BY <1>0
  <2>2. /\ Watching(y, relay', s, c, {})
        /\ \A l \in Listener :
             relay'.log[l] = IF l \in y.observers[s][c] /\ ListensAt(l, s)
                             THEN Recorded(y.log[l], Note("executionEnd", c)) ELSE y.log[l]
    BY <1>1, <1>5, <2>1, EndListeners
  <2>3. ServerOf(r) \in Server /\ ChatOf(r) \in Chat
    BY DEF AskedInv
  <2>4. CASE r = q
    <3>1. relay'.observers[s][c] = {}
      BY <2>2 DEF Watching
    <3>2. ASSUME NEW l \in Listener, ListensAt(l, s), Heard(relay', l, c)
          PROVE  Note("executionEnd", c) \in relay'.log[l]
      <4>1. CASE l \in y.observers[s][c]
        BY <2>2, <3>2, <4>1 DEF Recorded
      <4>2. CASE l \notin y.observers[s][c]
        <5>1. Heard(y, l, c)
          BY <2>2, <3>2, <4>2 DEF Heard
        <5> QED
          BY <1>0, <1>1, <2>1, <2>4, <3>2, <4>2, <5>1 DEF Informed, Busy, At
      <4> QED
        BY <4>1, <4>2
    <3>3. At(r, "done")' /\ ServerOf(r)' = s /\ ChatOf(r)' = c
      BY <1>3, <1>5, <2>1, <2>4 DEF Goes, ServerOf, ChatOf
    <3>4. \A l \in Listener : ListensAt(l, s)' => ListensAt(l, s)
      BY <1>0 DEF ListensAt, Listens
    <3> QED
      BY <3>1, <3>2, <3>3, <3>4 DEF Informed, Heard, Note, ListensAt, Listens
  <2>5. CASE r # q
    <3>1. ChatOf(r) # c
      BY <2>1, <2>5 DEF AloneInChat
    <3>2. relay'.observers[ServerOf(r)][ChatOf(r)] = y.observers[ServerOf(r)][ChatOf(r)]
      BY <2>2, <2>3, <3>1 DEF Watching
    <3>3. PICK e : e = Note("executionEnd", c)
      OBVIOUS
    <3>4. e \in Entry /\ e.chat = c
      BY <3>3, NoteFacts, Disjoint
    <3>5. \A l \in Listener : relay'.log[l] = y.log[l] \/ relay'.log[l] = Recorded(y.log[l], e)
      BY <2>2, <3>3
    <3>6. Informed(relay', r)
      BY <1>1, <3>1, <3>2, <3>4, <3>5, InformedElsewhere
    <3>7. At(r, "done")' <=> At(r, "done")
      BY <1>0, <2>5 DEF At
    <3> QED
      BY <1>2, <1>3, <3>6, <3>7, InformedCarry
  <2> QED
    BY <2>4, <2>5
<1> QED
  BY <1>4, <1>5 DEF EndStep

(* Clients and listeners that come and go.                                 *)
SameBooks == relay'.observers = relay.observers /\ relay'.log = relay.log

Closes(l, s) ==
  /\ ~ Listens(l)' /\ ListensAt(l, s)
  /\ \A k \in Conn : k # l => relay'.log[k] = relay.log[k]
  /\ relay'.log[l] = Recorded(relay.log[l], Note("end", l))
  /\ LetsGo(relay, relay', s, l)

Arrivals ==
  \A l \in Listener : Listens(l)' =>
    \/ listener[l].pc = "idle"
    \/ Listens(l) /\ listener'[l].server = listener[l].server

LEMMA ComeOrGoFacts ==
  ASSUME ReadInv, ClientInv, ComeOrGo
  PROVE  /\ UNCHANGED <<setup, req, job, outbox, subscribed>>
         /\ SameBooks \/ \E l \in Listener, s \in Server : Closes(l, s)
         /\ Arrivals
<1>0. relay \in RelayRow /\ UNCHANGED <<setup, req, job, outbox>>
  BY DEF ClientInv, ComeOrGo
<1>1. ASSUME NEW r \in Request, HangUp(r)
      PROVE  /\ UNCHANGED <<listener, subscribed>>
             /\ relay'.observers = relay.observers /\ relay'.log = relay.log
  BY <1>0, <1>1 DEF HangUp, RelayRow
<1>2. ASSUME NEW s \in Server, NEW c \in Chat, DropDead(s, c)
      PROVE  /\ UNCHANGED <<listener, subscribed>>
             /\ relay'.observers = relay.observers /\ relay'.log = relay.log
  BY <1>0, <1>2 DEF DropDead, RelayRow
<1>3. ASSUME NEW l \in Listener, NEW s \in Server, OpenListener(l, s)
      PROVE  /\ subscribed' = subscribed /\ listener[l].pc = "idle"
             /\ \A k \in Listener : k # l => listener'[k] = listener[k]
             /\ relay'.observers = relay.observers /\ relay'.log = relay.log
  <2>1. relay' = AddClient(relay, s, l, l) /\ l \in ClientId /\ l \in Conn
    BY <1>3, Disjoint DEF OpenListener
  <2>2. relay'.observers = relay.observers /\ relay'.log = relay.log
    BY <1>0, <2>1, AddClientFacts
  <2> QED
    BY <1>3, <2>2 DEF OpenListener, ReadInv
<1>4. ASSUME NEW l \in Listener, CloseListener(l)
      PROVE  /\ subscribed' = subscribed /\ Closes(l, listener[l].server)
             /\ listener[l].server \in Server
             /\ \A k \in Listener : k # l => listener'[k] = listener[k]
  <2>1. /\ listener[l].pc = "open" /\ subscribed' = subscribed
        /\ relay' = RemoveClient(relay, listener[l].server, l)
        /\ listener' = [listener EXCEPT ![l].pc = "closing"]
    BY <1>4 DEF CloseListener
  <2>2. PICK s : s = listener[l].server
    OBVIOUS
  <2>3. /\ s \in Server /\ relay.line[l] # "gone" /\ relay.clients[s][l] = l
    BY <2>1, <2>2 DEF ClientInv, ClientRules, Homed, Listens
  <2>4. PICK x \in RelayRow :
          /\ x = Ended(relay, s, l) /\ relay'.log = x.log
          /\ LetsGo(x, relay', s, l)
    BY <1>0, <2>1, <2>2, <2>3, RemoveListenerFacts
  <2>5. /\ x.observers = relay.observers
        /\ Wrote(relay, x, {relay.clients[s][l]}, Note("end", l))
    <3>1. l \in ClientId /\ x = Ended(relay, s, l)
      BY <2>4, Disjoint
    <3> QED
      BY <1>0, <2>3, <3>1, EndedFacts
  <2>6. /\ ~ Listens(l)' /\ ListensAt(l, s)
        /\ \A k \in Listener : k # l => listener'[k] = listener[k]
    BY <2>1, <2>2 DEF ReadInv, Listens, ListensAt
  <2>7. /\ \A k \in Conn : k # l => relay'.log[k] = relay.log[k]
        /\ relay'.log[l] = Recorded(relay.log[l], Note("end", l))
    BY <2>3, <2>4, <2>5, Disjoint DEF Wrote
  <2> QED
    <3>1. LetsGo(relay, relay', s, l)
      BY <2>4, <2>5 DEF LetsGo
    <3>2. Closes(l, s)
      BY <2>6, <2>7, <3>1 DEF Closes
    <3> QED
      BY <2>1, <2>2, <2>3, <2>6, <3>2
<1>5. CASE \/ \E r \in Request : HangUp(r)
           \/ \E s \in Server, c \in Chat : DropDead(s, c)
  BY <1>0, <1>1, <1>2, <1>5 DEF Arrivals, Listens, SameBooks
<1>6. CASE \E l \in Listener, s \in Server : OpenListener(l, s)
  BY <1>0, <1>3, <1>6 DEF Arrivals, Listens, SameBooks
<1>7. CASE \E l \in Listener : CloseListener(l)
  <2>1. PICK l \in Listener : CloseListener(l)
    BY <1>7
  <2>2. Arrivals
    BY <1>4, <2>1 DEF Arrivals, Closes, Listens
  <2> QED
    BY <1>0, <1>4, <2>1, <2>2
<1> QED
  BY <1>5, <1>6, <1>7 DEF ComeOrGo

LEMMA ComeOrGoTold ==
  ASSUME ReadInv, AskedInv, ClientInv, ToldInv, ComeOrGo, NEW r \in Request, Asked(r),
         AloneInChat(r)
  PROVE  Informed(relay, r)'
<1>1. UNCHANGED req /\ Arrivals /\ (SameBooks \/ \E l \in Listener, s \in Server : Closes(l, s))
  BY ComeOrGoFacts
<1>2. /\ Informed(relay, r) /\ ServerOf(r) \in Server /\ ChatOf(r) \in Chat
      /\ \A l \in Listener : listener[l].pc = "idle" => relay.log[l] = {}
  BY DEF ToldInv, AskedInv, ClientInv, ClientRules, Homed
<1>3. /\ At(r, "done")' <=> At(r, "done")
      /\ ServerOf(r)' = ServerOf(r) /\ ChatOf(r)' = ChatOf(r)
  BY <1>1 DEF At, ServerOf, ChatOf
<1>4. ASSUME NEW l \in Listener, ListensAt(l, ServerOf(r))', Heard(relay', l, ChatOf(r))
      PROVE  /\ ListensAt(l, ServerOf(r)) /\ relay'.log[l] = relay.log[l]
             /\ l \in relay.observers[ServerOf(r)][ChatOf(r)] =>
                  l \in relay'.observers[ServerOf(r)][ChatOf(r)]
  <2>1. Listens(l)' /\ listener'[l].server = ServerOf(r)
    BY <1>3, <1>4 DEF ListensAt, Listens
  <2>2. /\ relay'.log[l] = relay.log[l]
        /\ l \in relay.observers[ServerOf(r)][ChatOf(r)] =>
             l \in relay'.observers[ServerOf(r)][ChatOf(r)]
    <3>1. CASE SameBooks
      BY <3>1 DEF SameBooks
    <3>2. ASSUME NEW k \in Listener, NEW s \in Server, Closes(k, s)
          PROVE  /\ relay'.log[l] = relay.log[l]
                 /\ l \in relay.observers[ServerOf(r)][ChatOf(r)] =>
                      l \in relay'.observers[ServerOf(r)][ChatOf(r)]
      <4>1. l # k
        BY <2>1, <3>2 DEF Closes
      <4> QED
        BY <1>2, <3>2, <4>1, Disjoint DEF Closes, LetsGo
    <3> QED
      BY <1>1, <3>1, <3>2
  <2>3. listener[l].pc # "idle"
    BY <1>2, <1>4, <2>2 DEF Heard
  <2> QED
    BY <1>1, <2>1, <2>2, <2>3 DEF Arrivals, ListensAt
<1>5. At(r, "done") => relay'.observers[ServerOf(r)][ChatOf(r)] = {}
  <2>1. CASE SameBooks
    BY <1>2, <2>1 DEF SameBooks, Informed
  <2>2. ASSUME NEW l \in Listener, NEW s \in Server, Closes(l, s)
        PROVE  At(r, "done") => relay'.observers[ServerOf(r)][ChatOf(r)] = {}
    BY <1>2, <2>2 DEF Closes, LetsGo, Informed
  <2> QED
    BY <1>1, <2>1, <2>2
<1>6. ASSUME NEW l \in Listener, ListensAt(l, ServerOf(r))', Heard(relay', l, ChatOf(r))
      PROVE  IF At(r, "done") THEN Note("executionEnd", ChatOf(r)) \in relay'.log[l]
             ELSE l \in relay'.observers[ServerOf(r)][ChatOf(r)]
  <2>1. Heard(relay, l, ChatOf(r))
    BY <1>4, <1>6 DEF Heard
  <2> QED
    BY <1>2, <1>4, <1>6, <2>1 DEF Informed
<1> QED
  BY <1>3, <1>5, <1>6 DEF Informed, Heard, Note, ListensAt, Listens

LEMMA SameMentions ==
  ASSUME NEW y, Mentions(y), NEW z, \A l \in Listener : z.log[l] = y.log[l]
  PROVE  Mentions(z)
BY DEF Mentions

LEMMA AddMentions ==
  ASSUME AskedInv, NEW y, Mentions(y), NEW z, NEW q \in Request, Asked(q), NEW e, e.chat = ChatOf(q),
         \A l \in Listener : z.log[l] = y.log[l] \/ z.log[l] = Recorded(y.log[l], e)
  PROVE  Mentions(z)
BY DEF Mentions, Recorded

LEMMA JoinSilent ==
  ASSUME ClientInv, NEW q \in Request, JoinStep(q)
  PROVE  relay'.log = relay.log
<1>1. PICK s \in Server, c \in Chat : s = ServerOf(q)' /\ c = ChatOf(q)'
  BY DEF JoinStep
<1>2. relay' = AddClient(relay, s, c, q) /\ relay \in RelayRow /\ q \in Conn /\ c \in ClientId
  BY <1>1, Disjoint DEF JoinStep, ServerOf, ChatOf, ClientInv
<1> QED
  BY <1>2, AddClientFacts

LEMMA ObserveSilent ==
  ASSUME ClientInv, NEW q, NEW s, NEW c, NEW l, ObserveStep(q, s, c, l)
  PROVE  relay'.log = relay.log
<1>1. /\ c \in Chat /\ s \in Server /\ l \in Listener /\ relay \in RelayRow
      /\ relay' = AddObserver(relay, s, c, l)
  BY DEF ObserveStep, ClientInv
<1> QED
  BY <1>1, AddObserverFacts

LEMMA EndMentions ==
  ASSUME AskedInv, ClientInv, Mentions(relay), NEW q \in Request, NEW y, EndStep(q, y)
  PROVE  Mentions(relay')
<1>0. /\ Asked(q) /\ ServerOf(q) \in Server /\ ChatOf(q) \in Chat /\ relay \in RelayRow
  BY DEF EndStep, Asked, Busy, At, ClientInv
<1>1. PICK s \in Server, c \in Chat : s = ServerOf(q) /\ c = ChatOf(q)
  BY <1>0
<1>2. Mentions(y)
  <2>1. ASSUME NEW what \in {"error", "metadata"}, y = SafeWrite(relay, s, c, Note(what, c))
        PROVE  Mentions(y)
    <3>1. PICK e \in Entry : e = Note(what, c) /\ e.chat = c
      BY NoteFacts, Disjoint
    <3>2. Wrote(relay, y, Lines(relay, s, {c} \cup relay.observers[s][c]), e)
      BY <1>0, <2>1, <3>1, SafeWriteFacts
    <3>3. \A l \in Listener : y.log[l] = relay.log[l] \/ y.log[l] = Recorded(relay.log[l], e)
      BY <3>2, Disjoint DEF Wrote
    <3> QED
      BY <1>0, <1>1, <3>1, <3>3, AddMentions
  <2> QED
    BY <1>1, <2>1 DEF EndStep
<1>3. CASE relay' = y
  BY <1>2, <1>3
<1>4. CASE relay' = RemoveClient(y, s, c)
  <2>1. y \in RelayRow /\ ClientRules(y)
    BY EndRules
  <2>2. PICK e \in Entry : e = Note("executionEnd", c) /\ e.chat = c
    BY NoteFacts, Disjoint
  <2>3. \A l \in Listener : relay'.log[l] = y.log[l] \/ relay'.log[l] = Recorded(y.log[l], e)
    BY <1>4, <2>1, <2>2, EndListeners
  <2> QED
    BY <1>0, <1>1, <1>2, <2>2, <2>3, AddMentions
<1> QED
  BY <1>1, <1>3, <1>4 DEF EndStep

LEMMA StreamMentions ==
  ASSUME AbortInv, AskedInv, ClientInv, Mentions(relay), NEW q \in Request, StreamStep(q)
  PROVE  Mentions(relay')
<1>1. PICK e : e = Event(ChatOf(q), q, job[q].try, job[q].sent + 1)
  OBVIOUS
<1>2. job[q].pc = "active" /\ relay' = SafeWrite(relay, ServerOf(q), ChatOf(q), e)
  BY <1>1 DEF StreamStep, Emit
<1>3. /\ Busy(q) /\ ServerOf(q) \in Server /\ ChatOf(q) \in Chat /\ job[q] \in JobRow
      /\ relay \in RelayRow /\ Asked(q)
  BY <1>2 DEF AbortInv, ShapeInv, JobsAreAwaited, At, Busy, ClientInv, Asked
<1>4. e \in Entry /\ e.chat = ChatOf(q)
  BY <1>1, <1>3 DEF Event, Entry, EventEntry, JobRow
<1>5. PICK s \in Server, c \in Chat : s = ServerOf(q) /\ c = ChatOf(q)
  BY <1>3
<1>6. Wrote(relay, relay', Lines(relay, s, {c} \cup relay.observers[s][c]), e)
  BY <1>2, <1>3, <1>4, <1>5, SafeWriteFacts
<1>7. \A l \in Listener : relay'.log[l] = relay.log[l] \/ relay'.log[l] = Recorded(relay.log[l], e)
  BY <1>6, Disjoint DEF Wrote
<1> QED
  BY <1>3, <1>4, <1>7, AddMentions

LEMMA DeliverMentions ==
  ASSUME AskedInv, OutboxInv, ClientInv, Mentions(relay), NEW w \in Worker, Deliver(w)
  PROVE  Mentions(relay')
<1>1. PICK e : e = Head(outbox[w])
  OBVIOUS
<1>2. relay' = Published(e.chat, e) /\ outbox[w] # <<>> /\ relay \in RelayRow
  BY <1>1 DEF Deliver, ClientInv
<1>3. /\ e \in Entry /\ e.chat \in Chat /\ e.job \in Request /\ e.chat = ChatOf(e.job)
  BY <1>1, <1>2, HeadFacts DEF Travels
<1>4. Asked(e.job)
  BY <1>3, Disjoint DEF AskedInv, Asked
<1>5. Wrote(relay, relay', Readers(e.chat), e)
  BY <1>2, <1>3, PublishedFacts
<1>6. \A l \in Listener : relay'.log[l] = relay.log[l] \/ relay'.log[l] = Recorded(relay.log[l], e)
  BY <1>5, Disjoint DEF Wrote
<1> QED
  BY <1>3, <1>4, <1>6, AddMentions

LEMMA ComeOrGoMentions ==
  ASSUME ReadInv, ClientInv, Mentions(relay), ComeOrGo
  PROVE  Mentions(relay')
<1>1. CASE SameBooks
  BY <1>1, SameMentions DEF SameBooks
<1>2. ASSUME NEW l \in Listener, NEW s \in Server, Closes(l, s) PROVE Mentions(relay')
  <2>1. PICK e : e = Note("end", l)
    OBVIOUS
  <2>2. e.chat \notin Chat
    BY <2>1, Disjoint DEF Note
  <2>3. \A k \in Listener : relay'.log[k] = relay.log[k] \/ relay'.log[k] = Recorded(relay.log[k], e)
    BY <1>2, <2>1, Disjoint DEF Closes
  <2> QED
    BY <2>2, <2>3 DEF Mentions, Recorded
<1> QED
  BY <1>1, <1>2, ComeOrGoFacts

(* A request that was asked for and is alone in its chat.                  *)
LEMMA OldInformed ==
  ASSUME RelayInv, ToldInv, QuietStep \/ ComeOrGo
           \/ (\E q \in Request : \/ JoinStep(q) \/ StreamStep(q) \/ \E y : EndStep(q, y)
                                  \/ \E s, c, l : ObserveStep(q, s, c, l))
           \/ \E w \in Worker : Deliver(w),
         NEW r \in Request, Asked(r), AloneInChat(r), Goes(r)
  PROVE  Informed(relay, r)'
<1>1. AbortInv /\ ReadInv /\ AskedInv /\ OutboxInv /\ ClientInv
  BY DEF RelayInv
<1>2. CASE QuietStep
  BY <1>1, <1>2, QuietTold
<1>3. CASE ComeOrGo
  BY <1>1, <1>3, ComeOrGoTold
<1>4. ASSUME NEW q \in Request, JoinStep(q) PROVE Informed(relay, r)'
  BY <1>1, <1>4, JoinTold
<1>5. ASSUME NEW q \in Request, StreamStep(q) PROVE Informed(relay, r)'
  BY <1>1, <1>5, StreamTold
<1>6. ASSUME NEW q \in Request, NEW y, EndStep(q, y) PROVE Informed(relay, r)'
  BY <1>1, <1>6, EndTold
<1>7. ASSUME NEW q \in Request, NEW s, NEW c, NEW l, ObserveStep(q, s, c, l)
      PROVE  Informed(relay, r)'
  BY <1>1, <1>7, ObserveTold
<1>8. ASSUME NEW w \in Worker, Deliver(w) PROVE Informed(relay, r)'
  BY <1>1, <1>8, DeliverTold
<1> QED
  BY <1>2, <1>3, <1>4, <1>5, <1>6, <1>7, <1>8

LEMMA ToldInvStays ==
  ASSUME Overlap = FALSE, RelayInv, ToldInv, [Next]_vars
  PROVE  ToldInv'
<1>1. AbortInv /\ ReadInv /\ AskedInv /\ OutboxInv /\ BindInv /\ ClientInv /\ Mentions(relay)
  BY DEF RelayInv, ToldInv
<1>2. \A q \in Request : Goes(q) \/ Starts(q)
  BY <1>1, RequestsGo
<1>3. \/ QuietStep \/ ComeOrGo
      \/ \E r \in Request : \/ JoinStep(r) \/ StreamStep(r) \/ \E y : EndStep(r, y)
                            \/ \E s, c, l : ObserveStep(r, s, c, l)
      \/ \E w \in Worker : Deliver(w)
  BY <1>1, RelaySteps
<1>4. Mentions(relay')
  <2>1. CASE QuietStep
    BY <1>1, <2>1, SameMentions DEF QuietStep
  <2>2. ASSUME NEW q \in Request, JoinStep(q) PROVE Mentions(relay')
    BY <1>1, <2>2, JoinSilent, SameMentions
  <2>3. ASSUME NEW q \in Request, NEW s, NEW c, NEW l, ObserveStep(q, s, c, l)
        PROVE  Mentions(relay')
    BY <1>1, <2>3, ObserveSilent, SameMentions
  <2>4. ASSUME NEW q \in Request, StreamStep(q) \/ \E y : EndStep(q, y) PROVE Mentions(relay')
    BY <1>1, <2>4, StreamMentions, EndMentions
  <2>5. CASE ComeOrGo \/ \E w \in Worker : Deliver(w)
    BY <1>1, <2>5, ComeOrGoMentions, DeliverMentions
  <2> QED
    BY <1>3, <2>1, <2>2, <2>3, <2>4, <2>5
<1>5. Mentions(relay)'
  BY <1>2, <1>4, MentionsCarry
<1>6. ASSUME NEW r \in Request, Asked(r)', AloneInChat(r)' PROVE Informed(relay, r)'
  <2>1. CASE Starts(r)
    <3>1. ~ Goes(r)
      BY <1>6, <2>1 DEF Starts, Goes, Asked
    <3>2. \A l \in Listener : relay'.log[l] = relay.log[l]
      <4>1. CASE QuietStep
        BY <4>1 DEF QuietStep
      <4>2. ASSUME NEW q \in Request, JoinStep(q) PROVE relay'.log = relay.log
        BY <1>1, <4>2, JoinSilent
      <4>3. CASE UNCHANGED req
        BY <3>1, <4>3, RequestStays
      <4>4. ASSUME NEW q \in Request, NEW y, EndStep(q, y) PROVE FALSE
        BY <3>1, <4>4, RequestStays DEF EndStep
      <4>5. ASSUME NEW q \in Request, NEW s, NEW c, NEW l, ObserveStep(q, s, c, l) PROVE FALSE
        BY <3>1, <4>5 DEF ObserveStep
      <4>6. CASE ComeOrGo \/ \E w \in Worker : Deliver(w)
        BY <4>3, <4>6 DEF ComeOrGo, Deliver
      <4>7. CASE \E q \in Request : StreamStep(q)
        BY <4>3, <4>7 DEF StreamStep, Emit
      <4> QED
        BY <1>3, <4>1, <4>2, <4>4, <4>5, <4>6, <4>7
    <3> QED
      BY <1>1, <1>2, <1>6, <2>1, <3>2, NewInformed
  <2>2. CASE Goes(r)
    <3>1. Asked(r) /\ AloneInChat(r)
      BY <1>1, <1>2, <1>6, <2>2, AloneStays DEF Goes
    <3> QED
      BY <1>3, <2>2, <3>1, OldInformed
  <2> QED
    BY <1>2, <2>1, <2>2
<1> QED
  BY <1>5, <1>6 DEF ToldInv

LEMMA ToldInvStarts == Init => ToldInv
<1> SUFFICES ASSUME Init PROVE ToldInv
  OBVIOUS
<1>1. PICK log : log = [k \in Conn |-> {}]
  OBVIOUS
<1>2. relay.log = log
  BY <1>1 DEF Init, RelayInit
<1>3. \A l \in Listener : relay.log[l] = {}
  BY <1>1, <1>2, Disjoint
<1>4. \A r \in Request : ~ Asked(r)
  BY DEF Init, NewRequest, Asked, At
<1> QED
  BY <1>3, <1>4 DEF ToldInv, Mentions

(* A webhook listener on the server of a request that is alone in its chat *)
(* is told the end of the execution (removeClient, 117-132) when it was    *)
(* shown a part of it, whichever route the events took.  A listener on     *)
(* another server is not spoken of.                                        *)
THEOREM ListenersAreTold ==
  ASSUME Overlap = FALSE
  PROVE  Spec => []ListenersTold
<1> DEFINE Inv == RelayInv /\ ToldInv
<1>1. Init => Inv
  BY RelayInvStarts, ToldInvStarts
<1>2. Inv /\ [Next]_vars => Inv'
  BY RelayInvStays, ToldInvStays
<1>3. Inv => ListenersTold
  <2> SUFFICES ASSUME Inv, NEW r \in Request, NEW l \in Listener,
                      At(r, "done"), listener[l].pc = "open", listener[l].server = ServerOf(r),
                      AloneInChat(r), NEW e \in relay.log[l], e.chat = ChatOf(r)
               PROVE  Note("executionEnd", ChatOf(r)) \in relay.log[l]
    BY DEF ListenersTold
  <2>1. Asked(r) /\ ListensAt(l, ServerOf(r)) /\ Heard(relay, l, ChatOf(r))
    BY DEF Asked, At, ListensAt, Listens, Heard
  <2> QED
    BY <2>1 DEF ToldInv, Informed
<1> QED
  BY <1>1, <1>2, <1>3, PTL DEF Spec

-----------------------------------------------------------------------------
(* The order of events: how the job of r goes on, with those that its      *)
(* worker has published and Redis has not delivered.                       *)

Under(r, n) ==
  \E w \in Worker : \E i \in 1 .. Len(outbox[w]) : outbox[w][i].job = r /\ outbox[w][i].n = n

(* They are untouched; ...                                                 *)
Rests(r) ==
  /\ job'[r].try = job[r].try /\ job'[r].sent = job[r].sent
  /\ job'[r].pc = "active" => job[r].pc = "active"
  /\ \A n : Under(r, n)' <=> Under(r, n)

(* ... there are none; ...                                                 *)
Resets(r) ==
  /\ \/ job'[r].try = job[r].try + 1
     \/ job'[r].try = job[r].try /\ job'[r].sent = job[r].sent
  /\ job'[r].pc = "active" => job'[r].sent = 0
  /\ \A n : ~ Under(r, n)'

(* ... the worker publishes the next; ...                                  *)
Publishes(r) ==
  /\ job[r].pc = "active"
  /\ job'[r].try = job[r].try /\ job'[r].sent = job[r].sent + 1
  /\ \A n : Under(r, n)' <=> Under(r, n) \/ n = job[r].sent + 1

(* ... or the first of them, e, arrives.                                   *)
Arrives(r, e) ==
  /\ job'[r] = job[r]
  /\ Under(r, e.n)
  /\ \A n : Under(r, n)' <=> Under(r, n) /\ n # e.n
  /\ \A n : Under(r, n)' => e.n < n

LEMMA UnderFacts ==
  ASSUME OutboxInv, NEW r \in Request, NEW n, Under(r, n)
  PROVE  n \in Nat /\ n > 0 /\ n =< job[r].sent /\ mode = "queue"
<1>0. PICK w \in Worker : \E i \in 1 .. Len(outbox[w]) : outbox[w][i].job = r /\ outbox[w][i].n = n
  BY DEF Under
<1>1. PICK i \in 1 .. Len(outbox[w]) : outbox[w][i].job = r /\ outbox[w][i].n = n
  BY <1>0
<1>2. Travels(w, outbox[w][i])
  BY <1>1 DEF OutboxInv
<1>3. outbox[w][i].n \in Nat /\ outbox[w][i].n > 0 /\ outbox[w][i].n =< job[r].sent
  BY <1>1, <1>2, OutboxEntry DEF Travels
<1>4. Len(outbox[w]) # 0
  BY <1>1
<1>5. mode = "queue"
  BY <1>4, EmptySeq DEF OutboxInv
<1> QED
  BY <1>1, <1>3, <1>5

LEMMA UnderSame ==
  ASSUME outbox' = outbox
  PROVE  \A r, n : Under(r, n)' <=> Under(r, n)
BY DEF Under

(* A job that is not under way, or just starts, has none.                  *)
LEMMA UnsentResets ==
  ASSUME OutboxInv, outbox' = outbox, NEW r \in Request, job[r].sent = 0,
         job'[r].try = job[r].try, job'[r].sent = 0
  PROVE  Resets(r)
<1>1. \A n : ~ Under(r, n)
  BY UnderFacts
<1> QED
  BY <1>1, UnderSame DEF Resets

LEMMA BuildEvents ==
  ASSUME AbortInv, OutboxInv, NEW q \in Request, Build(q), NEW r \in Request
  PROVE  Rests(r) \/ Resets(r)
<1>1. outbox' = outbox /\ job[q] \in JobRow /\ At(q, "build") /\ job \in [Request -> JobRow]
  BY DEF Build, AbortInv, ShapeInv
<1>2. CASE job'[r] = job[r]
  BY <1>1, <1>2, UnderSame DEF Rests
<1>3. CASE job'[r] # job[r]
  <2>1. \/ job' = [job EXCEPT ![q].pc = "queued"]
        \/ job' = [job EXCEPT ![q].pc = "active", ![q].at = ServerOf(q)]
    BY <1>3 DEF Build
  <2>2. r = q /\ job'[r].sent = job[r].sent /\ job'[r].try = job[r].try
    BY <1>1, <1>3, <2>1 DEF JobRow
  <2>3. job[r].sent = 0
    BY <1>1, <2>2 DEF OutboxInv, Jobless, At
  <2> QED
    BY <1>1, <2>2, <2>3, UnsentResets
<1> QED
  BY <1>2, <1>3

LEMMA PickEvents ==
  ASSUME AbortInv, OutboxInv, NEW q \in Request, NEW w \in Worker, Pick(w, q), NEW r \in Request
  PROVE  Rests(r) \/ Resets(r)
<1>1. /\ outbox' = outbox /\ job[q].pc = "queued" /\ job[q] \in JobRow
      /\ job \in [Request -> JobRow]
      /\ job' = [job EXCEPT ![q].pc = "active", ![q].at = w]
  BY DEF Pick, AbortInv, ShapeInv
<1>2. CASE r # q
  BY <1>1, <1>2, UnderSame DEF Rests
<1>3. CASE r = q
  <2>1. job'[r].sent = job[r].sent /\ job'[r].try = job[r].try /\ job[r].sent = 0
    BY <1>1, <1>3 DEF JobRow, OutboxInv
  <2> QED
    BY <1>1, <2>1, UnsentResets
<1> QED
  BY <1>2, <1>3

LEMMA FinishEvents ==
  ASSUME AbortInv, NEW q \in Request, Finish(q), NEW r \in Request
  PROVE  Rests(r)
<1>1. PICK outcome \in {"done", "failed"} : job' = [job EXCEPT ![q].pc = outcome]
  BY DEF Finish
<1>2. outbox' = outbox /\ job \in [Request -> JobRow] /\ job[q].pc = "active"
  BY DEF Finish, AbortInv, ShapeInv
<1>3. /\ job'[r].try = job[r].try /\ job'[r].sent = job[r].sent
      /\ job'[r].pc = "active" => job[r].pc = "active"
  BY <1>1, <1>2 DEF JobRow
<1> QED
  BY <1>2, <1>3, UnderSame DEF Rests

LEMMA AbortedEvents ==
  ASSUME AbortInv, NEW p \in Server \cup Worker, NEW c \in Chat,
         job' = job \/ job' = Aborted(p, c), outbox' = outbox, NEW r \in Request
  PROVE  Rests(r)
<1>1. job \in [Request -> JobRow] /\ pool[p][c] \in Request \cup {NoJob}
  BY DEF AbortInv, ShapeInv
<1>2. PICK q : q = pool[p][c]
  OBVIOUS
<1>3. job' = job \/ (q \in Request /\ job' = [job EXCEPT ![q].aborted = TRUE])
  BY <1>1, <1>2 DEF Aborted
<1>4. /\ job'[r].try = job[r].try /\ job'[r].sent = job[r].sent
      /\ job'[r].pc = "active" => job[r].pc = "active"
  BY <1>1, <1>3 DEF JobRow
<1> QED
  BY <1>4, UnderSame DEF Rests

LEMMA EmitEvents ==
  ASSUME AbortInv, AskedInv, OutboxInv, NEW q \in Request, Emit(q), NEW r \in Request
  PROVE  Rests(r) \/ Publishes(r) \/ StreamStep(r)
<1>1. /\ job[q].pc = "active" /\ job[q] \in JobRow /\ job \in [Request -> JobRow]
      /\ job' = [job EXCEPT ![q].sent = @ + 1]
      /\ job[q].at \in Server \cup Worker
  BY DEF Emit, AbortInv, ShapeInv, JobsArePlaced
<1>2. /\ \A p \in Request : p # q => job'[p] = job[p]
      /\ job'[q].sent = job[q].sent + 1 /\ job'[q].pc = "active" /\ job'[q].try = job[q].try
  BY <1>1 DEF JobRow
<1>3. CASE mode # "queue"
  <2>1. outbox' = outbox /\ StreamStep(q)
    BY <1>3 DEF Emit, StreamStep
  <2> QED
    BY <1>2, <2>1, UnderSame DEF Rests
<1>4. CASE mode = "queue"
  <2>1. PICK w : w = job[q].at
    OBVIOUS
  <2>2. PICK e : e = Event(ChatOf(q), q, job[q].try, job[q].sent + 1)
    OBVIOUS
  <2>3. w \in Worker /\ e.job = q /\ e.n = job[q].sent + 1
    BY <1>1, <1>4, <2>1, <2>2 DEF OutboxInv, Event
  <2>4. e \in EventEntry
    <3>1. ChatOf(q) \in Chat /\ job[q].try \in Nat /\ job[q].sent + 1 \in Nat \ {0}
      BY <1>1 DEF AskedInv, Asked, At, JobRow, AbortInv, JobsAreAwaited
    <3> QED
      BY <2>2, <3>1 DEF Event, EventEntry
  <2>5. outbox' = [outbox EXCEPT ![w] = Append(outbox[w], e)]
    BY <1>4, <2>1, <2>2 DEF Emit
  <2>6. outbox[w] \in Seq(EventEntry) /\ outbox \in [Worker -> Seq(EventEntry)]
    BY <2>3 DEF OutboxInv
  <2>7. PICK new : new = Append(outbox[w], e)
    OBVIOUS
  <2>8. /\ Len(new) = Len(outbox[w]) + 1 /\ Len(outbox[w]) \in Nat
        /\ \A i \in 1 .. Len(outbox[w]) : new[i] = outbox[w][i]
        /\ new[Len(outbox[w]) + 1] = e
    BY <2>4, <2>6, <2>7, AppendProperties, LenProperties
  <2>9. outbox'[w] = new /\ \A v \in Worker : v # w => outbox'[v] = outbox[v]
    BY <2>3, <2>5, <2>6, <2>7
  <2>10. ASSUME NEW n, Under(r, n)' PROVE Under(r, n) \/ (r = q /\ n = job[q].sent + 1)
    <3>1. PICK v \in Worker : \E i \in 1 .. Len(outbox'[v]) :
                                outbox'[v][i].job = r /\ outbox'[v][i].n = n
      BY <2>10 DEF Under
    <3>2. PICK i \in 1 .. Len(outbox'[v]) : outbox'[v][i].job = r /\ outbox'[v][i].n = n
      BY <3>1
    <3>3. CASE v = w /\ i = Len(outbox[w]) + 1
      BY <2>3, <2>8, <2>9, <3>2, <3>3
    <3>4. CASE ~ (v = w /\ i = Len(outbox[w]) + 1)
      <4>1. i \in 1 .. Len(outbox[v]) /\ outbox'[v][i] = outbox[v][i]
        BY <2>8, <2>9, <3>2, <3>4
      <4> QED
        BY <3>2, <4>1 DEF Under
    <3> QED
      BY <3>3, <3>4
  <2>11. ASSUME NEW n, Under(r, n) PROVE Under(r, n)'
    <3>1. PICK v \in Worker : \E i \in 1 .. Len(outbox[v]) :
                                outbox[v][i].job = r /\ outbox[v][i].n = n
      BY <2>11 DEF Under
    <3>2. PICK i \in 1 .. Len(outbox[v]) : outbox[v][i].job = r /\ outbox[v][i].n = n
      BY <3>1
    <3>3. i \in 1 .. Len(outbox'[v]) /\ outbox'[v][i] = outbox[v][i]
      BY <2>8, <2>9, <3>2
    <3> QED
      BY <3>2, <3>3 DEF Under
  <2>12. Under(q, e.n)'
    <3>1. Len(outbox[w]) + 1 \in 1 .. Len(outbox'[w])
      BY <2>8, <2>9
    <3>2. outbox'[w][Len(outbox[w]) + 1] = e
      BY <2>8, <2>9
    <3>3. /\ outbox'[w][Len(outbox[w]) + 1].job = q
          /\ outbox'[w][Len(outbox[w]) + 1].n = e.n
      BY <2>3, <3>2
    <3> HIDE <2>1, <2>2, <2>5, <2>7, <2>8
    <3> QED
      BY <2>3, <3>1, <3>3 DEF Under
  <2>13. CASE r = q
    <3>1. \A n : Under(r, n)' <=> Under(r, n) \/ n = job[r].sent + 1
      <4>1. \A n : Under(q, n)' <=> Under(q, n) \/ n = e.n
        BY <2>3, <2>10, <2>11, <2>12, <2>13
      <4> QED
        BY <2>3, <2>13, <4>1
    <3> QED
      BY <1>1, <1>2, <2>13, <3>1 DEF Publishes
  <2>14. CASE r # q
    BY <1>2, <2>10, <2>11, <2>14 DEF Rests
  <2> QED
    BY <2>13, <2>14
<1> QED
  BY <1>3, <1>4

LEMMA CrashEvents ==
  ASSUME AbortInv, OutboxInv, NEW w \in Worker, Crash(w), NEW r \in Request
  PROVE  Rests(r) \/ Resets(r)
<1>1. outbox' = [outbox EXCEPT ![w] = <<>>] /\ job[r] \in JobRow
  BY DEF Crash, AbortInv, ShapeInv
<1>2. /\ outbox'[w] = <<>> /\ Len(outbox'[w]) = 0
      /\ \A v \in Worker : v # w => outbox'[v] = outbox[v]
  BY <1>1, EmptySeq DEF OutboxInv
<1>3. ASSUME NEW n, Under(r, n)' PROVE Under(r, n) /\ job[r].at # w
  <2>1. PICK v \in Worker : \E i \in 1 .. Len(outbox'[v]) :
                              outbox'[v][i].job = r /\ outbox'[v][i].n = n
    BY <1>3 DEF Under
  <2>2. PICK i \in 1 .. Len(outbox'[v]) : outbox'[v][i].job = r /\ outbox'[v][i].n = n
    BY <2>1
  <2>3. v # w /\ i \in 1 .. Len(outbox[v]) /\ outbox[v][i].job = r /\ outbox[v][i].n = n
    BY <1>2, <2>2
  <2>4. Travels(v, outbox[v][i])
    BY <2>3 DEF OutboxInv
  <2> QED
    BY <2>3, <2>4 DEF Under, Travels
<1>4. ASSUME NEW n, Under(r, n), job[r].at # w PROVE Under(r, n)'
  <2>1. PICK v \in Worker : \E i \in 1 .. Len(outbox[v]) :
                              outbox[v][i].job = r /\ outbox[v][i].n = n
    BY <1>4 DEF Under
  <2>2. PICK i \in 1 .. Len(outbox[v]) : outbox[v][i].job = r /\ outbox[v][i].n = n
    BY <2>1
  <2>3. Travels(v, outbox[v][i])
    BY <2>2 DEF OutboxInv
  <2>4. v # w
    BY <1>4, <2>2, <2>3 DEF Travels
  <2> QED
    BY <1>2, <2>2, <2>4 DEF Under
<1>5. CASE job[r].at # w
  <2>1. job'[r] = job[r]
    BY <1>5, CrashFacts
  <2> QED
    BY <1>3, <1>4, <1>5, <2>1 DEF Rests
<1>6. CASE job[r].at = w
  <2>1. \A n : ~ Under(r, n)'
    BY <1>3, <1>6
  <2>2. \/ job'[r] = job[r] /\ job[r].pc # "active"
        \/ job'[r].pc = "failed" /\ job'[r].try = job[r].try /\ job'[r].sent = job[r].sent
        \/ job'[r].pc = "queued" /\ job'[r].try = job[r].try + 1
    BY <1>6, CrashFacts
  <2>3. job[r].try \in Nat
    BY <1>1 DEF JobRow
  <2> QED
    BY <2>1, <2>2, <2>3 DEF Resets
<1> QED
  BY <1>5, <1>6

LEMMA DeliverEvents ==
  ASSUME OutboxInv, NEW w \in Worker, Deliver(w), NEW e, e = Head(outbox[w]), NEW r \in Request
  PROVE  IF e.job = r THEN Arrives(r, e) ELSE Rests(r)
<1>1. job' = job /\ outbox[w] # <<>> /\ outbox' = [outbox EXCEPT ![w] = Tail(@)]
  BY DEF Deliver
<1>2. outbox[w] \in Seq(EventEntry) /\ outbox \in [Worker -> Seq(EventEntry)]
  BY DEF OutboxInv
<1>3. PICK rest : rest = Tail(outbox[w])
  OBVIOUS
<1>4. /\ Len(outbox[w]) \in Nat /\ Len(rest) = Len(outbox[w]) - 1
      /\ \A i \in 1 .. Len(rest) : i + 1 \in 1 .. Len(outbox[w]) /\ rest[i] = outbox[w][i + 1]
      /\ 1 \in 1 .. Len(outbox[w]) /\ outbox[w][1] = e
  BY <1>1, <1>2, <1>3, TailFacts
<1>5. outbox'[w] = rest /\ \A v \in Worker : v # w => outbox'[v] = outbox[v]
  BY <1>1, <1>2, <1>3
<1>6. ASSUME NEW n, Under(r, n)'
      PROVE  Under(r, n) /\ (e.job = r => e.n < n)
  <2>1. PICK v \in Worker : \E i \in 1 .. Len(outbox'[v]) :
                              outbox'[v][i].job = r /\ outbox'[v][i].n = n
    BY <1>6 DEF Under
  <2>2. PICK i \in 1 .. Len(outbox'[v]) : outbox'[v][i].job = r /\ outbox'[v][i].n = n
    BY <2>1
  <2>3. CASE v = w
    <3>1. /\ i \in 1 .. Len(rest) /\ i + 1 \in 1 .. Len(outbox[w]) /\ 1 < i + 1
          /\ outbox[w][i + 1] = rest[i]
      BY <1>4, <1>5, <2>2, <2>3
    <3>2. outbox[w][i + 1].job = r /\ outbox[w][i + 1].n = n
      BY <1>5, <2>2, <2>3, <3>1
    <3>3. Under(r, n)
      BY <3>1, <3>2 DEF Under
    <3>4. \A j, k \in 1 .. Len(outbox[w]) :
            j < k /\ outbox[w][j].job = outbox[w][k].job => outbox[w][j].n < outbox[w][k].n
      BY DEF OutboxInv
    <3>5. outbox[w][1].job = outbox[w][i + 1].job => outbox[w][1].n < outbox[w][i + 1].n
      BY <1>4, <3>1, <3>4
    <3>6. e.job = r => e.n < n
      BY <1>4, <3>2, <3>5
    <3> QED
      BY <3>3, <3>6
  <2>4. CASE v # w
    <3>1. i \in 1 .. Len(outbox[v]) /\ outbox[v][i].job = r /\ outbox[v][i].n = n
      BY <1>5, <2>2, <2>4
    <3>2. Travels(v, outbox[v][i]) /\ Travels(w, e)
      BY <1>4, <3>1 DEF OutboxInv
    <3>3. e.job # r
      BY <2>4, <3>1, <3>2 DEF Travels
    <3> QED
      BY <3>1, <3>3 DEF Under
  <2> QED
    BY <2>3, <2>4
<1>7. ASSUME NEW n, Under(r, n), ~ (e.job = r /\ n = e.n) PROVE Under(r, n)'
  <2>1. PICK v \in Worker : \E i \in 1 .. Len(outbox[v]) :
                              outbox[v][i].job = r /\ outbox[v][i].n = n
    BY <1>7 DEF Under
  <2>2. PICK i \in 1 .. Len(outbox[v]) : outbox[v][i].job = r /\ outbox[v][i].n = n
    BY <2>1
  <2>3. CASE v = w
    <3>1. i # 1
      BY <1>4, <1>7, <2>2, <2>3
    <3>2. PICK j \in Nat : j = i - 1
      BY <1>4, <2>2, <2>3, <3>1
    <3>3. j \in 1 .. Len(rest) /\ rest[j] = outbox[w][j + 1] /\ j + 1 = i
      BY <1>4, <2>2, <2>3, <3>1, <3>2
    <3>4. rest[j].job = r /\ rest[j].n = n
      BY <2>2, <2>3, <3>3
    <3> QED
      BY <1>5, <3>3, <3>4 DEF Under
  <2>4. CASE v # w
    BY <1>5, <2>2, <2>4 DEF Under
  <2> QED
    BY <2>3, <2>4
<1>8. CASE e.job = r
  <2>1. Under(r, e.n)
    BY <1>4, <1>8 DEF Under
  <2>2. ASSUME NEW n, Under(r, n)' PROVE Under(r, n) /\ e.n < n /\ n # e.n
    <3>1. Under(r, n) /\ e.n < n
      BY <1>6, <1>8, <2>2
    <3>2. e.n \in Nat
      BY <1>4, OutboxEntry
    <3> QED
      BY <3>1, <3>2
  <2> QED
    BY <1>1, <1>7, <1>8, <2>1, <2>2 DEF Arrives
<1>9. CASE e.job # r
  BY <1>1, <1>6, <1>7, <1>9 DEF Rests
<1> QED
  BY <1>8, <1>9

(* How a step moves the events of the job of r.                            *)
LEMMA JobSteps ==
  ASSUME AbortInv, AskedInv, OutboxInv, [Next]_vars, NEW r \in Request
  PROVE  \/ Rests(r) \/ Resets(r) \/ Publishes(r) \/ StreamStep(r)
         \/ \E w \in Worker : \E e : Deliver(w) /\ e = Head(outbox[w]) /\ e.job = r /\ Arrives(r, e)
<1>2. CASE UNCHANGED <<outbox, job>>
  BY <1>2, UnderSame DEF Rests
<1>3. CASE UNCHANGED vars \/ Relays \/ Watchers \/ Leaves \/ Redis
  BY <1>2, <1>3 DEF vars, jobVars, Relays, Watchers, Leaves, Redis, Subscribe, Unsubscribe
<1>4. CASE \E q \in Request : Begin(q)
  BY <1>2, <1>4 DEF Begin, BeginPrediction, BeginWebhook
<1>5. CASE \E q \in Request : Serve(q)
  <2>1. PICK q \in Request : Serve(q)
    BY <1>5
  <2>2. CASE LookUp(q) \/ Bind(q) \/ Bound(q) \/ ReadUsage(q) \/ Resolve(q) \/ StoreUsage(q)
    BY <1>2, <2>2 DEF LookUp, Bind, Bound, ReadUsage, Resolve, StoreUsage
  <2> QED
    BY <2>1, <2>2, BuildEvents DEF Serve
<1>6. CASE \E q \in Request : Emit(q) \/ Finish(q)
  BY <1>6, EmitEvents, FinishEvents
<1>7. CASE \E w \in Worker, q \in Request : Pick(w, q)
  BY <1>7, PickEvents
<1>8. CASE \E w \in Worker : Crash(w)
  BY <1>8, CrashEvents
<1>9. CASE \E w \in Worker : Deliver(w)
  BY <1>9, DeliverEvents
<1>10. CASE \E s \in Server, c \in Chat : Abort(s, c)
  BY <1>10, AbortedEvents DEF Abort
<1>11. CASE \E w \in Worker, c \in Chat : HandleAbort(w, c)
  BY <1>11, AbortedEvents DEF HandleAbort
<1> QED
  BY <1>3, <1>4, <1>5, <1>6, <1>7, <1>8, <1>9, <1>10, <1>11 DEF Next

-----------------------------------------------------------------------------
(* The responses: which events they show, and who is connected.            *)

SameEvents(y, z) ==
  \A k \in Conn : \A x : x.what = "event" => (x \in z.log[k] <=> x \in y.log[k])

(* The response to r is written to as the client of the chat c.            *)
Holds(y, r, s, c) == y.clients[s][c] = r /\ y.line[r] # "gone"

HeldBefore(y, z, r) == \A s \in Server, c \in Chat : Holds(z, r, s, c) => Holds(y, r, s, c)

LEMMA LogEntry ==
  ASSUME NEW y \in RelayRow, NEW k \in Conn, NEW x \in y.log[k], x.what = "event"
  PROVE  x \in EventEntry /\ x.job \in Request /\ x.try \in Nat /\ x.n \in Nat /\ x.n > 0
<1>1. x \in Entry
  BY DEF RelayRow
<1> QED
  BY <1>1 DEF Entry, EventEntry, NoteEntry

LEMMA NotesShowNothing ==
  ASSUME NEW y \in RelayRow, NEW z, NEW conns, NEW e, e.what # "event", e.job = 0,
         Wrote(y, z, conns, e)
  PROVE  SameEvents(y, z)
<1> SUFFICES ASSUME NEW k \in Conn, NEW x, x.what = "event"
             PROVE  x \in z.log[k] <=> x \in y.log[k]
  BY DEF SameEvents
<1>1. z.log[k] = y.log[k] \/ z.log[k] = Recorded(y.log[k], e)
  BY DEF Wrote
<1>2. ASSUME x \in y.log[k] PROVE ~ Replaces(e, x)
  <2>1. x.job \in Request
    BY <1>2, LogEntry
  <2> QED
    BY <2>1, RelayRequests DEF Replaces
<1>3. x # e
  OBVIOUS
<1> QED
  BY <1>1, <1>2, <1>3 DEF Recorded

LEMMA SameLogShowsSame ==
  ASSUME NEW y, NEW z, z.log = y.log
  PROVE  SameEvents(y, z)
BY DEF SameEvents

(* The end of a request shows no events.                                   *)
LEMMA RemovalShowsNothing ==
  ASSUME NEW y \in RelayRow, NEW s \in Server, NEW c \in Chat, NEW z, z = RemoveClient(y, s, c),
         NEW r \in Request
  PROVE  SameEvents(y, z) /\ HeldBefore(y, z, r)
<1>1. PICK x \in RelayRow :
        /\ x = Ended(y, s, c) /\ z \in RelayRow
        /\ z.clients = x.clients /\ z.line = x.line
        /\ Wrote(x, z, Lines(x, s, x.observers[s][c]), Note("executionEnd", c))
  BY RemoveChatFacts
<1>2. /\ \A t \in Server, j \in ClientId :
           x.clients[t][j] = IF t = s /\ j = c THEN NoConn ELSE y.clients[t][j]
      /\ Wrote(y, x, {y.clients[s][c]}, Note("end", c))
      /\ \A k \in Conn : x.line[k] = IF k = y.clients[s][c] /\ y.line[k] # "gone" THEN "ended"
                                     ELSE y.line[k]
  <2>1. c \in ClientId /\ x = Ended(y, s, c)
    BY <1>1, Disjoint
  <2> QED
    BY <2>1, EndedFacts
<1>3. SameEvents(y, x)
  BY <1>2, NotesShowNothing DEF Note
<1>4. SameEvents(x, z)
  BY <1>1, NotesShowNothing DEF Note
<1>5. HeldBefore(y, z, r)
  BY <1>1, <1>2, Disjoint DEF HeldBefore, Holds
<1> QED
  BY <1>3, <1>4, <1>5 DEF SameEvents

LEMMA JoinShows ==
  ASSUME ClientInv, NEW q \in Request, JoinStep(q), NEW r \in Request, r # q
  PROVE  SameEvents(relay, relay') /\ HeldBefore(relay, relay', r)
<1>1. PICK s \in Server, c \in Chat : s = ServerOf(q)' /\ c = ChatOf(q)'
  BY DEF JoinStep
<1>2. relay' = AddClient(relay, s, c, q) /\ relay \in RelayRow /\ q \in Conn /\ c \in ClientId
  BY <1>1, Disjoint DEF JoinStep, ServerOf, ChatOf, ClientInv
<1>3. /\ relay'.log = relay.log
      /\ \A t \in Server, j \in ClientId :
           relay'.clients[t][j] = IF t = s /\ j = c THEN q ELSE relay.clients[t][j]
      /\ \A k \in Conn : relay'.line[k] = IF k = q THEN "open" ELSE relay.line[k]
  BY <1>2, AddClientFacts
<1>4. HeldBefore(relay, relay', r)
  BY <1>3, Disjoint DEF HeldBefore, Holds
<1> QED
  BY <1>3, <1>4, SameLogShowsSame

LEMMA ObserveShows ==
  ASSUME ClientInv, NEW q, NEW s, NEW c, NEW l, ObserveStep(q, s, c, l), NEW r \in Request
  PROVE  SameEvents(relay, relay') /\ HeldBefore(relay, relay', r)
<1>1. /\ c \in Chat /\ s \in Server /\ l \in Listener /\ relay \in RelayRow
      /\ relay' = AddObserver(relay, s, c, l)
  BY DEF ObserveStep, ClientInv
<1>2. relay'.clients = relay.clients /\ relay'.line = relay.line /\ relay'.log = relay.log
  BY <1>1, AddObserverFacts
<1> QED
  BY <1>2, SameLogShowsSame DEF HeldBefore, Holds

LEMMA EndShows ==
  ASSUME ClientInv, NEW q \in Request, NEW y, EndStep(q, y), NEW r \in Request
  PROVE  SameEvents(relay, relay') /\ HeldBefore(relay, relay', r)
<1>1. PICK s \in Server, c \in Chat : s = ServerOf(q) /\ c = ChatOf(q)
  BY DEF EndStep
<1>2. y \in RelayRow /\ relay \in RelayRow
  BY EndRules DEF ClientInv
<1>3. SameEvents(relay, y) /\ HeldBefore(relay, y, r)
  <2>1. CASE y = relay
    BY <2>1 DEF SameEvents, HeldBefore
  <2>2. CASE y # relay
    <3>1. PICK what \in {"error", "metadata"} : y = SafeWrite(relay, s, c, Note(what, c))
      BY <1>1, <2>2 DEF EndStep
    <3>2. Note(what, c) \in Entry /\ Note(what, c).what = what /\ Note(what, c).job = 0
      BY NoteFacts, Disjoint
    <3>3. /\ y.clients = relay.clients /\ y.line = relay.line
          /\ Wrote(relay, y, Lines(relay, s, {c} \cup relay.observers[s][c]), Note(what, c))
      BY <1>2, <3>1, <3>2, SafeWriteFacts
    <3>4. SameEvents(relay, y)
      BY <1>2, <3>2, <3>3, NotesShowNothing
    <3> QED
      BY <3>3, <3>4 DEF HeldBefore, Holds
  <2> QED
    BY <2>1, <2>2
<1>4. SameEvents(y, relay') /\ HeldBefore(y, relay', r)
  <2>1. CASE relay' = y
    BY <2>1 DEF SameEvents, HeldBefore
  <2>2. CASE relay' # y
    BY <1>1, <1>2, <2>2, RemovalShowsNothing DEF EndStep
  <2> QED
    BY <2>1, <2>2
<1> QED
  BY <1>3, <1>4 DEF SameEvents, HeldBefore

LEMMA ComeOrGoShows ==
  ASSUME ReadInv, ClientInv, ComeOrGo
  PROVE  SameEvents(relay, relay') /\ \A r \in Request : HeldBefore(relay, relay', r)
<1>0. relay \in RelayRow
  BY DEF ClientInv
<1>1. SameEvents(relay, relay')
  <2>1. CASE SameBooks
    BY <2>1, SameLogShowsSame DEF SameBooks
  <2>2. CASE \E l \in Listener, s \in Server : Closes(l, s)
    <3>1. PICK l \in Listener, s \in Server : Closes(l, s)
      BY <2>2
    <3>2. PICK e : e = Note("end", l)
      OBVIOUS
    <3>3. e.what # "event" /\ e.job = 0
      BY <3>2 DEF Note
    <3>4. \A k \in Conn : relay'.log[k] = IF k = l THEN Recorded(relay.log[k], e) ELSE relay.log[k]
      BY <3>1, <3>2, Disjoint DEF Closes
    <3>5. relay.line[l] # "gone"
      BY DEF ClientInv, ClientRules, Homed
    <3>6. Wrote(relay, relay', {l}, e)
      BY <3>4, <3>5 DEF Wrote
    <3> QED
      BY <1>0, <3>3, <3>6, NotesShowNothing
  <2> QED
    BY <2>1, <2>2, ComeOrGoFacts
<1>2. ASSUME NEW q \in Request, HangUp(q), NEW r \in Request
      PROVE  HeldBefore(relay, relay', r)
  <2>1. /\ relay' = [relay EXCEPT !.line[q] = "gone"]
    BY <1>2 DEF HangUp
  <2>2. PICK line : line = [relay.line EXCEPT ![q] = "gone"]
    OBVIOUS
  <2>3. relay'.clients = relay.clients /\ relay'.line = line
    BY <1>0, <2>1, <2>2 DEF RelayRow
  <2>4. \A k \in Conn : line[k] = IF k = q THEN "gone" ELSE relay.line[k]
    BY <1>0, <2>2 DEF RelayRow
  <2> QED
    BY <2>3, <2>4, Disjoint DEF HeldBefore, Holds
<1>3. ASSUME NEW t \in Server, NEW d \in Chat, DropDead(t, d), NEW r \in Request
      PROVE  HeldBefore(relay, relay', r)
  <2>1. relay' = [relay EXCEPT !.clients[t][d] = NoConn]
    BY <1>3 DEF DropDead
  <2>2. PICK clients : clients = [relay.clients EXCEPT ![t][d] = NoConn]
    OBVIOUS
  <2>3. relay'.line = relay.line /\ relay'.clients = clients
    BY <1>0, <2>1, <2>2 DEF RelayRow
  <2>4. \A s \in Server, j \in ClientId :
          clients[s][j] = IF s = t /\ j = d THEN NoConn ELSE relay.clients[s][j]
    <3>1. relay.clients \in [Server -> [ClientId -> Conn \cup {NoConn}]] /\ d \in ClientId
      BY <1>0, Disjoint DEF RelayRow
    <3> QED
      BY <2>2, <3>1, TableUpdate
  <2> QED
    BY <2>3, <2>4, Disjoint DEF HeldBefore, Holds
<1>4. ASSUME NEW l \in Listener, NEW t \in Server, OpenListener(l, t), NEW r \in Request
      PROVE  HeldBefore(relay, relay', r)
  <2>1. relay' = AddClient(relay, t, l, l) /\ l \in ClientId /\ l \in Conn
    BY <1>4, Disjoint DEF OpenListener
  <2>2. /\ \A s \in Server, j \in ClientId :
             relay'.clients[s][j] = IF s = t /\ j = l THEN l ELSE relay.clients[s][j]
        /\ \A k \in Conn : relay'.line[k] = IF k = l THEN "open" ELSE relay.line[k]
    BY <1>0, <2>1, AddClientFacts
  <2> QED
    BY <2>2, Disjoint DEF HeldBefore, Holds
<1>5. ASSUME NEW l \in Listener, CloseListener(l), NEW r \in Request
      PROVE  HeldBefore(relay, relay', r)
  <2>1. PICK t : t = listener[l].server
    OBVIOUS
  <2>2. /\ t \in Server /\ relay.clients[t][l] = l
        /\ relay' = RemoveClient(relay, t, l)
    BY <1>5, <2>1 DEF CloseListener, ClientInv, ClientRules, Homed, Listens
  <2>3. PICK x \in RelayRow :
          x = Ended(relay, t, l) /\ relay'.clients = x.clients /\ relay'.line = x.line
    BY <1>0, <2>2, RemoveListenerFacts
  <2>4. /\ \A s \in Server, j \in ClientId :
             x.clients[s][j] = IF s = t /\ j = l THEN NoConn ELSE relay.clients[s][j]
        /\ Wrote(relay, x, {relay.clients[t][l]}, Note("end", l))
        /\ \A k \in Conn : x.line[k] = IF k = relay.clients[t][l] /\ relay.line[k] # "gone"
                                       THEN "ended" ELSE relay.line[k]
    <3>1. t \in Server /\ l \in ClientId /\ x = Ended(relay, t, l)
      BY <2>2, <2>3, Disjoint
    <3> QED
      BY <1>0, <3>1, EndedFacts
  <2>5. \A k \in Conn : relay'.line[k] # "gone" => relay.line[k] # "gone"
    BY <2>3, <2>4
  <2>6. \A s \in Server, c \in Chat : relay'.clients[s][c] = relay.clients[s][c]
    BY <2>3, <2>4, Disjoint
  <2> QED
    BY <2>5, <2>6, Disjoint DEF HeldBefore, Holds
<1> QED
  BY <1>1, <1>2, <1>3, <1>4, <1>5 DEF ComeOrGo

(* Only the flow and the deliveries from Redis show events, and only a     *)
(* request that joins becomes a client.                                    *)
LEMMA ShowSteps ==
  ASSUME Overlap = FALSE, RelayInv, [Next]_vars
  PROVE  \/ /\ SameEvents(relay, relay')
            /\ \A r \in Request : HeldBefore(relay, relay', r) \/ JoinStep(r)
         \/ \E q \in Request : StreamStep(q)
         \/ \E w \in Worker : Deliver(w)
<1>1. CASE QuietStep
  BY <1>1 DEF QuietStep, SameEvents, HeldBefore
<1>2. CASE ComeOrGo
  BY <1>2, ComeOrGoShows DEF RelayInv
<1>3. ASSUME NEW q \in Request, JoinStep(q) PROVE SameEvents(relay, relay')
  BY <1>3, JoinSilent, SameLogShowsSame DEF RelayInv
<1>4. ASSUME NEW q \in Request, JoinStep(q), NEW r \in Request
      PROVE  HeldBefore(relay, relay', r) \/ JoinStep(r)
  BY <1>4, JoinShows DEF RelayInv
<1>5. ASSUME NEW q \in Request, NEW y, EndStep(q, y), NEW r \in Request
      PROVE  SameEvents(relay, relay') /\ HeldBefore(relay, relay', r)
  BY <1>5, EndShows DEF RelayInv
<1>6. ASSUME NEW q, NEW s, NEW c, NEW l, ObserveStep(q, s, c, l), NEW r \in Request
      PROVE  SameEvents(relay, relay') /\ HeldBefore(relay, relay', r)
  BY <1>6, ObserveShows DEF RelayInv
<1> QED
  BY <1>1, <1>2, <1>3, <1>4, <1>5, <1>6, RelaySteps DEF RelayInv

-----------------------------------------------------------------------------
(* The job of the event x is past it: its next events are later.           *)
Behind(x) ==
  \/ x.try < job[x.job].try
  \/ x.try = job[x.job].try /\ x.n =< job[x.job].sent

Passed(x) ==
  /\ Behind(x)
  /\ x.try = job[x.job].try => \A n : Under(x.job, n) => x.n < n

(* A response shows an event of a job at most, the latest.                 *)
OrderInv ==
  \A k \in Conn : \A x \in relay.log[k] : x.what = "event" =>
    /\ Passed(x)
    /\ \A y \in relay.log[k] : y.what = "event" /\ y.job = x.job => y = x

(* What a worker has published and Redis has not delivered has no gaps.    *)
RunsInv ==
  \A r \in Request : \A m, n \in Nat :
    Under(r, m) /\ m =< n /\ n =< job[r].sent => Under(r, n)

LEMMA PassedStays ==
  ASSUME AbortInv, AskedInv, OutboxInv, [Next]_vars, NEW x \in EventEntry, Passed(x)
  PROVE  Passed(x)'
<1>1. PICK r \in Request : r = x.job
  BY DEF EventEntry
<1>2. /\ x.try \in Nat /\ x.n \in Nat
      /\ job[r].try \in Nat /\ job[r].sent \in Nat
  BY DEF EventEntry, AbortInv, ShapeInv, JobRow
<1>3. /\ x.try < job[r].try \/ (x.try = job[r].try /\ x.n =< job[r].sent)
      /\ x.try = job[r].try => \A n : Under(r, n) => x.n < n
  BY <1>1 DEF Passed, Behind
<1> DEFINE Goal == /\ x.try < job'[r].try \/ (x.try = job'[r].try /\ x.n =< job'[r].sent)
                   /\ x.try = job'[r].try => \A n : Under(r, n)' => x.n < n
<1>4. SUFFICES Goal
  BY <1>1 DEF Passed, Behind
<1>5. CASE Rests(r)
  BY <1>3, <1>5 DEF Rests
<1>6. CASE Resets(r)
  <2>1. /\ job'[r].try = job[r].try + 1 \/ (job'[r].try = job[r].try /\ job'[r].sent = job[r].sent)
        /\ \A n : ~ Under(r, n)'
    BY <1>6 DEF Resets
  <2>3. x.try < job'[r].try \/ (x.try = job'[r].try /\ x.n =< job'[r].sent)
    BY <1>2, <1>3, <2>1
  <2> QED
    BY <2>1, <2>3
<1>7. CASE Publishes(r)
  <2>1. /\ job'[r].try = job[r].try /\ job'[r].sent = job[r].sent + 1
        /\ \A n : Under(r, n)' <=> Under(r, n) \/ n = job[r].sent + 1
    BY <1>7 DEF Publishes
  <2>2. x.try < job'[r].try \/ (x.try = job'[r].try /\ x.n =< job'[r].sent)
    BY <1>2, <1>3, <2>1
  <2>3. x.try = job[r].try => x.n < job[r].sent + 1
    BY <1>2, <1>3
  <2>4. ASSUME x.try = job[r].try, NEW n, Under(r, n)' PROVE x.n < n
    BY <1>3, <2>1, <2>3, <2>4
  <2> QED
    BY <2>1, <2>2, <2>4
<1>8. CASE StreamStep(r)
  <2>1. mode # "queue" /\ outbox' = outbox /\ job' = [job EXCEPT ![r].sent = @ + 1]
    BY <1>8 DEF StreamStep, Emit
  <2>2. job'[r].try = job[r].try /\ job'[r].sent = job[r].sent + 1
    BY <2>1 DEF AbortInv, ShapeInv, JobRow
  <2>3. \A n : ~ Under(r, n)'
    BY <2>1, UnderFacts, UnderSame
  <2>4. x.try < job'[r].try \/ (x.try = job'[r].try /\ x.n =< job'[r].sent)
    BY <1>2, <1>3, <2>2
  <2> QED
    BY <2>3, <2>4
<1>9. ASSUME NEW e, Arrives(r, e) PROVE Goal
  BY <1>3, <1>9 DEF Arrives
<1> QED
  BY <1>5, <1>6, <1>7, <1>8, <1>9, JobSteps

LEMMA RunsInvStays ==
  ASSUME AbortInv, AskedInv, OutboxInv, RunsInv, [Next]_vars
  PROVE  RunsInv'
<1> SUFFICES ASSUME NEW r \in Request, NEW m \in Nat, NEW n \in Nat,
                    Under(r, m)', m =< n, n =< job'[r].sent
             PROVE  Under(r, n)'
  BY DEF RunsInv
<1>0. job[r].sent \in Nat
  BY DEF AbortInv, ShapeInv, JobRow
<1>1. CASE Rests(r)
  BY <1>1 DEF Rests, RunsInv
<1>2. CASE Resets(r)
  BY <1>2 DEF Resets
<1>3. CASE Publishes(r)
  <2>1. /\ job'[r].sent = job[r].sent + 1
        /\ \A i : Under(r, i)' <=> Under(r, i) \/ i = job[r].sent + 1
    BY <1>3 DEF Publishes
  <2>2. CASE n = job[r].sent + 1
    BY <2>1, <2>2
  <2>3. CASE n # job[r].sent + 1
    <3>1. n =< job[r].sent /\ m # job[r].sent + 1
      BY <1>0, <2>1, <2>3
    <3>2. Under(r, m)
      BY <2>1, <3>1
    <3> QED
      BY <2>1, <3>1, <3>2 DEF RunsInv
  <2> QED
    BY <2>2, <2>3
<1>4. CASE StreamStep(r)
  <2>1. mode # "queue" /\ outbox' = outbox
    BY <1>4 DEF StreamStep, Emit
  <2> QED
    BY <2>1, UnderFacts, UnderSame
<1>5. ASSUME NEW e, Arrives(r, e) PROVE Under(r, n)'
  <2>1. Under(r, m) /\ e.n < m /\ e.n \in Nat
    BY <1>5, UnderFacts DEF Arrives
  <2>2. n # e.n
    BY <2>1
  <2>3. Under(r, n)
    BY <1>5, <2>1 DEF Arrives, RunsInv
  <2> QED
    BY <1>5, <2>2, <2>3 DEF Arrives
<1> QED
  BY <1>1, <1>2, <1>3, <1>4, <1>5, JobSteps

-----------------------------------------------------------------------------
(* The response to r is written to when an event about its chat arrives.   *)
Attached(r) ==
  /\ Holds(relay, r, ServerOf(r), ChatOf(r))
  /\ mode = "queue" => ChatOf(r) \in subscribed[ServerOf(r)]

(* The event e is written to the responses conns: whichever are attached   *)
(* to its chat, and before them no later event of its job.                 *)
Shows(e, conns) ==
  /\ e \in EventEntry /\ e.chat = ChatOf(e.job) /\ e.try = job[e.job].try /\ Asked(e.job)
  /\ Wrote(relay, relay', conns, e)
  /\ relay'.clients = relay.clients /\ relay'.line = relay.line
  /\ UNCHANGED <<req, subscribed, setup>>
  /\ Passed(e)'
  /\ \A x \in EventEntry : x.job = e.job /\ Passed(x) => Later(e, x)
  /\ \A k \in Request : /\ k \in conns /\ relay.line[k] # "gone" => Attached(k)
                        /\ Attached(k) /\ ChatOf(k) = e.chat => k \in conns
                        /\ k # e.job => Rests(k)

LEMMA StreamShows ==
  ASSUME RelayInv, NEW q \in Request, StreamStep(q)
  PROVE  \E e, conns : Shows(e, conns) /\ e.job = q /\ e.n = job[q].sent + 1
<1>1. PICK s \in Server, c \in Chat : s = ServerOf(q) /\ c = ChatOf(q)
  <2>1. At(q, "waiting")
    BY DEF StreamStep, Emit, RelayInv, AbortInv, JobsAreAwaited
  <2> QED
    BY <2>1 DEF RelayInv, AskedInv, Asked, At
<1>2. PICK e : e = Event(c, q, job[q].try, job[q].sent + 1)
  OBVIOUS
<1>3. /\ job[q].pc = "active" /\ job[q] \in JobRow /\ mode # "queue"
      /\ relay' = SafeWrite(relay, s, c, e)
      /\ UNCHANGED <<subscribed, setup, req, outbox>>
      /\ job' = [job EXCEPT ![q].sent = @ + 1]
  BY <1>1, <1>2 DEF StreamStep, Emit, RelayInv, AbortInv, ShapeInv
<1>4. /\ e \in EventEntry /\ e \in Entry /\ e.chat = c /\ e.job = q /\ e.try = job[q].try
      /\ e.n = job[q].sent + 1 /\ job[q].sent \in Nat /\ job[q].try \in Nat
  <2>1. job[q].try \in Nat /\ job[q].sent + 1 \in Nat \ {0} /\ job[q].sent \in Nat
    BY <1>3 DEF JobRow
  <2> QED
    BY <1>1, <1>2, <2>1 DEF Event, EventEntry, Entry
<1>5. PICK conns : conns = Lines(relay, s, {c} \cup relay.observers[s][c])
  OBVIOUS
<1>6. relay \in RelayRow /\ Served(relay) /\ Homed(relay)
  BY DEF RelayInv, ClientInv, ClientRules
<1>7. /\ Wrote(relay, relay', conns, e)
      /\ relay'.clients = relay.clients /\ relay'.line = relay.line
  BY <1>3, <1>4, <1>5, <1>6, SafeWriteFacts
<1>8. \A k \in Request : k \in conns <=> k = relay.clients[s][c]
  BY <1>5, <1>6, Reached, Disjoint DEF ListensAt
<1>9. \A k \in Request : /\ k \in conns /\ relay.line[k] # "gone" => Attached(k)
                         /\ Attached(k) /\ ChatOf(k) = e.chat => k \in conns
  <2> SUFFICES ASSUME NEW k \in Request
               PROVE  /\ k \in conns /\ relay.line[k] # "gone" => Attached(k)
                      /\ Attached(k) /\ ChatOf(k) = c => k \in conns
    BY <1>4
  <2>1. ASSUME k \in conns, relay.line[k] # "gone" PROVE Attached(k)
    <3>1. k = relay.clients[s][c] /\ k # NoConn
      BY <1>8, <2>1, Disjoint
    <3>2. ServerOf(k) = s /\ ChatOf(k) = c
      BY <1>6, <3>1 DEF Served, Serves
    <3> QED
      BY <1>3, <2>1, <3>1, <3>2 DEF Attached, Holds
  <2>2. ASSUME Attached(k), ChatOf(k) = c PROVE k \in conns
    <3>1. ServerOf(k) \in Server
      BY <1>1, <2>2, Disjoint DEF RelayInv, AskedInv, Asked, At, ChatOf
    <3>2. relay.clients[ServerOf(k)][c] = k
      BY <2>2 DEF Attached, Holds
    <3>3. Busy(k) /\ Busy(q) /\ ChatOf(q) = c
      <4>1. Busy(k)
        BY <1>6, <3>1, <3>2, Disjoint DEF Served, Serves
      <4>2. Busy(q)
        BY <1>3 DEF RelayInv, AbortInv, JobsAreAwaited, At, Busy
      <4> QED
        BY <1>1, <4>1, <4>2
    <3>4. k = q
      BY <2>2, <3>3 DEF RelayInv, AbortInv, Exclusive
    <3> QED
      BY <1>1, <1>8, <3>2, <3>4
  <2> QED
    BY <2>1, <2>2
<1>10. job'[q].try = job[q].try /\ job'[q].sent = job[q].sent + 1
  BY <1>3 DEF RelayInv, AbortInv, ShapeInv, JobRow
<1>11. Passed(e)'
  <2>1. \A n : ~ Under(q, n)'
    BY <1>3, UnderFacts, UnderSame DEF RelayInv
  <2>2. e.try = job'[q].try /\ e.n =< job'[q].sent
    BY <1>4, <1>10
  <2> QED
    BY <1>4, <2>1, <2>2 DEF Passed, Behind
<1>12. \A x \in EventEntry : x.job = e.job /\ Passed(x) => Later(e, x)
  <2> SUFFICES ASSUME NEW x \in EventEntry, x.job = q, Passed(x) PROVE Later(e, x)
    BY <1>4
  <2>1. x.try \in Nat /\ x.n \in Nat
    BY DEF EventEntry
  <2>2. x.try < job[q].try \/ (x.try = job[q].try /\ x.n =< job[q].sent)
    BY DEF Passed, Behind
  <2> QED
    BY <1>4, <2>1, <2>2 DEF Later
<1>13. Asked(q)
  BY <1>3 DEF RelayInv, AbortInv, JobsAreAwaited, At, Asked
<1>14. \A k \in Request : k # q => Rests(k)
  <2>1. job \in [Request -> JobRow]
    BY DEF RelayInv, AbortInv, ShapeInv
  <2> QED
    BY <1>3, <2>1, UnderSame DEF Rests
<1>15. Shows(e, conns)
  BY <1>1, <1>3, <1>4, <1>7, <1>9, <1>11, <1>12, <1>13, <1>14 DEF Shows
<1> QED
  BY <1>4, <1>15

LEMMA DeliverShows ==
  ASSUME RelayInv, NEW w \in Worker, Deliver(w)
  PROVE  \E e, conns : Shows(e, conns) /\ Arrives(e.job, e)
<1>1. /\ outbox[w] # <<>> /\ relay' = Published(Head(outbox[w]).chat, Head(outbox[w]))
      /\ UNCHANGED <<subscribed, setup, req, job>>
  BY DEF Deliver
<1>2. PICK e : e = Head(outbox[w])
  OBVIOUS
<1>3. /\ e = outbox[w][1] /\ 1 \in 1 .. Len(outbox[w])
      /\ e \in EventEntry /\ e \in Entry /\ e.chat \in Chat
      /\ e.job \in Request /\ e.try \in Nat /\ e.n \in Nat /\ e.n > 0 /\ Travels(w, e)
  BY <1>1, <1>2, HeadFacts DEF RelayInv
<1>4. PICK q \in Request, c \in Chat : q = e.job /\ c = e.chat
  BY <1>3
<1>5. Arrives(q, e)
  BY <1>2, <1>4, DeliverEvents DEF RelayInv
<1>6. relay \in RelayRow /\ Served(relay) /\ Homed(relay)
  BY DEF RelayInv, ClientInv, ClientRules
<1>7. relay' = Published(c, e)
  BY <1>1, <1>2, <1>4
<1>8. /\ Wrote(relay, relay', Readers(c), e)
      /\ relay'.clients = relay.clients /\ relay'.line = relay.line
  BY <1>3, <1>6, <1>7, PublishedFacts
<1>9. PICK conns : conns = Readers(c)
  OBVIOUS
<1>10. mode = "queue" /\ Under(q, e.n)
  BY <1>4, <1>5, UnderFacts DEF Arrives, RelayInv
<1>11. ASSUME NEW k \in Request, k \in conns, relay.line[k] # "gone"
       PROVE  Attached(k)
  <2>1. PICK s \in Receivers(c) : k \in Lines(relay, s, {c} \cup relay.observers[s][c])
    BY <1>9, <1>11 DEF Readers
  <2>2. s \in Server /\ c \in subscribed[s]
    BY <2>1 DEF Receivers
  <2>3. k = relay.clients[s][c] /\ k # NoConn
    BY <1>6, <2>1, <2>2, Reached, Disjoint DEF ListensAt
  <2>4. ServerOf(k) = s /\ ChatOf(k) = c
    BY <1>6, <2>2, <2>3 DEF Served, Serves
  <2> QED
    BY <1>11, <2>2, <2>3, <2>4 DEF Attached, Holds
<1>12. ASSUME NEW k \in Request, Attached(k), ChatOf(k) = c
       PROVE  k \in conns
  <2>1. PICK s \in Server : s = ServerOf(k)
    BY <1>12, Disjoint DEF RelayInv, AskedInv, Asked, At, ChatOf
  <2>2. relay.clients[s][c] = k /\ c \in subscribed[s]
    BY <1>10, <1>12, <2>1 DEF Attached, Holds
  <2>3. k \in Lines(relay, s, {c} \cup relay.observers[s][c])
    BY <1>6, <2>2, Reached, Disjoint
  <2>4. s \in Receivers(c)
    BY <2>2 DEF Receivers
  <2> QED
    BY <1>9, <2>3, <2>4 DEF Readers
<1>13. e.chat = ChatOf(q) /\ e.try = job[q].try /\ e.n =< job[q].sent
  BY <1>3, <1>4 DEF Travels
<1>14. Passed(e)'
  <2>1. \A n : Under(q, n)' => e.n < n
    BY <1>5 DEF Arrives
  <2> QED
    BY <1>1, <1>4, <1>13, <2>1 DEF Passed, Behind
<1>15. ASSUME NEW x \in EventEntry, x.job = q, Passed(x) PROVE Later(e, x)
  <2>1. x.try \in Nat /\ x.n \in Nat
    BY DEF EventEntry
  <2>2. x.try < job[q].try \/ (x.try = job[q].try /\ x.n < e.n)
    BY <1>10, <1>15 DEF Passed, Behind
  <2> QED
    BY <1>3, <1>13, <2>1, <2>2 DEF Later
<1>16. Asked(q)
  BY <1>3, <1>4, <1>13, Disjoint, RelayDistinct DEF RelayInv, AskedInv, Asked
<1>17. \A k \in Request : k # q => Rests(k)
  BY <1>2, <1>4, DeliverEvents DEF RelayInv
<1>18. Shows(e, conns)
  BY <1>1, <1>3, <1>4, <1>8, <1>9, <1>11, <1>12, <1>13, <1>14, <1>15, <1>16, <1>17 DEF Shows
<1> QED
  BY <1>4, <1>5, <1>18

(* The flow of e.job streams e.                                            *)
StreamsAs(e) == StreamStep(e.job) /\ e.n = job[e.job].sent + 1

LEMMA WriteSteps ==
  ASSUME Overlap = FALSE, RelayInv, [Next]_vars
  PROVE  \/ /\ SameEvents(relay, relay')
            /\ \A r \in Request : HeldBefore(relay, relay', r) \/ JoinStep(r)
            /\ \A r \in Request : ~ StreamStep(r)
            /\ \A w \in Worker : ~ Deliver(w)
         \/ \E e, conns : Shows(e, conns) /\ (StreamsAs(e) \/ Arrives(e.job, e))
<1>1. CASE \E q \in Request : StreamStep(q)
  BY <1>1, StreamShows DEF StreamsAs
<1>2. CASE \E w \in Worker : Deliver(w)
  BY <1>2, DeliverShows
<1> QED
  BY <1>1, <1>2, ShowSteps

LEMMA OrderInvStays ==
  ASSUME Overlap = FALSE, RelayInv, OrderInv, [Next]_vars
  PROVE  OrderInv'
<1> SUFFICES ASSUME NEW k \in Conn, NEW x \in relay'.log[k], x.what = "event"
             PROVE  /\ Passed(x)'
                    /\ \A y \in relay'.log[k] : y.what = "event" /\ y.job = x.job => y = x
  BY DEF OrderInv
<1>0. relay \in RelayRow /\ AbortInv /\ AskedInv /\ OutboxInv
  BY DEF RelayInv, ClientInv
<1>1. ASSUME x \in relay.log[k] PROVE Passed(x)'
  <2>1. x \in EventEntry /\ Passed(x)
    BY <1>0, <1>1, LogEntry DEF OrderInv
  <2> QED
    BY <1>0, <2>1, PassedStays
<1>2. CASE SameEvents(relay, relay')
  <2>1. x \in relay.log[k]
    BY <1>2 DEF SameEvents
  <2>2. ASSUME NEW y \in relay'.log[k], y.what = "event", y.job = x.job PROVE y = x
    <3>1. y \in relay.log[k]
      BY <1>2, <2>2 DEF SameEvents
    <3> QED
      BY <2>1, <2>2, <3>1 DEF OrderInv
  <2> QED
    BY <1>1, <2>1, <2>2
<1>3. ASSUME NEW e, NEW conns, Shows(e, conns)
      PROVE  /\ Passed(x)'
             /\ \A y \in relay'.log[k] : y.what = "event" /\ y.job = x.job => y = x
  <2>1. relay'.log[k] = relay.log[k] \/ relay'.log[k] = Recorded(relay.log[k], e)
    BY <1>3 DEF Shows, Wrote
  <2>2. Passed(x)'
    <3>1. x \in relay.log[k] \/ x = e
      BY <2>1 DEF Recorded
    <3> QED
      BY <1>1, <1>3, <3>1 DEF Shows
  <2>3. ASSUME NEW y \in relay'.log[k], y.what = "event", y.job = x.job PROVE y = x
    <3>1. CASE relay'.log[k] = relay.log[k]
      BY <2>3, <3>1 DEF OrderInv
    <3>2. CASE relay'.log[k] = Recorded(relay.log[k], e)
      <4>1. /\ x = e \/ (x \in relay.log[k] /\ x.job # e.job)
            /\ y = e \/ (y \in relay.log[k] /\ y.job # e.job)
        BY <2>3, <3>2 DEF Recorded, Replaces
      <4> QED
        BY <2>3, <4>1 DEF OrderInv
    <3> QED
      BY <2>1, <3>1, <3>2
  <2> QED
    BY <2>2, <2>3
<1> QED
  BY <1>2, <1>3, WriteSteps

-----------------------------------------------------------------------------
(* Events are not left out.                                                *)

(* The response to r must show the next event of its job.                  *)
Expecting(r) == req[r].kind = "predict" \/ Shown(relay.log[r], r) # {}

Follows(n, log, r, try) ==
  \/ n = 1 /\ \A x \in Shown(log, r) : x.try # try
  \/ \E x \in Shown(log, r) : x.try = try /\ n = x.n + 1

Awaited(r, n) == Follows(n, relay.log[r], r, job[r].try)

(* The event n is still under way, or before those that are, or to come.   *)
Unmissed(r, n) ==
  /\ job[r].pc = "active" /\ n =< job[r].sent => Under(r, n)
  /\ \A m : Under(r, m) => Under(r, n)

StepInv ==
  \A r \in Request : Asked(r) /\ AloneInChat(r) /\ Attached(r) /\ Expecting(r) =>
    \A n \in Nat : Awaited(r, n) => Unmissed(r, n)

LEMMA FollowsFacts ==
  ASSUME NEW y \in RelayRow, NEW r \in Request, NEW n, NEW try, Follows(n, y.log[r], r, try)
  PROVE  n \in Nat /\ n > 0
<1>1. CASE n = 1
  BY <1>1
<1>2. CASE n # 1
  <2>1. PICK x \in Shown(y.log[r], r) : n = x.n + 1
    BY <1>2 DEF Follows
  <2>2. x \in y.log[r] /\ x.what = "event" /\ r \in Conn
    BY <2>1, Disjoint DEF Shown
  <2>3. x.n \in Nat
    BY <2>2, LogEntry
  <2> QED
    BY <2>1, <2>3
<1> QED
  BY <1>1, <1>2

LEMMA AwaitedNext ==
  ASSUME RelayInv, OrderInv, NEW r \in Request, NEW n, Awaited(r, n)
  PROVE  n \in Nat /\ n > 0 /\ n =< job[r].sent + 1
<1>1. n \in Nat /\ n > 0
  BY FollowsFacts DEF Awaited, RelayInv, ClientInv
<1>2. job[r].sent \in Nat
  BY DEF RelayInv, AbortInv, ShapeInv, JobRow
<1>3. CASE n = 1
  BY <1>1, <1>2, <1>3
<1>4. CASE n # 1
  <2>1. PICK x \in Shown(relay.log[r], r) : x.try = job[r].try /\ n = x.n + 1
    BY <1>4 DEF Awaited, Follows
  <2>2. x \in relay.log[r] /\ x.what = "event" /\ x.job = r /\ r \in Conn
    BY <2>1, Disjoint DEF Shown
  <2>3. x.n \in Nat /\ x.try \in Nat
    BY <2>2, LogEntry DEF RelayInv, ClientInv
  <2>4. x.n =< job[r].sent
    BY <2>1, <2>2, <2>3 DEF OrderInv, Passed, Behind
  <2> QED
    BY <1>1, <1>2, <2>1, <2>3, <2>4
<1> QED
  BY <1>3, <1>4

LEMMA SetupStays ==
  ASSUME [Next]_vars
  PROVE  setup' = setup
<1>1. CASE UNCHANGED vars \/ Redis \/ Watchers \/ Relays \/ Leaves
  BY <1>1 DEF vars, Redis, Subscribe, Unsubscribe, Watchers, Relays, Leaves
<1>2. CASE \E r \in Request : Begin(r) \/ Emit(r) \/ Finish(r)
  BY <1>2 DEF Begin, BeginPrediction, BeginWebhook, Emit, Finish
<1>3. CASE \E r \in Request : Serve(r)
  BY <1>3 DEF Serve, LookUp, Bind, Bound, Build, Resolve, ReadUsage, StoreUsage
<1>4. CASE \/ \E w \in Worker, r \in Request : Pick(w, r)
           \/ \E w \in Worker : Deliver(w) \/ Crash(w)
           \/ \E s \in Server, c \in Chat : Abort(s, c)
           \/ \E w \in Worker, c \in Chat : HandleAbort(w, c)
  BY <1>4 DEF Pick, Deliver, Crash, Abort, HandleAbort
<1> QED
  BY <1>1, <1>2, <1>3, <1>4 DEF Next

LEMMA SubscribedBefore ==
  ASSUME RelayInv, [Next]_vars, NEW r \in Request, Asked(r), AloneInChat(r),
         ChatOf(r) \in subscribed'[ServerOf(r)]
  PROVE  ChatOf(r) \in subscribed[ServerOf(r)] \/ job[r].pc = "none"
<1>1. CASE UNCHANGED subscribed
  BY <1>1
<1>2. ASSUME NEW t \in subs, Subscribe(t), ChatOf(r) \notin subscribed[ServerOf(r)]
      PROVE  job[r].pc = "none"
  <2>1. /\ subscribed' = [subscribed EXCEPT ![t.server] = @ \cup {t.chat}]
        /\ subscribed \in [Server -> SUBSET Chat] /\ SubscriptionOK(t)
        /\ ServerOf(r) \in Server
    BY <1>2 DEF Subscribe, SubscribeEnd, RelayInv, BindInv, AskedInv
  <2>2. t.server = ServerOf(r) /\ t.chat = ChatOf(r)
    BY <1>2, <2>1
  <2>3. \A q \in Request : ChatOf(q) = t.chat => q = r
    BY <2>2 DEF AloneInChat
  <2>4. PICK q \in Request : \/ t = Token(ServerOf(q), ChatOf(q), By(q)) /\ Waits(q)
                             \/ AskedElsewhere(q, t.server, t.chat)
    BY <2>1 DEF SubscriptionOK
  <2>5. CASE t = Token(ServerOf(q), ChatOf(q), By(q)) /\ Waits(q)
    <3>1. Waits(r)
      BY <2>3, <2>5 DEF Token
    <3> QED
      BY <3>1 DEF Waits, RelayInv, OutboxInv, Jobless, Early
  <2>6. CASE AskedElsewhere(q, t.server, t.chat)
    BY <2>2, <2>3, <2>6 DEF AskedElsewhere
  <2> QED
    BY <2>4, <2>5, <2>6
<1>3. ASSUME NEW t \in unsubs, Unsubscribe(t)
      PROVE  ChatOf(r) \in subscribed[ServerOf(r)]
  <2>1. /\ subscribed' = [subscribed EXCEPT ![t.server] = @ \ {t.chat}]
        /\ subscribed \in [Server -> SUBSET Chat] /\ ServerOf(r) \in Server
    BY <1>3 DEF Unsubscribe, UnsubscribeEnd, RelayInv, BindInv, AskedInv
  <2> QED
    BY <2>1
<1> QED
  BY <1>1, <1>2, <1>3, SubscribedSteps

LEMMA RestsUnmissed ==
  ASSUME NEW r, Rests(r), NEW n, Unmissed(r, n)
  PROVE  Unmissed(r, n)'
BY DEF Rests, Unmissed

LEMMA ResetsUnmissed ==
  ASSUME NEW r, Resets(r), NEW n \in Nat, n > 0
  PROVE  Unmissed(r, n)'
BY DEF Resets, Unmissed

LEMMA PublishesUnmissed ==
  ASSUME NEW r \in Request, Publishes(r), NEW n \in Nat, n =< job[r].sent + 1, Unmissed(r, n),
         job[r].sent \in Nat
  PROVE  Unmissed(r, n)'
<1>1. Under(r, n)'
  <2>1. CASE n = job[r].sent + 1
    BY <2>1 DEF Publishes
  <2>2. CASE n # job[r].sent + 1
    <3>1. n =< job[r].sent
      BY <2>2
    <3> QED
      BY <3>1 DEF Unmissed, Publishes
  <2> QED
    BY <2>1, <2>2
<1> QED
  BY <1>1 DEF Unmissed

(* A job that was not started has missed nothing.                          *)
LEMMA UnstartedUnmissed ==
  ASSUME RelayInv, [Next]_vars, NEW r \in Request, job[r].pc = "none", NEW n \in Nat, n > 0
  PROVE  Unmissed(r, n)'
<1>1. job[r].sent = 0 /\ OutboxInv /\ AbortInv /\ AskedInv
  BY DEF RelayInv, OutboxInv
<1>2. \A m : ~ Under(r, m)
  BY <1>1, UnderFacts
<1>3. CASE Rests(r)
  BY <1>2, <1>3 DEF Rests, Unmissed
<1>4. CASE Resets(r)
  BY <1>4, ResetsUnmissed
<1>5. ~ Publishes(r) /\ ~ StreamStep(r)
  BY DEF Publishes, StreamStep, Emit
<1>6. \A e : ~ Arrives(r, e)
  BY <1>2 DEF Arrives
<1> QED
  BY <1>1, <1>3, <1>4, <1>5, <1>6, JobSteps

(* What follows an event of r that was shown is not missed.                *)
LEMMA ShownUnmissed ==
  ASSUME RelayInv, RunsInv, NEW e, NEW r \in Request, r = e.job, e.n \in Nat,
         StreamsAs(e) \/ Arrives(r, e)
  PROVE  job'[r].try = job[r].try /\ Unmissed(r, e.n + 1)'
<1>1. PICK n \in Nat : n = e.n + 1
  OBVIOUS
<1>0. job[r].sent \in Nat /\ OutboxInv
  BY DEF RelayInv, AbortInv, ShapeInv, JobRow
<1>2. CASE StreamsAs(e)
  <2>1. /\ outbox' = outbox /\ mode # "queue" /\ e.n = job[r].sent + 1
        /\ job' = [job EXCEPT ![r].sent = @ + 1]
    BY <1>2 DEF StreamsAs, StreamStep, Emit
  <2>2. job'[r].sent = job[r].sent + 1 /\ job'[r].try = job[r].try
    BY <2>1 DEF RelayInv, AbortInv, ShapeInv, JobRow
  <2>3. \A m : ~ Under(r, m)'
    BY <1>0, <2>1, UnderFacts, UnderSame
  <2>4. ~ (n =< job'[r].sent)
    BY <1>0, <1>1, <2>1, <2>2
  <2>5. Unmissed(r, n)'
    BY <2>3, <2>4 DEF Unmissed
  <2> QED
    BY <1>1, <2>2, <2>5
<1>3. CASE Arrives(r, e)
  <2>1. /\ job'[r] = job[r] /\ Under(r, e.n)
        /\ \A m : Under(r, m)' => Under(r, m) /\ e.n < m
    BY <1>3 DEF Arrives
  <2>2. ASSUME n =< job[r].sent PROVE Under(r, n)'
    <3>1. Under(r, n)
      BY <1>1, <2>1, <2>2 DEF RunsInv
    <3>2. n # e.n
      BY <1>1
    <3> QED
      BY <1>3, <3>1, <3>2 DEF Arrives
  <2>3. ASSUME NEW m, Under(r, m)' PROVE Under(r, n)'
    <3>1. m \in Nat /\ m =< job[r].sent /\ e.n < m
      BY <1>0, <2>1, <2>3, UnderFacts
    <3> QED
      BY <1>0, <1>1, <2>2, <3>1
  <2>4. Unmissed(r, n)'
    BY <2>1, <2>2, <2>3 DEF Unmissed
  <2> QED
    BY <1>1, <2>1, <2>4
<1> QED
  BY <1>2, <1>3

LEMMA StepInvStays ==
  ASSUME Overlap = FALSE, RelayInv, OrderInv, RunsInv, StepInv, [Next]_vars
  PROVE  StepInv'
<1> SUFFICES ASSUME NEW r \in Request, Asked(r)', AloneInChat(r)', Attached(r)', Expecting(r)',
                    NEW n \in Nat, Awaited(r, n)'
             PROVE  Unmissed(r, n)'
  BY DEF StepInv
<1>0. AbortInv /\ AskedInv /\ OutboxInv /\ relay \in RelayRow
  BY DEF RelayInv, ClientInv
<1>1. n > 0 /\ relay' \in RelayRow
  <2>1. relay' \in RelayRow
    BY RelayInvStays DEF RelayInv, ClientInv
  <2>2. Follows(n, relay'.log[r], r, job'[r].try)
    BY DEF Awaited
  <2> QED
    BY <2>1, <2>2, FollowsFacts
<1>2. CASE job[r].pc = "none"
  BY <1>1, <1>2, UnstartedUnmissed
<1>3. CASE job[r].pc # "none"
  <2>1. Asked(r) /\ ~ Early(r) /\ Goes(r)
    <3>1. ~ Jobless(r)
      BY <1>0, <1>3 DEF OutboxInv
    <3> QED
      BY <1>0, <3>1, RequestsGo DEF Jobless, Early, Starts, Asked, At
  <2>2. AloneInChat(r)
    BY <1>0, <2>1, AloneStays, RequestsGo
  <2>3. /\ ServerOf(r)' = ServerOf(r) /\ ChatOf(r)' = ChatOf(r) /\ req'[r].kind = req[r].kind
        /\ mode' = mode
    BY <2>1, SetupStays DEF Goes, ServerOf, ChatOf, mode
  <2>4. ServerOf(r) \in Server /\ ChatOf(r) \in Chat /\ r \in Conn
    BY <1>0, <2>1, Disjoint DEF AskedInv
  <2>5. /\ Holds(relay', r, ServerOf(r), ChatOf(r))
        /\ mode = "queue" => ChatOf(r) \in subscribed'[ServerOf(r)]
    BY <2>3 DEF Attached, Holds
  <2>6. ASSUME Attached(r), \A x : x.what = "event" /\ x.job = r =>
                                     (x \in relay'.log[r] <=> x \in relay.log[r])
        PROVE  /\ Awaited(r, n) /\ job'[r].try = job[r].try => Unmissed(r, n)
               /\ job'[r].try = job[r].try => Awaited(r, n)
    <3>1. Shown(relay'.log[r], r) = Shown(relay.log[r], r)
      BY <2>6 DEF Shown
    <3>2. Expecting(r)
      BY <2>3, <3>1 DEF Expecting
    <3>3. job'[r].try = job[r].try => Awaited(r, n)
      BY <3>1 DEF Awaited, Follows
    <3> QED
      BY <2>1, <2>2, <2>6, <3>2, <3>3 DEF StepInv
  <2>7. CASE /\ SameEvents(relay, relay')
             /\ \A q \in Request : HeldBefore(relay, relay', q) \/ JoinStep(q)
             /\ \A q \in Request : ~ StreamStep(q)
             /\ \A w \in Worker : ~ Deliver(w)
    <3>1. Attached(r)
      <4>1. Holds(relay, r, ServerOf(r), ChatOf(r))
        BY <2>1, <2>4, <2>5, <2>7 DEF HeldBefore, JoinStep
      <4>2. mode = "queue" => ChatOf(r) \in subscribed[ServerOf(r)]
        BY <1>3, <2>1, <2>2, <2>5, SubscribedBefore
      <4> QED
        BY <4>1, <4>2 DEF Attached
    <3>2. job'[r].try = job[r].try => Awaited(r, n) /\ Unmissed(r, n)
      BY <2>4, <2>6, <2>7, <3>1 DEF SameEvents
    <3>3. CASE Rests(r)
      <4>1. Unmissed(r, n)
        BY <3>2, <3>3 DEF Rests
      <4> QED
        BY <3>3, <4>1, RestsUnmissed
    <3>4. CASE Resets(r)
      BY <1>1, <3>4, ResetsUnmissed
    <3>5. CASE Publishes(r)
      <4>1. Awaited(r, n) /\ Unmissed(r, n)
        BY <3>2, <3>5 DEF Publishes
      <4>2. n =< job[r].sent + 1 /\ job[r].sent \in Nat
        BY <1>0, <4>1, AwaitedNext DEF AbortInv, ShapeInv, JobRow
      <4> QED
        BY <3>5, <4>1, <4>2, PublishesUnmissed
    <3> QED
      BY <1>0, <2>7, <3>3, <3>4, <3>5, JobSteps
  <2>8. ASSUME NEW e, NEW conns, Shows(e, conns), StreamsAs(e) \/ Arrives(e.job, e)
        PROVE  Unmissed(r, n)'
    <3>1. Attached(r)
      BY <2>3, <2>5, <2>8 DEF Shows, Attached, Holds
    <3>2. relay'.log[r] = IF r \in conns /\ relay.line[r] # "gone" THEN Recorded(relay.log[r], e)
                          ELSE relay.log[r]
      BY <2>4, <2>8 DEF Shows, Wrote
    <3>3. CASE e.job = r
      <4>1. relay'.log[r] = Recorded(relay.log[r], e)
        BY <2>8, <3>1, <3>2, <3>3 DEF Shows, Attached, Holds
      <4>2. Shown(relay'.log[r], r) = {e}
        BY <2>8, <3>3, <4>1 DEF Shown, Recorded, Replaces, Shows, EventEntry
      <4>3. e.n \in Nat /\ e.try = job[r].try
        BY <2>8, <3>3 DEF Shows, EventEntry
      <4>4. job'[r].try = job[r].try /\ Unmissed(r, e.n + 1)'
        BY <2>8, <3>3, <4>3, ShownUnmissed
      <4>5. n = e.n + 1
        BY <4>2, <4>3, <4>4 DEF Awaited, Follows
      <4> QED
        BY <4>4, <4>5
    <3>4. CASE e.job # r
      <4>1. Rests(r)
        BY <2>8, <3>4 DEF Shows
      <4>2. \A x : x.what = "event" /\ x.job = r => (x \in relay'.log[r] <=> x \in relay.log[r])
        BY <3>2, <3>4 DEF Recorded, Replaces
      <4>3. Unmissed(r, n)
        BY <2>6, <3>1, <4>1, <4>2 DEF Rests
      <4> QED
        BY <4>1, <4>3, RestsUnmissed
    <3> QED
      BY <3>3, <3>4
  <2> QED
    BY <2>7, <2>8, WriteSteps
<1> QED
  BY <1>2, <1>3

StreamInv == RelayInv /\ OrderInv /\ RunsInv /\ StepInv

LEMMA StreamInvStarts == Init => StreamInv
<1> SUFFICES ASSUME Init PROVE OrderInv /\ RunsInv /\ StepInv
  BY RelayInvStarts DEF StreamInv
<1>1. \A k \in Conn : relay.log[k] = {}
  BY DEF Init, RelayInit
<1>2. \A r \in Request : ~ Asked(r)
  BY DEF Init, NewRequest, Asked, At
<1>3. \A w \in Worker : outbox[w] = <<>> /\ Len(outbox[w]) = 0
  BY EmptySeq DEF Init
<1>4. \A r, n : ~ Under(r, n)
  BY <1>3 DEF Under
<1> QED
  BY <1>1, <1>2, <1>4 DEF OrderInv, RunsInv, StepInv

LEMMA StreamInvStays ==
  ASSUME Overlap = FALSE, StreamInv, [Next]_vars
  PROVE  StreamInv'
BY RelayInvStays, OrderInvStays, RunsInvStays, StepInvStays DEF StreamInv, RelayInv

(* The event that a flow streams, or the first of those under way, is not  *)
(* later than one that was not missed.                                     *)
LEMMA ShownFirst ==
  ASSUME RelayInv, NEW e, NEW r \in Request, r = e.job, NEW n \in Nat, n > 0, Unmissed(r, n),
         StreamsAs(e) \/ Arrives(r, e)
  PROVE  e.n \in Nat /\ e.n =< n
<1>0. job[r].sent \in Nat /\ OutboxInv
  BY DEF RelayInv, AbortInv, ShapeInv, JobRow
<1>1. CASE StreamsAs(e)
  <2>1. mode # "queue" /\ e.n = job[r].sent + 1 /\ job[r].pc = "active"
    BY <1>1 DEF StreamsAs, StreamStep, Emit
  <2>2. ~ Under(r, n)
    BY <1>0, <2>1, UnderFacts
  <2>3. ~ (n =< job[r].sent)
    BY <2>1, <2>2 DEF Unmissed
  <2> QED
    BY <1>0, <2>1, <2>3
<1>2. CASE Arrives(r, e)
  <2>1. Under(r, e.n)
    BY <1>2 DEF Arrives
  <2>2. Under(r, n) /\ e.n \in Nat
    BY <1>0, <2>1, UnderFacts DEF Unmissed
  <2>3. n = e.n \/ e.n < n
    BY <1>2, <2>2 DEF Arrives
  <2> QED
    BY <2>2, <2>3
<1> QED
  BY <1>1, <1>2

LEMMA ShownInOrder ==
  ASSUME Overlap = FALSE, StreamInv, [Next]_vars, NEW k \in Conn,
         NEW e \in relay'.log[k] \ relay.log[k], e.what = "event"
  PROVE  /\ \A x \in Shown(relay.log[k], e.job) : Later(e, x)
         /\ e.job = k /\ AloneInChat(k) => NoneMissed(e, k, relay.log[k])
<1>0. RelayInv /\ relay \in RelayRow /\ OrderInv
  BY DEF StreamInv, RelayInv, ClientInv
<1>1. ~ SameEvents(relay, relay')
  BY DEF SameEvents
<1>2. PICK d, conns : Shows(d, conns) /\ (StreamsAs(d) \/ Arrives(d.job, d))
  BY <1>0, <1>1, WriteSteps
<1>3. d = e /\ k \in conns /\ relay.line[k] # "gone"
  BY <1>2 DEF Shows, Wrote, Recorded
<1>4. Shows(e, conns) /\ (StreamsAs(e) \/ Arrives(e.job, e))
  BY <1>2, <1>3
<1>5. /\ e \in EventEntry /\ e.job \in Request /\ e.n \in Nat /\ e.n > 0 /\ e.try \in Nat
      /\ e.try = job[e.job].try /\ Asked(e.job)
  BY <1>4 DEF Shows, EventEntry
<1>6. ASSUME NEW x \in Shown(relay.log[k], e.job)
      PROVE  x \in EventEntry /\ x.try \in Nat /\ x.n \in Nat /\ Later(e, x)
  <2>1. x \in relay.log[k] /\ x.what = "event" /\ x.job = e.job
    BY DEF Shown
  <2>2. x \in EventEntry /\ x.try \in Nat /\ x.n \in Nat
    BY <1>0, <2>1, LogEntry
  <2>3. Passed(x)
    BY <1>0, <2>1 DEF OrderInv
  <2> QED
    BY <1>4, <2>1, <2>2, <2>3 DEF Shows
<1>7. ASSUME e.job = k, AloneInChat(k) PROVE NoneMissed(e, k, relay.log[k])
  <2>1. k \in Request /\ Asked(k) /\ Attached(k)
    BY <1>3, <1>4, <1>5, <1>7 DEF Shows
  <2>2. ASSUME NEW n, Expecting(k), Awaited(k, n) PROVE e.n =< n
    <3>1. n \in Nat /\ n > 0
      BY <1>0, <2>1, <2>2, AwaitedNext
    <3>2. Unmissed(k, n)
      BY <1>7, <2>1, <2>2, <3>1 DEF StreamInv, StepInv
    <3> QED
      BY <1>0, <1>4, <1>7, <2>1, <3>1, <3>2, ShownFirst
  <2>3. CASE Shown(relay.log[k], k) = {}
    <3>1. Awaited(k, 1)
      BY <2>3 DEF Awaited, Follows
    <3>2. req[k].kind = "predict" => e.n =< 1
      BY <2>2, <3>1 DEF Expecting
    <3> QED
      BY <1>5, <2>3, <3>2 DEF NoneMissed
  <2>4. CASE Shown(relay.log[k], k) # {}
    <3>1. Expecting(k)
      BY <2>4 DEF Expecting
    <3>2. ASSUME NEW x \in Shown(relay.log[k], k)
          PROVE  e.n = IF e.try = x.try THEN x.n + 1 ELSE 1
      <4>1. x \in Shown(relay.log[k], e.job)
        BY <1>7
      <4>2. x.try \in Nat /\ x.n \in Nat /\ Later(e, x)
        BY <1>6, <4>1
      <4>3. CASE e.try = x.try
        <5>1. Awaited(k, x.n + 1)
          BY <1>5, <1>7, <4>3 DEF Awaited, Follows
        <5>2. e.n =< x.n + 1
          BY <2>2, <3>1, <5>1
        <5> QED
          BY <1>5, <4>2, <4>3, <5>2 DEF Later
      <4>4. CASE e.try # x.try
        <5>1. \A z \in Shown(relay.log[k], k) : z = x
          BY <1>0 DEF Shown, OrderInv
        <5>2. Awaited(k, 1)
          BY <1>5, <1>7, <4>4, <5>1 DEF Awaited, Follows
        <5>3. e.n =< 1
          BY <2>2, <3>1, <5>2
        <5> QED
          BY <1>5, <4>4, <5>3
      <4> QED
        BY <4>3, <4>4
    <3> QED
      BY <2>4, <3>2 DEF NoneMissed
  <2> QED
    BY <2>3, <2>4
<1> QED
  BY <1>6, <1>7

(* The events of an execution reach a response in the order in which its   *)
(* flow streamed them, over Redis (RedisEventPublisher, 58) as in memory   *)
(* (safeWrite, 71), with those of a retry after those of the attempt that  *)
(* a crash cut off; and the response to a request that is alone in its     *)
(* chat shows no event after a gap: those it shows of an attempt follow    *)
(* one another, of a prediction from the first on.  That it shows the last *)
(* ones too is not said, and in queue mode not so.                         *)
THEOREM EventsInOrder ==
  ASSUME Overlap = FALSE
  PROVE  Spec => StreamInOrder
<1>1. StreamInv /\ [Next]_vars =>
        [\A k \in Conn : \A e \in relay'.log[k] \ relay.log[k] :
           e.what = "event" =>
             /\ \A x \in Shown(relay.log[k], e.job) : Later(e, x)
             /\ e.job = k /\ AloneInChat(k) => NoneMissed(e, k, relay.log[k])]_vars
  BY ShownInOrder
<1> QED
  BY <1>1, StreamInvStarts, StreamInvStays, PTL DEF Spec, StreamInOrder
-----------------------------------------------------------------------------
(* The stream of a response.                                               *)

(* An event written to a response takes the place of its job's last one,   *)
(* and leaves the events of other jobs.                                    *)
LEMMA RecordedShows ==
  ASSUME NEW log, NEW e, e.what = "event", NEW j
  PROVE  Shown(Recorded(log, e), j) = IF e.job = j THEN {e} ELSE Shown(log, j)
<1>1. \A x : x.what = "event" => (Replaces(e, x) <=> x.job = e.job)
  BY DEF Replaces
<1>2. \A x : x \in Shown(Recorded(log, e), j)
             <=> (IF e.job = j THEN x = e ELSE x \in Shown(log, j))
  BY <1>1 DEF Shown, Recorded
<1> QED
  BY <1>2

LEMMA StreamTypes == StreamInv => Stream!States
<1> SUFFICES ASSUME StreamInv PROVE Stream!States
  OBVIOUS
<1>1. relay \in RelayRow
  BY DEF StreamInv, RelayInv, ClientInv
<1>2. lineBar \in [Request -> {"none", "open", "gone", "ended"}]
  BY <1>1 DEF lineBar, RelayRow, Conn
<1>3. shownBar \in [Request -> SUBSET (Nat \X Nat)]
  <2> SUFFICES ASSUME NEW r \in Request, NEW x \in Shown(relay.log[r], r)
               PROVE  <<x.try, x.n>> \in Nat \X Nat
    BY DEF shownBar
  <2>1. x \in relay.log[r] /\ x.what = "event" /\ r \in Conn
    BY DEF Shown, Conn
  <2> QED
    BY <1>1, <2>1, LogEntry
<1>4. missesBar \in [Request -> SUBSET {"start", "middle"}]
  BY DEF missesBar
<1> QED
  BY <1>2, <1>3, <1>4 DEF Stream!States

LEMMA StreamStarts == Init => Stream!Init
<1> SUFFICES ASSUME Init PROVE Stream!Init
  OBVIOUS
<1>1. Stream!States
  BY StreamTypes, StreamInvStarts
<1>2. \A r \in Request : relay.line[r] = "none" /\ relay.log[r] = {}
  BY DEF Init, RelayInit, Conn
<1>3. \A r \in Request : lineBar[r] = "none" /\ shownBar[r] = {}
  BY <1>2 DEF lineBar, shownBar, Shown
<1> QED
  BY <1>1, <1>3 DEF Stream!Init

(* A chat that has one request may get a second one, never the reverse.    *)
LEMMA MissesGrow ==
  ASSUME RelayInv, [Next]_vars, NEW r \in Request, Asked(r)
  PROVE  missesBar[r] \subseteq missesBar'[r]
<1>1. AbortInv /\ AskedInv
  BY DEF RelayInv
<1>2. Goes(r) /\ \A q \in Request : Goes(q) \/ Starts(q)
  BY <1>1, RequestsGo DEF Starts, Asked
<1>3. AloneInChat(r)' => AloneInChat(r)
  BY <1>1, <1>2, AloneStays
<1>4. req'[r].kind = req[r].kind
  BY <1>2 DEF Goes
<1> QED
  BY <1>3, <1>4 DEF missesBar

(* A response opens when its request joins, and closes once.               *)
Turns(y, z, r) ==
  \/ z.line[r] = y.line[r]
  \/ y.line[r] = "open" /\ z.line[r] \in {"gone", "ended"}

LEMMA EndTurns ==
  ASSUME ClientInv, NEW q \in Request, NEW y, EndStep(q, y), NEW r \in Request
  PROVE  Turns(relay, relay', r)
<1>1. PICK s \in Server, c \in Chat : s = ServerOf(q) /\ c = ChatOf(q)
  BY DEF EndStep
<1>2. y \in RelayRow /\ ClientRules(y) /\ relay \in RelayRow /\ r \in Conn
  BY EndRules DEF ClientInv, Conn
<1>3. y.line = relay.line
  <2>1. CASE y = relay
    BY <2>1
  <2>2. CASE y # relay
    <3>1. PICK what \in {"error", "metadata"} : y = SafeWrite(relay, s, c, Note(what, c))
      BY <1>1, <2>2 DEF EndStep
    <3>2. Note(what, c) \in Entry
      BY NoteFacts, Disjoint
    <3>3. /\ y.line = relay.line
          /\ Wrote(relay, y, Lines(relay, s, {c} \cup relay.observers[s][c]), Note(what, c))
      BY <1>2, <3>1, <3>2, SafeWriteFacts
    <3> QED
      BY <3>3
  <2> QED
    BY <2>1, <2>2
<1>4. CASE relay' = y
  BY <1>3, <1>4 DEF Turns
<1>5. CASE relay' = RemoveClient(y, s, c)
  <2>1. PICK x \in RelayRow : x = Ended(y, s, c) /\ relay'.line = x.line
    BY <1>2, <1>5, RemoveChatFacts
  <2>2. /\ Wrote(y, x, {y.clients[s][c]}, Note("end", c))
        /\ \A k \in Conn : x.line[k] = IF k = y.clients[s][c] /\ y.line[k] # "gone" THEN "ended"
                                       ELSE y.line[k]
    <3>1. c \in ClientId /\ x = Ended(y, s, c) /\ y \in RelayRow /\ s \in Server
      BY <1>2, <2>1, Disjoint
    <3> QED
      BY <3>1, EndedFacts
  <2>3. r = y.clients[s][c] => y.line[r] \in {"open", "gone"}
    BY <1>2, Disjoint DEF ClientRules, Served
  <2> QED
    BY <1>2, <1>3, <2>1, <2>2, <2>3 DEF Turns
<1> QED
  BY <1>1, <1>4, <1>5 DEF EndStep

LEMMA ComeOrGoTurns ==
  ASSUME ClientInv, ComeOrGo, NEW r \in Request
  PROVE  Turns(relay, relay', r)
<1>0. relay \in RelayRow /\ r \in Conn
  BY DEF ClientInv, Conn
<1>1. ASSUME NEW q \in Request, HangUp(q) PROVE Turns(relay, relay', r)
  <2>1. relay.line[q] = "open" /\ relay' = [relay EXCEPT !.line[q] = "gone"]
    BY <1>1 DEF HangUp
  <2>2. PICK line : line = [relay.line EXCEPT ![q] = "gone"]
    OBVIOUS
  <2>3. relay'.line = line
    BY <1>0, <2>1, <2>2 DEF RelayRow
  <2>4. line[r] = IF r = q THEN "gone" ELSE relay.line[r]
    BY <1>0, <2>2 DEF RelayRow
  <2> QED
    BY <2>1, <2>3, <2>4 DEF Turns
<1>2. ASSUME NEW s \in Server, NEW c \in Chat, DropDead(s, c) PROVE Turns(relay, relay', r)
  <2>1. relay' = [relay EXCEPT !.clients[s][c] = NoConn]
    BY <1>2 DEF DropDead
  <2>2. relay'.line = relay.line
    BY <1>0, <2>1 DEF RelayRow
  <2> QED
    BY <2>2 DEF Turns
<1>3. ASSUME NEW l \in Listener, NEW s \in Server, OpenListener(l, s)
      PROVE  Turns(relay, relay', r)
  <2>1. relay' = AddClient(relay, s, l, l) /\ l \in ClientId /\ l \in Conn /\ r # l
    BY <1>3, Disjoint DEF OpenListener
  <2>2. relay'.line[r] = relay.line[r]
    BY <1>0, <2>1, AddClientFacts
  <2> QED
    BY <2>2 DEF Turns
<1>4. ASSUME NEW l \in Listener, CloseListener(l) PROVE Turns(relay, relay', r)
  <2>1. PICK s : s = listener[l].server
    OBVIOUS
  <2>2. /\ s \in Server /\ relay.clients[s][l] = l
        /\ relay' = RemoveClient(relay, s, l)
    BY <1>4, <2>1 DEF CloseListener, ClientInv, ClientRules, Homed, Listens
  <2>3. PICK x \in RelayRow : x = Ended(relay, s, l) /\ relay'.line = x.line
    BY <1>0, <2>2, RemoveListenerFacts
  <2>4. /\ Wrote(relay, x, {relay.clients[s][l]}, Note("end", l))
        /\ \A k \in Conn : x.line[k] = IF k = relay.clients[s][l] /\ relay.line[k] # "gone"
                                       THEN "ended" ELSE relay.line[k]
    <3>1. l \in ClientId /\ x = Ended(relay, s, l) /\ relay \in RelayRow /\ s \in Server
      BY <1>0, <2>2, <2>3, Disjoint
    <3> QED
      BY <3>1, EndedFacts
  <2>5. r # l
    BY Disjoint
  <2> QED
    BY <1>0, <2>2, <2>3, <2>4, <2>5 DEF Turns
<1> QED
  BY <1>1, <1>2, <1>3, <1>4 DEF ComeOrGo

LEMMA LineSteps ==
  ASSUME Overlap = FALSE, RelayInv, [Next]_vars, NEW r \in Request
  PROVE  Turns(relay, relay', r) \/ JoinStep(r)
<1>0. AbortInv /\ ReadInv /\ AskedInv /\ BindInv /\ ClientInv /\ relay \in RelayRow /\ r \in Conn
  BY DEF RelayInv, ClientInv, Conn
<1>1. CASE QuietStep
  BY <1>1 DEF QuietStep, Turns
<1>2. CASE ComeOrGo
  BY <1>0, <1>2, ComeOrGoTurns
<1>3. ASSUME NEW q \in Request, JoinStep(q), q # r PROVE Turns(relay, relay', r)
  <2>1. PICK s \in Server, c \in Chat : relay' = AddClient(relay, s, c, q)
    BY <1>3 DEF JoinStep, ServerOf, ChatOf
  <2>2. c \in ClientId /\ q \in Conn
    BY Disjoint
  <2>3. relay'.line[r] = relay.line[r]
    BY <1>0, <1>3, <2>1, <2>2, AddClientFacts
  <2> QED
    BY <2>3 DEF Turns
<1>4. ASSUME NEW q \in Request, NEW y, EndStep(q, y) PROVE Turns(relay, relay', r)
  BY <1>0, <1>4, EndTurns
<1>5. ASSUME NEW q, NEW s, NEW c, NEW l, ObserveStep(q, s, c, l) PROVE Turns(relay, relay', r)
  BY <1>0, <1>5, AddObserverFacts DEF ObserveStep, Turns
<1>6. ASSUME NEW q \in Request, StreamStep(q) PROVE Turns(relay, relay', r)
  BY <1>6, StreamShows DEF Shows, Turns
<1>7. ASSUME NEW w \in Worker, Deliver(w) PROVE Turns(relay, relay', r)
  BY <1>7, DeliverShows DEF Shows, Turns
<1> QED
  BY <1>0, <1>1, <1>2, <1>3, <1>4, <1>5, <1>6, <1>7, RelaySteps

(* What a step shows to the response to r, which it may open or close.     *)
SameStream(r) ==
  Shown(relay'.log[r], r) = Shown(relay.log[r], r)

NextShown(r, e) ==
  /\ relay.line[r] = "open" /\ relay'.line[r] = "open" /\ Asked(r)
  /\ Shown(relay'.log[r], r) = {e} /\ e.try \in Nat /\ e.n \in Nat
  /\ \A x \in Shown(relay.log[r], r) : x.try \in Nat /\ x.n \in Nat /\ Later(e, x)
  /\ AloneInChat(r) => NoneMissed(e, r, relay.log[r])

LEMMA StreamWrites ==
  ASSUME Overlap = FALSE, StreamInv, [Next]_vars, NEW r \in Request
  PROVE  SameStream(r) \/ \E e : NextShown(r, e)
<1>0. RelayInv /\ relay \in RelayRow /\ OrderInv /\ r \in Conn /\ Served(relay)
  BY DEF StreamInv, RelayInv, ClientInv, ClientRules, Conn
<1>1. CASE SameEvents(relay, relay')
  BY <1>0, <1>1 DEF SameEvents, SameStream, Shown
<1>2. ASSUME NEW e, NEW conns, Shows(e, conns) PROVE SameStream(r) \/ NextShown(r, e)
  <2>1. /\ e \in EventEntry /\ e.what = "event" /\ e.try \in Nat /\ e.n \in Nat /\ Asked(e.job)
        /\ relay'.line = relay.line
    BY <1>2 DEF Shows, EventEntry
  <2>2. CASE ~ (r \in conns /\ relay.line[r] # "gone" /\ e.job = r)
    <3>1. relay'.log[r] = relay.log[r] \/ (e.job # r /\ relay'.log[r] = Recorded(relay.log[r], e))
      BY <1>0, <1>2, <2>2 DEF Shows, Wrote
    <3> QED
      BY <2>1, <3>1, RecordedShows DEF SameStream
  <2>3. CASE r \in conns /\ relay.line[r] # "gone" /\ e.job = r
    <3>1. relay'.log[r] = Recorded(relay.log[r], e)
      BY <1>0, <1>2, <2>3 DEF Shows, Wrote
    <3>2. Attached(r) /\ Asked(r)
      BY <1>2, <2>1, <2>3 DEF Shows
    <3>3. relay.line[r] = "open"
      <4>1. ServerOf(r) \in Server /\ ChatOf(r) \in Chat
        BY <1>0, <3>2 DEF RelayInv, AskedInv
      <4> QED
        BY <1>0, <2>3, <3>2, <4>1, Disjoint DEF Attached, Holds, Served
    <3>4. \A x \in Shown(relay.log[r], r) : x.try \in Nat /\ x.n \in Nat /\ Later(e, x)
      <4> SUFFICES ASSUME NEW x \in Shown(relay.log[r], r)
                   PROVE  x.try \in Nat /\ x.n \in Nat /\ Later(e, x)
        OBVIOUS
      <4>1. x \in relay.log[r] /\ x.what = "event" /\ x.job = r
        BY DEF Shown
      <4>2. x \in EventEntry /\ x.try \in Nat /\ x.n \in Nat /\ Passed(x)
        BY <1>0, <4>1, LogEntry DEF OrderInv
      <4> QED
        BY <1>2, <2>3, <4>1, <4>2 DEF Shows
    <3>5. e \in relay'.log[r] \ relay.log[r]
      <4>1. e \in relay'.log[r]
        BY <3>1 DEF Recorded
      <4>2. ASSUME e \in relay.log[r] PROVE FALSE
        <5>1. Later(e, e)
          BY <2>1, <2>3, <3>4, <4>2 DEF Shown
        <5> QED
          BY <2>1, <5>1 DEF Later
      <4> QED
        BY <4>1, <4>2
    <3>6. AloneInChat(r) => NoneMissed(e, r, relay.log[r])
      BY <1>0, <2>1, <2>3, <3>5, ShownInOrder
    <3>7. Shown(relay'.log[r], r) = {e}
      BY <2>1, <2>3, <3>1, RecordedShows
    <3>8. relay'.line[r] = "open"
      BY <2>1, <3>3
    <3> QED
      BY <2>1, <3>2, <3>3, <3>4, <3>6, <3>7, <3>8 DEF NextShown
  <2> QED
    BY <2>2, <2>3
<1> QED
  BY <1>0, <1>1, <1>2, WriteSteps

(* Each step of the requests, workers and servers is one of each response. *)
LEMMA ResponseSteps ==
  ASSUME Overlap = FALSE, StreamInv, [Next]_vars, NEW r \in Request
  PROVE  \/ Stream!Awaits(r) \/ Stream!Opens(r) \/ Stream!Rests(r)
         \/ Stream!Shows(r) \/ Stream!Closes(r)
<1>0. RelayInv /\ relay \in RelayRow /\ LinesOK(relay)
  BY DEF StreamInv, RelayInv, ClientInv, ClientRules
<1>1. /\ lineBar[r] = relay.line[r] /\ lineBar'[r] = relay'.line[r]
      /\ shownBar[r] = {<<x.try, x.n>> : x \in Shown(relay.log[r], r)}
      /\ shownBar'[r] = {<<x.try, x.n>> : x \in Shown(relay'.log[r], r)}
  BY DEF lineBar, shownBar, Shown
<1>2. SameStream(r) => shownBar'[r] = shownBar[r]
  BY <1>1 DEF SameStream
<1>3. Asked(r) => missesBar[r] \subseteq missesBar'[r]
  BY <1>0, MissesGrow
<1>4. Early(r) => relay.line[r] = "none" /\ relay.log[r] = {} /\ shownBar[r] = {}
  BY <1>0, <1>1 DEF LinesOK, Shown
<1>5. ~ Asked(r) => Early(r)
  BY DEF Asked, At, Early
<1>6. ASSUME NEW e, NextShown(r, e) PROVE Stream!Shows(r)
  <2>1. shownBar'[r] = {<<e.try, e.n>>}
    BY <1>1, <1>6 DEF NextShown
  <2>2. ASSUME shownBar[r] = {} PROVE e.n = 1 \/ "start" \in missesBar[r]
    <3>1. Shown(relay.log[r], r) = {}
      <4> SUFFICES ASSUME NEW x \in Shown(relay.log[r], r) PROVE FALSE
        OBVIOUS
      <4>1. <<x.try, x.n>> \in shownBar[r]
        BY <1>1
      <4> QED
        BY <2>2, <4>1
    <3>2. AloneInChat(r) => (req[r].kind = "predict" => e.n = 1)
      BY <1>6, <3>1 DEF NextShown, NoneMissed
    <3>3. ~ (AloneInChat(r) /\ req[r].kind = "predict") => "start" \in missesBar[r]
      BY DEF missesBar
    <3> QED
      BY <3>2, <3>3
  <2>3. ASSUME NEW y \in shownBar[r]
        PROVE  IF e.try = y[1] THEN e.n > y[2] /\ (e.n = y[2] + 1 \/ "middle" \in missesBar[r])
               ELSE e.try > y[1] /\ (e.n = 1 \/ "middle" \in missesBar[r])
    <3>1. PICK x \in Shown(relay.log[r], r) : y = <<x.try, x.n>>
      BY <1>1, <2>3
    <3>2. /\ x.try \in Nat /\ x.n \in Nat /\ Later(e, x) /\ e.try \in Nat /\ e.n \in Nat
          /\ AloneInChat(r) => e.n = IF e.try = x.try THEN x.n + 1 ELSE 1
      BY <1>6, <3>1 DEF NextShown, NoneMissed
    <3>3. ~ AloneInChat(r) => "middle" \in missesBar[r]
      BY DEF missesBar
    <3>4. y[1] = x.try /\ y[2] = x.n
      BY <3>1
    <3>5. IF e.try = x.try THEN e.n > x.n ELSE e.try > x.try
      BY <3>2 DEF Later
    <3> QED
      BY <3>2, <3>3, <3>4, <3>5
  <2>4. Stream!Follows(r, e.try, e.n)
    BY <2>2, <2>3 DEF Stream!Follows
  <2>5. \E x \in shownBar'[r] : shownBar'[r] = {x} /\ Stream!Follows(r, x[1], x[2])
    BY <2>1, <2>4
  <2> QED
    BY <1>1, <1>3, <1>6, <2>5 DEF NextShown, Stream!Shows
<1>7. CASE JoinStep(r)
  <2>1. PICK s \in Server, c \in Chat : relay' = AddClient(relay, s, c, r)
    BY <1>7 DEF JoinStep, ServerOf, ChatOf
  <2>2. c \in ClientId /\ r \in Conn
    BY Disjoint
  <2>3. relay'.log = relay.log /\ \A k \in Conn : relay'.line[k] = IF k = r THEN "open" ELSE relay.line[k]
    BY <1>0, <2>1, <2>2, AddClientFacts
  <2>4. relay'.line[r] = "open"
    BY <2>2, <2>3
  <2>5. SameStream(r) /\ Early(r)
    BY <1>7, <2>3 DEF SameStream, JoinStep
  <2> QED
    BY <1>1, <1>2, <1>4, <2>4, <2>5 DEF Stream!Opens
<1>8. CASE Turns(relay, relay', r) /\ SameStream(r)
  <2>1. CASE Asked(r)
    BY <1>1, <1>2, <1>3, <1>8, <2>1 DEF Turns, Stream!Rests, Stream!Closes
  <2>2. CASE ~ Asked(r)
    BY <1>1, <1>2, <1>4, <1>5, <1>8, <2>2 DEF Turns, Stream!Awaits
  <2> QED
    BY <2>1, <2>2
<1>9. SameStream(r) \/ \E e : NextShown(r, e)
  BY StreamWrites
<1>10. Turns(relay, relay', r) \/ JoinStep(r)
  BY <1>0, LineSteps
<1> QED
  BY <1>6, <1>7, <1>8, <1>9, <1>10

LEMMA StreamSteps ==
  ASSUME Overlap = FALSE, StreamInv, [Next]_vars, (Stream!States)'
  PROVE  Stream!Next
BY ResponseSteps DEF Stream!Next

(* Seen from its caller, each response is a stream as ResponseStream       *)
(* promises it: opened once, its events in order and without gaps but for  *)
(* those named there, and closed once, through retries, crashes, aborts,   *)
(* late deliveries and callers that leave (SSEStreamer, predictions 77).   *)
THEOREM ImplementsStream ==
  ASSUME Overlap = FALSE
  PROVE  Spec => RefinesStream
<1>1. StreamInv /\ [Next]_vars => StreamInv'
  BY StreamInvStays
<1>2. StreamInv /\ [Next]_vars /\ (Stream!States)' => [Stream!Next]_(Stream!streamVars)
  BY StreamSteps
<1> QED
  BY <1>1, <1>2, StreamInvStarts, StreamStarts, StreamTypes, PTL DEF Spec, RefinesStream, Stream!Spec
=============================================================================
