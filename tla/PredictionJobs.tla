--------------------------- MODULE PredictionJobs ---------------------------
(***************************************************************************)
(* Predictions and webhook executions: the handlers that open a response,  *)
(* check the quota, run the flow (in the server, or in queue mode as a job *)
(* that a worker picks up), relay its events, count it and end the         *)
(* response; and aborts of a running flow.                                 *)
(*                                                                         *)
(* A worker publishes events without waiting; they reach the servers in    *)
(* the order of its connection, before or after the queue has reported     *)
(* that the job is finished.  The queue hands the jobs of a worker that    *)
(* died to another one, once.                                              *)
(*                                                                         *)
(* Left out: the flow itself (AgentflowExecutor), of which a job shows its *)
(* events and its outcome; responses without streaming; the callback of an *)
(* asynchronous webhook; API keys, metrics and the period of a quota.      *)
(***************************************************************************)
EXTENDS EventRelay, Integers, Sequences

CONSTANTS
  Worker,
  NoJob,
  Setups,        \* [mode: MODE, limit: predictions quota, -1 for unlimited,
                 \*  calls: <<request, kind, server, chat>> clients may make,
                 \*  faults: bound on crashes, aborts, and clients that leave]
  Overlap,       \* may requests of one chat overlap?
  MaxEvents,     \* bound: events of an attempt
  MaxAttempts    \* attempts at a job before the queue gives up

Kinds == {"predict", "hook", "hookStream"}

ASSUME JobsAssumption ==
  /\ Setups \subseteq [mode: {"main", "queue"}, limit: Int, faults: Nat,
                       calls: SUBSET (Request \X Kinds \X Server \X Chat)]
  /\ Overlap \in BOOLEAN /\ {MaxEvents, MaxAttempts} \subseteq Nat
  /\ NoJob \notin Request /\ Server \cap Worker = {}

VARIABLES
  setup,         \* chosen at the start
  req, job,      \* requests, and the job of each
  outbox,        \* worker -> events published and not yet delivered
  pool,          \* server or worker -> chat -> the job its controller aborts
  aborts,        \* abort events that workers have not handled
  usage,         \* the count of predictions in the usage cache
  faults         \* how many so far

jobVars == <<req, job, outbox, pool, aborts, usage, faults>>
vars == <<relayVars, setup, jobVars>>

NewRequest == [pc |-> "idle", kind |-> "none", server |-> NoServer, chat |-> NoConn,
               todo |-> {}, seen |-> 0, refused |-> FALSE]

NewJob == [pc |-> "none", at |-> NoServer, try |-> 1, sent |-> 0, aborted |-> FALSE]

mode == setup.mode
limit == setup.limit

Init ==
  /\ RelayInit
  /\ setup \in Setups
  /\ req = [r \in Request |-> NewRequest]
  /\ job = [r \in Request |-> NewJob]
  /\ outbox = [w \in Worker |-> <<>>]
  /\ pool = [p \in Server \cup Worker |-> [c \in Chat |-> NoJob]]
  /\ aborts = {}
  /\ usage = 0
  /\ faults = 0

-----------------------------------------------------------------------------
(* Requests.                                                               *)

Busy(r) == req[r].pc \notin {"idle", "done"}
At(r, pc) == req[r].pc = pc
Moves(r, pc) == req' = [req EXCEPT ![r].pc = pc]
ServerOf(r) == req[r].server
ChatOf(r) == req[r].chat

(* A request is served; with one server in main mode.                      *)
Begins(r, kind, s, c) ==
  /\ <<r, kind, s, c>> \in setup.calls
  /\ At(r, "idle") /\ \A q \in Request : q < r => ~At(q, "idle")
  /\ Overlap \/ \A q \in Request : Busy(q) => ChatOf(q) # c
  /\ mode = "main" => \A t \in Server : (\E q \in Request : ServerOf(q) = t)
                        \/ (\E l \in Listener : listener[l].server = t) => t = s

Asks(r, kind, s, c, pc) ==
  req' = [req EXCEPT ![r] = [NewRequest EXCEPT !.pc = pc, !.kind = kind,
                                                !.server = s, !.chat = c]]

(* Mutant: the job is enqueued without waiting for the subscription.       *)
PcAfterSubscribeSoon(new) == "build"

PcAfterSubscribe(new) == IF new = {} THEN "build" ELSE "subscribing"

(* createPrediction: the response becomes a client, and the server         *)
(* subscribes to the chat before the flow is built.                        *)
BeginPrediction(r, s, c) ==
  /\ Begins(r, "predict", s, c)
  /\ relay' = AddClient(relay, s, c, r)
  /\ LET new == IF mode = "queue" THEN NewSubscriptions(s, c, By(r)) ELSE {}
     IN  subs' = subs \cup new /\ Asks(r, "predict", s, c, PcAfterSubscribe(new))
  /\ UNCHANGED <<subscribed, unsubs, listener, registry, binds, setup,
                 job, outbox, pool, aborts, usage, faults>>

(* createWebhook first binds the listeners of the flow to the chat.        *)
BeginWebhook(r, s, c, kind) ==
  /\ Begins(r, kind, s, c) /\ kind \in {"hook", "hookStream"}
  /\ Asks(r, kind, s, c, "lookup")
  /\ UNCHANGED <<relayVars, setup, job, outbox, pool, aborts, usage, faults>>

LookUp(r) ==
  /\ At(r, "lookup")
  /\ req' = [req EXCEPT ![r].pc = "bind", ![r].todo =
               {<<l, registry[l]>> : l \in {k \in Listener : registry[k] # NoServer}}]
  /\ UNCHANGED <<relayVars, setup, job, outbox, pool, aborts, usage, faults>>

(* bindExecution: a listener of this server observes at once, the server   *)
(* of another one is told.                                                 *)
Bind(r) ==
  /\ At(r, "bind")
  /\ \E entry \in req[r].todo :
       LET l == entry[1]
           s == entry[2]
           c == ChatOf(r)
           new == IF mode = "queue" THEN NewSubscriptions(s, c, By(r)) ELSE {}
           next == [req EXCEPT ![r].todo = @ \ {entry}]
       IN  IF s = ServerOf(r)
           THEN /\ relay' = AddObserver(relay, s, c, l)
                /\ subs' = subs \cup new
                /\ req' = IF new = {} THEN next ELSE [next EXCEPT ![r].pc = "binding"]
                /\ UNCHANGED binds
           ELSE /\ binds' = binds \cup {[server |-> s, chat |-> c, listener |-> l, by |-> r]}
                /\ req' = next
                /\ UNCHANGED <<relay, subs>>
  /\ UNCHANGED <<subscribed, unsubs, listener, registry, setup,
                 job, outbox, pool, aborts, usage, faults>>

(* A streaming webhook becomes a client; it does not subscribe.            *)
Bound(r) ==
  /\ At(r, "bind") /\ req[r].todo = {}
  /\ relay' = IF req[r].kind = "hookStream"
              THEN AddClient(relay, ServerOf(r), ChatOf(r), r) ELSE relay
  /\ Moves(r, "build")
  /\ UNCHANGED <<subscribed, subs, unsubs, listener, registry, binds, setup,
                 job, outbox, pool, aborts, usage, faults>>

(* Redis answers a subscription, and the request that waits for it goes on.*)
Subscribe(t) ==
  /\ SubscribeEnd(t)
  /\ req' = [r \in Request |->
               IF t.by # By(r) THEN req[r]
               ELSE CASE At(r, "subscribing") -> [req[r] EXCEPT !.pc = "build"]
                      [] At(r, "binding")     -> [req[r] EXCEPT !.pc = "bind"]
                      [] OTHER                -> req[r]]
  /\ UNCHANGED <<relay, unsubs, listener, registry, binds, setup,
                 job, outbox, pool, aborts, usage, faults>>

-----------------------------------------------------------------------------
(* The end of a request.                                                   *)

Streams(r) == req[r].kind \in {"predict", "hookStream"}

(* A prediction in queue mode unsubscribes before its response is ended;   *)
(* the others end it at once.                                              *)
Finishes(r, what, locals) ==
  LET s == ServerOf(r)
      c == ChatOf(r)
      y == IF Streams(r) THEN SafeWrite(relay, s, c, Note(what, c)) ELSE relay
      old == IF mode = "queue" /\ req[r].kind = "predict"
             THEN NewUnsubscriptions(s, c, By(r)) ELSE {}
  IN  /\ unsubs' = unsubs \cup old
      /\ relay' = IF old = {} THEN RemoveClient(y, s, c) ELSE y
      /\ req' = [req EXCEPT ![r] = [locals EXCEPT !.pc = IF old = {} THEN "done"
                                                         ELSE "unsubscribing"]]
      /\ UNCHANGED <<subscribed, subs, listener, registry, binds>>

Unsubscribe(t) ==
  /\ UnsubscribeEnd(t)
  /\ IF \E r \in Request : t.by = By(r)
     THEN \E r \in Request :
            /\ t.by = By(r)
            /\ relay' = RemoveClient(relay, t.server, t.chat)
            /\ Moves(r, "done")
     ELSE UNCHANGED <<relay, req>>
  /\ UNCHANGED <<subs, listener, registry, binds, setup,
                 job, outbox, pool, aborts, usage, faults>>

-----------------------------------------------------------------------------
(* The job.                                                                *)

(* Mutant: an unlimited plan is taken for an empty one.                    *)
SpentAlways == usage >= limit

(* checkPredictions.                                                       *)
Spent == limit # -1 /\ usage >= limit

(* Mutant: the controller of an earlier request of the chat is kept.       *)
PooledOnce(p, r) == [pool EXCEPT ![p][ChatOf(r)] = IF @ = NoJob THEN r ELSE @]

(* The controller of the chat is replaced.                                 *)
Pooled(p, r) == [pool EXCEPT ![p][ChatOf(r)] = r]

(* The server drops the controller of the chat from its pool; in queue     *)
(* mode it never had one.                                                  *)
Cleared(r) == [pool EXCEPT ![ServerOf(r)][ChatOf(r)] = NoJob]

(* The quota is checked, then the job is enqueued, or the flow runs here   *)
(* under a new controller.                                                 *)
Build(r) ==
  /\ At(r, "build")
  /\ IF Spent
     THEN /\ Finishes(r, "error", [req[r] EXCEPT !.refused = TRUE])
          /\ pool' = Cleared(r)
          /\ UNCHANGED job
     ELSE /\ Moves(r, "waiting")
          /\ IF mode = "queue"
             THEN job' = [job EXCEPT ![r].pc = "queued"] /\ UNCHANGED pool
             ELSE /\ job' = [job EXCEPT ![r].pc = "active", ![r].at = ServerOf(r)]
                  /\ pool' = Pooled(ServerOf(r), r)
          /\ UNCHANGED relayVars
  /\ UNCHANGED <<setup, outbox, aborts, usage, faults>>

(* processJob: a worker that takes a job gives it a controller.            *)
Pick(w, r) ==
  /\ job[r].pc = "queued"
  /\ job' = [job EXCEPT ![r].pc = "active", ![r].at = w]
  /\ pool' = Pooled(w, r)
  /\ UNCHANGED <<relayVars, setup, req, outbox, aborts, usage, faults>>

(* The flow streams an event.                                              *)
Emit(r) ==
  /\ job[r].pc = "active" /\ job[r].sent < MaxEvents
  /\ job' = [job EXCEPT ![r].sent = @ + 1]
  /\ LET e == Event(ChatOf(r), r, job[r].try, job[r].sent + 1)
     IN  IF mode = "queue"
         THEN outbox' = [outbox EXCEPT ![job[r].at] = Append(@, e)] /\ UNCHANGED relay
         ELSE relay' = SafeWrite(relay, ServerOf(r), ChatOf(r), e) /\ UNCHANGED outbox
  /\ UNCHANGED <<subscribed, subs, unsubs, listener, registry, binds,
                 setup, req, pool, aborts, usage, faults>>

Deliver(w) ==
  /\ outbox[w] # <<>>
  /\ outbox' = [outbox EXCEPT ![w] = Tail(@)]
  /\ relay' = Published(Head(outbox[w]).chat, Head(outbox[w]))
  /\ UNCHANGED <<subscribed, subs, unsubs, listener, registry, binds,
                 setup, req, job, pool, aborts, usage, faults>>

(* The flow ends; an aborted one may fail or return what it has.           *)
Finish(r) ==
  /\ job[r].pc = "active"
  /\ \E outcome \in {"done", "failed"} : job' = [job EXCEPT ![r].pc = outcome]
  /\ UNCHANGED <<relayVars, setup, req, outbox, pool, aborts, usage, faults>>

Resolve(r) ==
  /\ At(r, "waiting")
  /\ pool' = Cleared(r)
  /\ \/ /\ job[r].pc = "failed"
        /\ Finishes(r, "error", req[r])
     \/ /\ job[r].pc = "done"
        /\ Moves(r, "count")
        /\ UNCHANGED relayVars
  /\ UNCHANGED <<setup, job, outbox, aborts, usage, faults>>

(* updatePredictionsUsage reads the count, and stores it increased.        *)
ReadUsage(r) ==
  /\ At(r, "count")
  /\ req' = [req EXCEPT ![r].pc = "store", ![r].seen = usage]
  /\ UNCHANGED <<relayVars, setup, job, outbox, pool, aborts, usage, faults>>

(* A count of 0 is taken for a missing one.                                *)
Counted(n) == IF n = 0 THEN 1 ELSE IF n + 1 > limit THEN limit ELSE n + 1

StoreUsage(r) ==
  /\ At(r, "store")
  /\ usage' = Counted(req[r].seen)
  /\ Finishes(r, "metadata", [req[r] EXCEPT !.seen = 0])
  /\ UNCHANGED <<setup, job, outbox, pool, aborts, faults>>

-----------------------------------------------------------------------------
(* Aborts and failures.                                                    *)

Aborted(p, c) ==
  IF pool[p][c] = NoJob THEN job ELSE [job EXCEPT ![pool[p][c]].aborted = TRUE]

Fault == faults < setup.faults /\ faults' = faults + 1

(* abortChatMessage: the pool of the server, or an event to all workers.   *)
Abort(s, c) ==
  /\ Fault
  /\ IF mode = "queue"
     THEN /\ aborts' = aborts \cup {<<w, c>> : w \in Worker}
          /\ UNCHANGED <<job, pool>>
     ELSE /\ job' = Aborted(s, c)
          /\ pool' = [pool EXCEPT ![s][c] = NoJob]
          /\ UNCHANGED aborts
  /\ UNCHANGED <<relayVars, setup, req, outbox, usage>>

HandleAbort(w, c) ==
  /\ <<w, c>> \in aborts
  /\ aborts' = aborts \ {<<w, c>>}
  /\ job' = Aborted(w, c)
  /\ pool' = [pool EXCEPT ![w][c] = NoJob]
  /\ UNCHANGED <<relayVars, setup, req, outbox, usage, faults>>

(* A worker dies with its controllers and the events it has not sent; the  *)
(* queue finds its jobs stalled.                                           *)
Crash(w) ==
  /\ Fault
  /\ mode = "queue"
  /\ outbox' = [outbox EXCEPT ![w] = <<>>]
  /\ pool' = [pool EXCEPT ![w] = [c \in Chat |-> NoJob]]
  /\ aborts' = {a \in aborts : a[1] # w}
  /\ job' = [r \in Request |->
               IF job[r].pc # "active" \/ job[r].at # w THEN job[r]
               ELSE IF job[r].try = MaxAttempts THEN [job[r] EXCEPT !.pc = "failed"]
               ELSE [NewJob EXCEPT !.pc = "queued", !.try = job[r].try + 1]]
  /\ UNCHANGED <<relayVars, setup, req, usage>>

(* The client of a request, or a listener, goes away.                      *)
Leaves ==
  /\ Fault
  /\ (\E r \in Request : HangUp(r)) \/ (\E l \in Listener : CloseListener(l) \/ LoseListener(l))
  /\ UNCHANGED <<setup, req, job, outbox, pool, aborts, usage>>

-----------------------------------------------------------------------------
(* What moves the relay alone: listeners and dead clients, and what the    *)
(* servers do by themselves.                                               *)
Watchers ==
  /\ \/ \E l \in Listener, s \in Server :
          /\ mode = "main" => \A q \in Request : At(q, "idle") \/ ServerOf(q) = s
          /\ OpenListener(l, s)
     \/ \E s \in Server, c \in Chat : DropDead(s, c)
  /\ UNCHANGED <<setup, jobVars>>

Relays ==
  /\ \/ \E l \in Listener : Heartbeat(l) \/ Unregister(l)
     \/ \E m \in binds : HandleBind(m)
     \/ \E s \in Server : Cleanup(s)
  /\ UNCHANGED <<setup, jobVars>>

Begin(r) ==
  \E s \in Server, c \in Chat :
    BeginPrediction(r, s, c) \/ \E kind \in Kinds : BeginWebhook(r, s, c, kind)

Serve(r) ==
  \/ LookUp(r) \/ Bind(r) \/ Bound(r) \/ Build(r)
  \/ Resolve(r) \/ ReadUsage(r) \/ StoreUsage(r)

Redis == (\E t \in subs : Subscribe(t)) \/ (\E t \in unsubs : Unsubscribe(t))

Next ==
  \/ \E r \in Request : Begin(r) \/ Serve(r) \/ Emit(r) \/ Finish(r)
  \/ \E w \in Worker, r \in Request : Pick(w, r)
  \/ \E w \in Worker : Deliver(w) \/ Crash(w)
  \/ \E s \in Server, c \in Chat : Abort(s, c)
  \/ \E w \in Worker, c \in Chat : HandleAbort(w, c)
  \/ Redis \/ Leaves \/ Watchers \/ Relays

Spec == Init /\ [][Next]_vars

(* Redis answers, messages arrive, a flow ends, a worker is free for each  *)
(* job, and every step of a handler that can be taken is.  Clients and     *)
(* failures are never obliged to act.                                      *)
Fairness ==
  /\ \A r \in Request : WF_vars(Serve(r)) /\ WF_vars(Finish(r))
  /\ \A r \in Request : WF_vars(\E w \in Worker : Pick(w, r))
  /\ \A w \in Worker : WF_vars(Deliver(w))
  /\ WF_vars(Redis) /\ WF_vars(Relays)

FairSpec == Spec /\ Fairness
=============================================================================
