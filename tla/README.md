# CX-Builder in TLA+

TLA+ models of the server of CX-Builder (a Flowise 3.1.4 fork), model-checked with TLC
and, but for liveness, proved with TLAPS. Paths in this file are relative to
`src/packages/server/src/` unless they start with `packages/`.

## 1. The system

The server holds *chatflows* drawn on a canvas and runs them on request. Its own core
logic, as opposed to the node library and the UI, is about running flows: walking the
graph, keeping what was run in the database, stopping for a human and resuming, running
flows on a schedule, relaying events to clients and counting predictions.

| # | Component | State it keeps | Operations | Talks to |
|---|---|---|---|---|
| 1 | Agentflow graph analysis (`utils/buildAgentflow.ts` 653-842, `utils/index.ts` 155-223) | none | starting nodes, condition parents, expected inputs, ignored children | 2 |
| 2 | AgentFlow V2 executor (`utils/buildAgentflow.ts`) | locals of a run (queue, waiting nodes, loop counts, executed data, human input); `Execution` rows | start, resume, run a node, stop for a human, fail, abort, settle | 1, 3, 6, 8 |
| 3 | Executions service (`services/executions`) | `Execution` rows | share switch, delete, list | 2 |
| 4 | Schedule service and chatflow saves (`services/schedule`, `services/chatflows`) | `ScheduleRecord`, `ScheduleTriggerLog` rows | create or update, delete, toggle, status | 5 |
| 5 | Schedule beat and executor (`schedule/`, `queue/ScheduleQueue.ts`) | registered jobs (node-cron tasks or BullMQ schedulers) | init, upsert, remove, fire | 2, 4, 8 |
| 6 | Event relay (`utils/SSEStreamer.ts`, `queue/RedisEvent*.ts`, `services/webhook-listener`) | client connections, channel subscriptions, listener registry | subscribe, publish, unsubscribe, heartbeat | 2, 7 |
| 7 | Prediction jobs and abort (`utils/buildChatflow.ts`, `queue/PredictionQueue.ts`, `AbortControllerPool.ts`) | abort controllers by `chatflowId_chatId`, BullMQ jobs | enqueue, process, abort | 2, 6, 8 |
| 8 | Quotas (`utils/quotaUsage.ts`, `UsageCacheManager.ts`) | usage counters in a cache | check, update | 2, 5, 7 |
| 9 | Rate limiter (`utils/rateLimit.ts`) | limiters by chatflow, Redis queue events | initialise, update, disable | 4 (a chatflow save changes it) |
| 10 | Document store (`services/documentstore`) | `DocumentStore` rows with their loaders, `DocumentStoreFileChunk` rows | create, process, upsert, refresh, save a configuration, edit and delete chunks, loaders and stores | - |

Further parts named by the source tree that keep little state of their own or none in this
repository: sequential agents V1 (the graph is handed to LangGraph), vector upsert, cache pool, export and import, accounts and workspaces, evaluations, the
node library, the UI, the canvas packages and the API documentation. `PROJECT.json` lists each with
the reason it is left out.

### How the parts interact

- A prediction request (7) passes the rate limiter (9) and the quota check (8), becomes a
  call of `executeAgentFlow` (2) in the server process, or in a worker that takes it from
  BullMQ, and streams events through the relay (6).
- The executor asks the graph analysis (1) which nodes feed a node; it shares nothing with
  other requests except the `Execution` rows, which the executions service (3) also writes.
- An abort reaches the executor as an `AbortSignal`, looked at once per iteration. The signal belongs to
  a controller kept under flow and chat in the process that runs the flow (7); in queue mode every worker
  is told and the one that has the controller uses it.
- A response is a *client* of the server that holds its connection. In main mode the flow writes to it
  directly; in queue mode the worker publishes each event on the channel of the chat, and every server
  subscribed to that channel writes it to its client and to the webhook listeners that observe the chat (6).
- A chatflow save changes the limiter (9) before it stores the flow; in queue mode by an event that
  every server handles, the saving one included.
- A document store request (10) reads a row, works for seconds or minutes, and saves the whole row; it shares
  nothing else with the rest.
- Saving or deleting a chatflow (4) writes a `ScheduleRecord` and then tells the beat (5),
  which registers or removes a job; a firing job reads the record back, may disable it,
  and otherwise runs the flow through (2).

### What is hard

| Behaviour | Where | Treated in |
|---|---|---|
| Whole-row writes from copies read before an `await` | `utils/buildAgentflow.ts` 218-234, `services/executions` 110-131, `services/schedule` 69-130, 280-300 | AgentflowExecutor, ScheduleSync |
| Check of a state, then a later claim, by two requests | `utils/buildAgentflow.ts` 1784, 1866 | AgentflowExecutor |
| Joins: which inputs a node waits for, and that it runs once they came | `utils/buildAgentflow.ts` 653-842, 855-935 | AgentflowGraph, AgentflowExecutor |
| Stop for a human, resume, fail, retry, in long sequences | `utils/buildAgentflow.ts` 1773-1866, 2101-2162 | AgentflowExecutor, ExecutionLifecycle |
| Loop and iteration limits | `utils/buildAgentflow.ts` 915-935, 2020-2036 | AgentflowExecutor |
| A process that dies in the middle | everywhere | all modules but EventRelay, which PredictionJobs crashes |
| Two stores (records and jobs) kept equal by two separate calls | `schedule/ScheduleBeat.ts` 70-85 | ScheduleSync |
| Pagination over rows that change meanwhile | `schedule/ScheduleBeat.ts` 142-175 | ScheduleSync |
| Events that overtake the subscription, the end of the job or the end of the response | `queue/RedisEventSubscriber.ts` 52-103, `utils/SSEStreamer.ts` 61-141, `controllers/predictions` 76-92 | EventRelay, PredictionJobs |
| A worker that dies, and the second attempt at its job | `queue/BaseQueue.ts` 59-86 | PredictionJobs |
| Registry keyed by chat, which outlives the job in a worker | `AbortControllerPool.ts` | PredictionJobs |
| Read, add, write back of a counter | `utils/quotaUsage.ts` 86-126 | PredictionJobs |
| Limiters kept in every server, changed by events, set at the start from a table | `utils/rateLimit.ts` 151-202 | RateLimiter |
| Chunks, loaders and totals written by separate calls, any of which may fail | `services/documentstore` 319-536, 760-1088 | DocumentStore |
| Inserts in parallel, which go on after the first failure answered the request | `services/documentstore` 1047-1067 | DocumentStore |
| A client that leaves before its handler watches for that | `controllers/webhook-listener` 49-86 | EventRelay |

### What makes each component correct

1. Graph analysis: a node waits for exactly the sources under no decision node, and for one of
   each group under a common one; of a decision's children, those of unfulfilled outputs
   are skipped.
2. Executor: the state column never contradicts the executed data; a finished or
   terminated execution stays so; one answer opens one gate; joins wait; no branch is
   forgotten; loops are bounded; executions settle.
3. Executions service: a share switch or a deletion never revives or changes the outcome of an
   execution in a way that contradicts its data.
4. and 5. Schedules: the record follows the flow, the jobs follow the records, a job left
   over does not fire for ever, an overdue schedule gets disabled, the fallback
   expression never runs.
6. Relay: a response shows the events of a job in their order, a retry after the first attempt, and nothing
   after its end; the response to a prediction has no gap before an event it shows; listeners on the server of a
   request learn that its execution is over; channels are left when nobody is there.
7. Predictions: every request is answered; what runs can be aborted under the id of its chat.
8. Quotas: nobody is refused before the plan is used up.
9. Rate limiter: servers that heard of a change enforce the same limit, and without a named cause the
   stored one.
10. Document store: no chunk without its loader and store, but for inserts that outlive a failed request; the totals
    shown are those of the chunk table, but for loaders such a request left half changed; a refresh brings every loader it
    was asked for to SYNC.

## 2. The modules

| Module | What it is |
|---|---|
| `AgentflowGraph` | component 1 as operators on a flow |
| `AgentflowExecutor` | components 2 and 3 as a state machine |
| `ExecutionLifecycle` | abstract specification of an `Execution` row |
| `AgentflowProperties` | properties of the executor, refinement mapping |
| `MCAgentflow` | flows, bounds for TLC |
| `AgentflowProofs`, `AgentflowRowProofs`, `AgentflowGateProofs`, `AgentflowWalkProofs` | theorems about the executor: types, rows and their lifecycle, gates, joins, branches and loops |
| `ScheduleSync` | components 4 and 5 as a state machine |
| `ScheduleProperties`, `ScheduleProofs` | their properties and theorems |
| `MCSchedule` | settings for TLC |
| `EventRelay` | component 6: operations on clients, observers, subscriptions and listeners |
| `PredictionJobs` | components 7 and 8 as a state machine, composed with the relay |
| `ResponseStream` | abstract specification of the response to a request |
| `PredictionJobsProperties`, `PredictionJobsProofs` | their properties and theorems |
| `MCPredictionJobs` | who calls what, for TLC |
| `RateLimiter`, `RateLimiterProperties`, `RateLimiterProofs`, `MCRateLimiter` | component 9 |
| `DocumentStore`, `DocumentStoreProperties`, `DocumentStoreProofs`, `MCDocumentStore` | component 10 |

`EXTENDS` chains: AgentflowGraph <- Executor <- Properties <- MCAgentflow, and Properties <- Proofs <-
RowProofs, GateProofs <- WalkProofs; for the others, X <- XProperties <- MCX and XProofs, where PredictionJobs in
turn extends EventRelay (and the names of the schedule modules are ScheduleSync, ScheduleProperties and so on). AgentflowProperties INSTANCEs ExecutionLifecycle, and
PredictionJobsProperties INSTANCEs ResponseStream. Definitions named "Mutant" in a comment are wrong on purpose and used
by no specification: each is a plausible slip in the definition below it, and the property it is paired with in
`PROJECT.json` fails when it takes that definition's place.

### AgentflowGraph

A flow is a record of nodes, kinds, a sequence of edges and the inputs of Loop nodes; the
order of the edges matters, because the code takes the *first* edge where several
would fit: `ConditionParent` follows the chain of first parents, `IgnoredNodes` skips the target of
the first edge out of each unfulfilled output. `ExpectedInputs` and
`ConditionalGroups` are `setupNodeDependencies`, `HasReceivedRequiredInputs` the function
of that name, `StartingNodes` is `getStartingNodes` with its dependency count.
`Outcomes` says which outputs the run of a decision node may mark; what a node computes
(an LLM's choice, a condition on data) is a free choice among those. Ignored are node versions, sticky notes and
handles other than the output index.

### AgentflowExecutor

One *run* is one call of `executeAgentFlow` at the top level on one chat session.

| Model | Code |
|---|---|
| `rows`, `created` | the `Execution` table; ids in the order of `createdDate` |
| `canvas` | `chatflow.flowData` |
| `run[r]` | the locals of a call: `nodeExecutionQueue`, `waitingNodes`, `loopCounts`, `agentFlowExecutedData`, `currentHumanInput`, `newExecution`, `iterations`, `status`, and the entity `findOneBy` returned |
| `sharing` | the row a `PUT /executions/:id` has found and not yet saved |
| `Submit`, `CreateExecution`, `ResumeExecution`, `RefuseRequest` | everything before the main loop |
| `FindRow`, `SaveRow` | the two awaits of `updateExecution` |
| `FinishNode`, `StopForHuman`, `FailNode`, `AbortNode`, `SkipMissingNode`, `ExceedIterations` | one iteration of the main loop, by outcome |
| `EndLoop` | the code after the loop, up to `updateExecution` |
| `Crash`, `Abort`, `DeleteExecution`, `ShareFind`, `ShareSave`, `EditFlow` | what happens to a session from outside |

Points worth knowing when reading it:

- An iteration of the loop is one step. Its awaits touch no shared state of the model, and runs
  share only `rows`, so nothing is lost.
- A result is delivered edge by edge. Where several edges lead from one node to another, the first that completes the
  child's inputs queues it and forgets them; the others start over (`Completing`, `WaitingAfter`).
- `save` of TypeORM writes the columns that differ from the entity it found, so a
  claim (`updateExecution` with the state alone) writes back the *data it found*;
  `Merged` says so.
- A save of a row deleted meanwhile inserts it again. The model keeps this.
- `retry`, `claim`, `settle` and `error` are the four places that call
  `updateExecution`; `AfterSave` is where each continues.
- Executed data and the queue are sets of stamped items; removing the entries
  of a resumed node is a comprehension.
- The aborted request fails in the iteration that looks at the signal; an abort after the last
  iteration has no effect, as in the code.

Left out: the recursive calls for Iteration and Execute Flow nodes (each is a call with a
queue of its own), resolution of variables, chat history, the streamed events, the chat
messages saved at the end, usage figures.

### ExecutionLifecycle and the refinement

The abstract machine knows a row's life (NONE, INPROGRESS, one of four settled states, DELETED) and
whether a question is open. FINISHED and TERMINATED are final; STOPPED or ERROR with an open
question may be resumed. `lifeBar` reads the state column, `askedBar` whether a STOPPED entry is in the data.
The resume of a STOPPED execution is one save, the claim (1866), which is `Resume`. A retry is two: the
first drops the error entry and writes INPROGRESS with the data (1853), which is `Resume`; the claim that follows
finds INPROGRESS already and is a stutter.
The refinement holds with one request at a time per execution; with two, the run
`AgentflowDoubleResume` shows why it cannot. `ImplementsLifecycle` proves it (section 4).

### ScheduleSync

| Model | Code |
|---|---|
| `flow` | chatflow id -> inputs of its Start node |
| `table`, `made` | the `ScheduleRecord` table |
| `jobs` | `cronJobs` of `ScheduleBeat`, or BullMQ's job schedulers when `QueueMode` |
| `beat` | how far `_syncAllJobs` has come; `ready` when `init` has returned |
| `req[r]` | the locals of a chatflow save or deletion or of the schedule switch |
| `fire[k]` | the locals of one `executeScheduleJob` |
| `over` | has the end date passed? (one date for all settings that have one) |
| `BeginSave` ... `WriteRecord` | `saveChatflow`/`updateChatflow` with `createOrUpdateSchedule` |
| `DeleteFlow`, `FindGone`, `EraseRecord` | `deleteChatflow`, `deleteScheduleForTarget` |
| `BeginToggle` ... `WriteToggle` | `toggleScheduleEnabled` with `getScheduleStatus`, which reads the record (`FindStatus`, into `seen`) and then the flow (`JudgeToggle`) |
| `Reread`, `ApplyUpsert`, `RemoveJob` | `onScheduleChanged`; `Registered` is the expression a job ends up with: none if `cron.validate` refuses it |
| `Fire` ... `EndRun` | `executeScheduleJob` and its callbacks |
| `ReadBatch`, `RegisterNext` | `_syncAllJobs` |
| `Crash`, `EndDatePasses` | the process dies and starts again; time |

Every database or queue call is a step. `Overlap = FALSE` lets one request or one check of a fire
run at a time (a run of a flow, which may take hours, never counts), `Overlap = TRUE` lets everything interleave.
A crash takes node-cron tasks and the fires in the process with it; in queue mode jobs and
fires survive, because BullMQ keeps them.

Left out: trigger logs, `lastRunAt` and `nextRunAt` (a fire before `nextRunAt` is skipped: the model
lets any fire be skipped), time zones, the visual picker (it yields an expression), the
'form' and 'none' input modes, Redis calls that fail, and the body of a run.
`fire` keeps the record loaded, since the callbacks use it later.

### EventRelay and PredictionJobs

`SSEStreamer` runs to completion in memory, so its methods are operators on the value of one variable; what
awaits Redis is two steps, a command and its answer. `EventRelay` has no specification of its own: it is what
`PredictionJobs` does to the relay.

| Model | Code |
|---|---|
| `relay.clients`, `relay.observers` | `clients` and `observers` of the `SSEStreamer` of each server |
| `relay.line`, `relay.log` | a response: open, ended or gone (its caller hung up), and what it was sent |
| `subscribed`, `subs`, `unsubs` | `subscribedChannels`; commands Redis has not answered |
| `listener`, `registry`, `binds` | streams of webhook listeners, their registrations in Redis, bind messages |
| `SafeWrite`, `RemoveClient` (= `Ended`, `Told`), `AddClient`, `AddObserver` | the methods of `SSEStreamer` |
| `Subscribe`, `Unsubscribe`, `Cleanup`, `Published` | `RedisEventSubscriber`, its periodic cleanup and `handleEvent` |
| `OpenListener`, `Heartbeat`, `CloseListener`, `Unregister`, `HandleBind` | `streamListener` and the Redis registry; its `pc` is "added" from `addClient` to the first heartbeat and then "open" |
| `LoseListener` | the client of a listener leaves while it is "added": the close handler is attached only later (86), so the listener ("left", after the heartbeat "lost") stays registered, a client and an observer |
| `req[r]` | the locals of `createPrediction` or `createWebhook` with `utilBuildChatflow` |
| `BeginPrediction`, `BeginWebhook`, `LookUp`, `Bind`, `Bound` | those handlers up to the build |
| `Build`, `Resolve`, `Finishes` | quota check and enqueueing (or the flow itself), its result, the end of the response |
| `ReadUsage`, `StoreUsage` | the two awaits of `updatePredictionsUsage` |
| `job[r]`, `Pick`, `Emit`, `Finish` | a BullMQ job, `processJob`, and the events and outcome of the flow |
| `outbox`, `Deliver` | events published on the connection of a worker, in order |
| `pool`, `Abort`, `aborts`, `HandleAbort` | `AbortControllerPool` of each process, `abortChatMessage`, the event to the workers |
| `Crash` | a worker dies; BullMQ hands its job to another once, then fails it |
| `HangUp`, `DropDead`, `Leaves` | a client goes; a write to it throws |

Of what a response was sent the log keeps the latest event of each job, and the latest note about a chat as long
as nothing of that chat was written after it. That is what the properties read: an event is compared with the one
before it, and the end of a response, or of an execution, is the last thing said of it as long as it is in the log.
A complete history would multiply the states by what they do not tell apart. An event is its chat, job, attempt and
number.

Redis answers the commands of one connection in their order: an UNSUBSCRIBE is answered after a SUBSCRIBE of its channel sent
before it, and the other way round (`SameChannel`).

What the close handler would do reaches a lost listener no more, so for the relay it is one that still listens: what is
written to it is logged, and it counts as there. That such a write may throw, upon which `SSEStreamer` drops the client, is
left out.

`StreamInOrder` asks for order of every response, and forbids a gap before an event that is shown to the response to a request
that is alone in its chat; for a prediction its first event counts as awaited too. It does not ask for the last
events: in queue mode the response is ended when the job is reported finished (`controllers/predictions` 80-91), which may
overtake the events on their way from the worker, and nothing brings those back. A response that shares its
chat may miss events in the middle, and not by accident of the model: a listener that the second request of a chat
binds shows late events of the first, after those it missed in between; and when the cleanup
has asked Redis to leave a channel nobody watches, a later request of the chat that is told the channel is on the list
loses it at the answer.

`ResponseStream` is what a caller may rely on: a response opens once, shows the next event of its execution, those of
a retry after those of the attempt before, and is closed once. `RefinesStream` maps each request to a response of it:
`lineBar` is the line of the relay, `shownBar` the last event of the request's own job in its log (events of
other jobs of the chat, which a shared listener also writes, are not part of this stream), and `missesBar` what may be
missing before an event that is shown: nothing for a prediction alone in its chat; the start for a webhook alone in its chat,
which does not subscribe and shows what its server hears for a listener; and the middle as well once another request names
the chat. That set may only grow. A stream may be closed at any time, so the end may be missing in each case.

The kinds of requests are a streaming prediction, a webhook whose caller gets one answer, and a webhook with
a streamed response; webhooks bind the listeners of the flow first. `Overlap = FALSE`
lets one request of a chat be served at a time, as the chat window does; the API does not enforce it, which
is a hazard of its own in the list.

### RateLimiter

| Model | Code |
|---|---|
| `limiter[s]` | the entry of the flow in `rateLimiters` of server s |
| `apiConfig` | the `rateLimit` of the stored flow |
| `Start`, `ReadFlows`, `InitializeRateLimiters` | a server starts: manager, `getDataSource...find`, limiters, then the handler of events |
| `ReadChatflow`, `UpdateRateLimiter`, `UpdateChatflow` | a chatflow save: the flow is read and merged with the body, then the limiters change, then the row is written, which may fail |
| `save[r].sent`, `save[r].body`, `Sent` | does the body carry an `apiConfig`; the one that will be stored, which is the one read when it does not; what the limiters are told |
| `events`, `Receive` | BullMQ queue events; one that meets no handler is lost |
| `heard`, `drift` | history: who handled an event, and which named cause may have parted limiter and row |

Limiters of different flows do not interact, so there is one flow. A save without an `apiConfig` stores the one it read, and
so undoes one that another save stored meanwhile; that is one of the `drift`s ("overlap"). Left out: counting requests, which is
express-rate-limit's, and the creation of a flow with a rate limit, which sets no limiter (`services/chatflows` 347-452).

### DocumentStore

| Model | Code |
|---|---|
| `stores` | the table: status, and the loaders with status and totals (the JSON column) |
| `chunks`, `made` | the chunk table; ids in the order they are given out |
| `copy[r]` | the entity a request read, changed in memory, saved later; for an update of the row, first the loaders its client was shown |
| `req[r].pages`, `running` | the pages a document was split into; those whose insert is running |
| `req[r].asked`, `added`, `todo` | a refresh: the loaders it is asked for, those of them its items add, those it has not come to |
| `torn` | history: loaders that a failed request left half changed, until their chunks are replaced with no insert of that request still running |
| `BeginNewStore`, `BeginLoader`, `BeginProcess`, `BeginRefreshOf`, `BeginOnStore`, `BeginTouch`, `BeginDeleteLoader`, `BeginOnChunk` | the endpoints, with what a user can name |
| `CreateStore` ... `SaveUpserted` | create, `saveProcessingLoader`, `processLoader` with `_saveChunksToStorage`, `saveVectorStoreConfig`, `insertIntoVectorStore` |
| `ListLoaders`, `NextLoader` | `refreshDocStoreMiddleware`, which upserts one loader after the other: those of the store, or those of its items (`BeginRefreshOf`), of which the ones without a `docId` add a loader |
| `InsertChunk`, `InsertLate` | the inserts of `_saveChunksToStorage`, which run in parallel under one `Promise.all`: one of them ends, before or after its request was answered |
| `Read`, `ReadForTouch`, `ReadChunk`, `ChangeChunk`, `Write`, `DeleteRow` | edits of chunks, deletions of chunks, loaders and stores; updates of a store, which take the client's `loaders` when the body has any |
| `Fail` | an exception or the death of the process before any of these steps; when the insert of a page fails, the others may go on (`AnswerEarly`, pc "late"), and land later or, if the process dies, never |

Every database call is a step. A save of a row deleted meanwhile inserts it again, as TypeORM's does. Saving and processing a
loader are requests of their own (kinds "save" and "process"): between them a loader is SYNCING, and one that is processed
again without a save stays SYNC while its chunks are replaced. An upsert does both.

A request names what is there when it is made, and a client that sends loaders of its own sends those it is shown then; one that
sends what it was shown earlier overlaps with what happened in between. Items of a refresh that create a store of their own
are left out.

`TotalsMatch` speaks of synchronised loaders once the requests of their store are answered. It excepts the loaders in `torn`:
between the change of a chunk and the save of the row there is no transaction, and the inserts that go on after a failure
are counted by nobody. `NoOrphans` is checked at every step and excepts exactly the chunks whose insert outlived its request
(`Stray`): they may land after the loader or the store is deleted. `RefreshCompletes` speaks of the loaders a refresh
was asked for: all of the store, or those of its items only. No text of the repository promises more, so these are
hazards and not findings.

## 3. The runs

| Run | Bounds | States | Properties |
|---|---|---|---|
| `AgentflowSerial` | flows review, loop, patient, fork; 3 requests, 3 rows, one after another; 1 abort; clients may name `start`; 7 iterations | 181 thousand | TypeOK, RowMatchesData, OneAnswerOneGate, JoinWaitsForAll, NoBranchForgotten, LoopBodyBounded, RefinesLifecycle |
| `AgentflowRacing` | flows short, twoStarts; 3 overlapping requests; a crash, a deletion, a share switch | 1.7 million | RowMatchesData, OneAnswerOneGate |
| `AgentflowLive` | flows loop, short; 2 requests; an edit, an abort | 11 thousand | Settles |
| `AgentflowDoubleResume` | flow short, 3 overlapping requests | stops | OneDriver is violated |
| `AgentflowLostBranch` | flow side, 2 requests | stops | ResumeLosesNoBranch is violated |
| `ScheduleSerial` | 6 settings, 4 requests, 2 records, in process, no overlap, 1 crash | 706 thousand | ScheduleTypeOK, InSync, RecordFollowsFlow |
| `ScheduleHeals` | 3 settings, 2 requests, 2 fires, queue mode, overlap, 1 crash | 94 thousand | GhostJobsVanish, OverdueGetDisabled |
| `ScheduleOutOfSync` | 3 settings, 3 requests, overlap | stops | InSync is violated |
| `ScheduleFallback` | 2 settings, 3 requests, overlap | stops | FallbackNeverRuns is violated |
| `DocumentStoreSerial` | 2 stores, 2 loaders, 3 requests (one at a time on a store), 2 pages, 3 chunk ids, 1 failure | 921 thousand | DocumentStoreTypeOK, TotalsMatch, NoOrphans, RefreshCompletes |
| `PredictionRelay` | 5 setups, each of up to 2 requests, 2 servers, 1 worker, 1 listener, 2 events, 2 attempts, 1 fault | 227 thousand | RelayTypeOK, NothingAfterEnd, ListenersTold, RunningIsAbortable, QuotaNeverEarly, StreamInOrder, RefinesStream, Answered, ChannelsReleased |
| `RateLimiters` | 2 servers, 2 saves, 2 limits, 4 starts, 2 failures, both modes | 1.1 million | RateLimiterTypeOK, ServersAgree, StoredIsEnforced |

Why these bounds are enough for the question each run asks:

- Three requests are a start, an answer and either a retry of it or a second answer: every
  kind of pair of saves on one row occurs. In the serial run the flows cover each thing the graph analysis
  distinguishes: a conditional group that meets again (review), an unconditional join with an
  agent that may stop (fork), a Condition Agent before a loop with the bound of the node
  (patient) and the global one (loop). `patient` has more passes than the seven iterations
  allow, so the iteration limit is met.
- The racing run uses the smallest flow with a gate, because the races are about rows;
  `twoStarts` is there for the refusal of a flow with two starting nodes.
- Four schedule requests are enough to create, break, mend and switch a schedule, or to
  create, delete and create again; two records are what a chatflow can get when
  its schedule is given up and taken up again, so a job for the old id can be told from one for the new.
- `BatchSize` is 2 against at most two records, as 100 is against the usual number. With one
  record per batch and two targets TLC finds InSync violated: a fire that disables a
  record between two batches makes the growing `skip` step over another one. This is listed as a hazard and
  stated here, not as a run, since it needs more than 100 schedules in the real system.
- Three document store requests are a first load, a change and a reader of its result, or a load in
  each store and a deletion in one; a failure may come before any step of one of them, and the next request
  works on what it left, with an insert of the failed one still to land at any later step. With three chunk ids a loader of two chunks can be processed again with other
  chunks. The pages of a split get their ids by length: their inserts run in parallel, so another order of
  the ids would only rename chunks. Requests of *one* store do not overlap here: with `Overlap = TRUE` TLC
  violates TotalsMatch, NoOrphans and RefreshCompletes within seconds (a row read
  before a document was split is saved after another request changed it). No text of the repository denies that, so it is a hazard
  and not a finding.
- `MCSetups` lists what may be combined in the prediction run, because all combinations at once are out of reach:
  two requests at the same time in one server, with a quota of one and a fault; the second one of
  an unlimited plan, where the count is capped at -1; two requests of one chat after another, on any two
  servers, with one worker; and one request of each kind with a fault, under no limit and under a limit
  of 0. A fault is a crash of the worker, an abort, a client that hangs up or a
  listener that leaves, noticed or not. With two events and two attempts an event may be late, repeated, or missing before
  another or before a retry; three events (521 thousand states, too many for a run with liveness) were
  explored with the same result. Larger instances (two queue requests with a fault, 2.5 million states) were
  explored for the safety properties with the same result; they exceed the time a run should take with liveness.
- Two servers, two saves and four starts let either server miss an event, read the flow
  before or after a save, and start again. With two limits a stale one differs from the stored one.
- Every bound sits in a guard: `MaxRequests`, `MaxExecutions`, `Budget`, `MaxRecords`, `MaxCrashes`
  the fire slots, `MaxPages`, `MaxChunks`, `MaxFailures`, `MaxEvents`, `MaxStarts` and the `faults` of a
  setup. `MaxAttempts` (BullMQ tolerates one stall), `MaxIterations`, `MaxLoopCount` and `BatchSize` are settings of the program.
- `CHECK_DEADLOCK FALSE` everywhere: a session in which every request was sent and
  answered may simply stop; so may a set of servers that nobody calls, and a document store nobody changes.
- `SYMMETRY` is used in `DocumentStoreSerial` and `RateLimiters`, which have no liveness property.

### Fairness

- `AgentflowExecutor!FairSpec` is weak fairness of each run's own steps, `Progress(r)`:
  Node.js runs every continuation, and a node's run is taken to return or throw. Requests and
  disturbances are never forced. The live run has no crash in its budget, because nothing in the code
  recovers a row whose process died.
- `ScheduleSync!FairSpec` is weak fairness of served requests, of the checks of a fire and of the start, and
  strong fairness of `Tick(i)`, the firing of job i: a cron job fires again
  and again as long as it is registered. It is strong because a fire needs a free slot, and slots, which
  stand for the event loop or the workers, are free again and again rather than constantly.
  `EndDatePasses` and crashes are not fair.
- `PredictionJobs!FairSpec` is weak fairness of each request's handler (Node.js runs continuations), of the
  end of each flow, of some worker taking a queued job, of delivery from each worker, of Redis answering, and of
  the heartbeats, bind handlers and periodic cleanup of the servers. Clients, listeners, aborts and crashes are never
  obliged to act; dead clients need not be noticed. `Answered` therefore holds through a worker's death
  because BullMQ's second attempt is a `Pick`, and `ChannelsReleased` because of the periodic cleanup.
- The other modules have no liveness property and no fairness.

### Findings

1. `AgentflowDoubleResume`: two answers to one question both drive the execution; the state is
   read at `utils/buildAgentflow.ts` 1666 and claimed at 1866.
2. `AgentflowLostBranch`: a question asked while a parallel branch is queued drops that
   branch, although the code says a resume continues from the last checkpoint.
3. `ScheduleOutOfSync`: overlapping changes of one schedule leave a job for a record that
   is gone, or an enabled record without one. `ScheduleHeals` shows the first kind heals at the
   next fire; the second kind lasts until the next save, switch or start.
4. `ScheduleFallback`: the comment that the beat skips the fallback expression describes no code; normally
   the record is disabled, but a switch racing the correction enables it and it runs.

## 4. The proofs

`tlapm` checks all of them.

### The executor

The theorems hold for every set of flows, every number of requests and rows, every limit and
every mix of disturbances. Assumptions, all of them checked by TLC on
each run that extends the module:

- `FlowsAssumption`: every flow a chatflow may hold is a `Flow` (edges between nodes,
  natural outputs and bounds), and "no node" is no node;
- `FiniteAssumption`: a flow has finitely many nodes (otherwise the check for a second starting node says nothing);
- `BoundsAssumption`: the bounds are naturals;
- `ClientAssumption`: `Concurrent` is a Boolean and clients name nodes;
- `RowAssumption`: "no row" is no row.

Nothing is assumed of the shape of a graph (cycles, dangling edges, several edges
between two nodes), nor, but for `LoopsAreBounded`, which asks for the loops it is true of, and
`ImplementsLifecycle`, of the number of requests in flight.

| Theorem | Says | Invariant |
|---|---|---|
| `TypeInvariant`, `TypeCorrect` | `Spec => []TypeOK` | `TypeInv` adds that a run which drives or saves an execution names one, and a save has a row that was found; without it the row a save writes has no type |
| `RowsSound`, `RowsMatchData` | `Spec => []RowMatchesData` | `SoundInv` |
| `GatesHold`, `OneAnswer` | `Spec => []OneAnswerOneGate` | `GateInv` |
| `WalkHolds`, `JoinsWait`, `NoneForgotten` | `Spec => []JoinWaitsForAll`, `Spec => []NoBranchForgotten` | `WalkInv`, with `SoundInv` and `GateInv` |
| `LoopsAreBounded` | `LoopsEntered` implies `Spec => []LoopBodyBounded` | `LoopInv`, with `TypeInv`, `WalkInv` and what it rests on |
| `ImplementsLifecycle` | `Spec => RefinesLifecycle` | `LifeInv`, with `SoundInv` |

*RowsMatchData.* The property speaks of the table, but the table is written from copies: the
row a find returned, the locals of a run, the row a share switch holds. `SoundInv` asks the same
of every copy, that stamps in the data are below the next stamp (so that the pushed entry is the last), and, of a
run, what makes the row it will save sound: while it runs its data has no failure, and after the
loop its status agrees with its data. The step that needs thought is the retry: dropping the
last entry of an ERROR row that ended STOPPED, ERROR leaves data without a failure (`DropFailure`, `KeptSound`).

*OneAnswer.* Data travels from row to run and back, so `GateInv` speaks of all copies (`Stores`). That a request
completes at most one gate rests on two facts kept by every step: a run that still
holds its answer has finished nothing in any copy (`Untouched`), and the only node it can run next is
the one it answers (`HoldsAnswer`). Each action is one lemma; actions that only copy data are covered by
`MoveGates`.

*JoinWaitsForAll and NoBranchForgotten.* One property looks back (the inputs came first), the other forward (nothing is
left over), but both rest on what a run's queue, waiting inputs and executed data say together. `WalkInv` states it: an
input that waits has finished in this run; a node that waits lacks an input; a queued node has all of its inputs,
unless a jump or the start led there; and the result of a finished node is with each of its children that is not
behind a decision: among its waiting inputs, in the queue, or the child ran (`Delivered`). When the queue is empty the
second and the last leave only "it ran" (`HasReceivedRequiredInputs` of the full set of inputs), which is
`RanAll`. A run that stopped for a human has given its branches up and is exempt (`Asked`): that is finding 2, and
the reason why NoBranchForgotten speaks of executions one request finished on its own. Entries
name the run that pushed them, so a fresh run owns nothing anywhere (`Fresh`, `NoneBy`). A run that gets its answer removes
the earlier entries of the node it answers; by `GateInv` it has finished nothing yet, so none of its own results is lost.

*LoopBodyBounded.* It is not true of every graph: where a second edge leads into a loop's body, that edge may bring results
of its own. `LoopsEntered` asks that every loop has a positive bound and is entered along a way (`WayInto`): a path from a
node without inputs to the node the loop jumps to, each node of which needs the result of the one before and gets it over
one edge, while no other Loop node jumps to any of them. The rest of the graph is free: branches, joins and other
loops elsewhere, edges out of the way, edges into its nodes from outside. TLC checks that every loop of the flows of the
runs has one (`WayAssumption`). `LoopInv` says of such a way that at most one result is under way along it, queued or among
the waiting inputs of a node (`OneUnderWay`), and that the runs of the body, the jumps and results waiting to enter it and
the one result under way are together at most one more than the jumps taken (`Counted`, `Tally`). The loop jumps
only while its counter stays below the bound, so the passes never exceed it.

*RefinesLifecycle.* Assumed besides: requests do not overlap (`Concurrent = FALSE`) and nobody deletes or shares an
execution. Both are needed: two answers may resume one execution after the other settled it (finding 1), and a save
that follows a deletion inserts the row again, while that of a share switch may write a state that is out of date. Edits of the flow,
aborts and crashes are allowed at every step. `LifeInv` says what a run in flight knows of the row it drives (`Owns`): it is
what a find returned until the save, ERROR with a question before a retry, STOPPED or INPROGRESS with one before a
claim, INPROGRESS until it settles. That a retry leaves an open question (`KeptIsOpen`) needs the latest entry of the data to be
one of its entries, which is a fact about finite sets of stamps: `Greatest` proves it from the well-foundedness of <.

Lemmas about operators (`GraphTypes`, `PushSound`, `PushAdds`, `WithoutSound`, `FinalAgrees`, `FewerGates`,
`PushFinished`, `PushInOrder`, `LatestIsEntry`) are stated once and cited.

### Schedules

For any number of chatflows, settings, requests, records and fires; assumed: `SettingsAssumption` (there are chatflows
and settings), `ScheduleBounds`, `ModeAssumption`, `DistinctAssumption` (the special values differ from others).

| Theorem | Says | Besides | Invariant |
|---|---|---|---|
| `ScheduleTypes` | `Spec => []ScheduleTypeOK` | nothing: overlapping requests, both modes, crashes | `TypeInv` |
| `JobsInSync` | `Spec => []InSync` | no overlap; and either no crash, or no queue and a start that reads its records in one batch | `SyncInv`, with `AloneInv` |
| `RecordsFollowFlows` | `Spec => []RecordFollowsFlow` | no overlap | `FollowInv`, with `AloneInv` |

The hypotheses are those under which the properties are true. With overlap TLC refutes InSync (finding 3). With more
records than a batch holds a start can step over one of them (section 3). In queue mode a process that dies between disabling
a record and removing its job leaves the job, and the next start registers jobs but removes none.

*JobsInSync.* `AloneInv` says what one request or check at a time buys: the copy of a record that a request or a fire holds
is the record (`CopyInv`), and records belong to chatflows that were created (`OriginInv`). `SyncInv` then says that every job is the
wanted one, or somebody is about to mend it (`Mended`: the request that changed the record and has yet to tell the beat, or the fire that
disabled it), or the start has yet to look at it (`Pending`). `BeatInv` is about the start: a record in its batch is as it was
read, and has no job yet, so that registering it is right even if records that *were* registered have fired meanwhile.

*RecordsFollowFlows.* A chatflow is saved before its record, so between the two the record is wrong; `FollowInv` says that it
follows the chatflow or a request is about to write it (`Writes`), which knows the settings just saved (`RequestFollow`), and that a
chatflow never gets two records (`Single`). It is about `crashes = 0`, as the property.

### The rate limiter

For any set of servers, requests and limits, any number of starts and failures; assumed: `LimiterValues` (the
three special values are not limits, the bounds are naturals).

| Theorem | Says | Invariant |
|---|---|---|
| `RateLimiterTypes` | `Spec => []RateLimiterTypeOK` | `TypeInv`: types, and that in main mode at most one server is up and has no events |
| `ServersAlwaysAgree` | `Spec => []ServersAgree` | `AgreeInv` |
| `StoredAlwaysEnforced` | `Spec => []StoredIsEnforced` | `DriftInv` |

`ServersAgree` speaks of servers that have handled all their events, which says nothing of those in between. `AgreeInv`
uses `Final(s)`, the limiter s will have once its events are handled: its last event, or its limiter when
there is none. All servers that handled an event or have one to handle share it, because an event is added to
every running server in one step. `DriftInv` compares `Final` with `Meant`, the setting the
stored row stands for, or the row of the save under way, since limiters change before the row does. That a save ends with its server
(`SaverUp`) is what makes its drift known: the name is noted when the server stops.

### Predictions

For any number of servers, workers, requests, chats, listeners, events and faults, both modes, when
the requests of a chat do not overlap (`Overlap = FALSE`, an assumption of each theorem); assumed besides:
the four `ASSUME`s of the two modules, which say which ids differ.

| Theorem | Says | Invariant |
|---|---|---|
| `RunningFlowsAreAbortable` | `Spec => []RunningIsAbortable` | `AbortInv` |
| `NobodyRefusedEarly` | `Spec => []QuotaNeverEarly` | `QuotaInv`, with `AbortInv` and `ReadInv` |
| `ClientsAreServed` | `Spec => []RelayTypeOK` | `RelayInv` |
| `EndsAreLast` | `Spec => []NothingAfterEnd` | `RelayInv` |
| `ListenersAreTold` | `Spec => []ListenersTold` | `ToldInv`, with `RelayInv` |
| `EventsInOrder` | `Spec => StreamInOrder` | `StreamInv` |
| `ImplementsStream` | `Spec => RefinesStream` | `StreamInv` |

*RunningFlowsAreAbortable.* A controller is stored under the chat, so a job may lose it to another job of its chat, or
to a request that clears it. `AbortInv` adds that busy requests are of different chats (`Exclusive`), that a job is
queued or active only while its request waits (`JobsAreAwaited`: no second attempt outlives the request), where it runs, and
that the unsubscription a request waits for is its own: otherwise the answer of Redis would move another one.

*NobodyRefusedEarly.* The count lags behind the predictions that succeeded, since between a read and a store others
store theirs. `QuotaInv` bounds the count, and every value a request has read, by the number of
predictions *stored* (`Stored`), which are among the ones that succeeded and never fewer than before.
It needs the same exclusion of overlapping requests, and that a job that succeeded stays so.

*ClientsAreServed* and *EndsAreLast.* Whom a chat's events reach is settled steps before they are written. `RelayInv` adds to
`AbortInv` what every process remembers of it: the chat and server of a request, once asked, never change (`AskedInv`); what
a worker has published is of the current attempt of a job that runs or ran on it, in the order in which the job streamed it
(`OutboxInv`); a subscription or a bind under way is of a request that waits for it or asked another server (`BindInv`); and whose response is
open, held as a client, gone or ended (`ClientInv`), the last with its note of the end in the log. The relay is one record that
nearly every action writes, so the proof goes by what a step does to it rather than by action. `RelaySteps` shows
that every step is one of a few kinds (nothing written, a response joins, a listener observes, a response is ended, events
are streamed or delivered, listeners come and go), and each kind is shown once to preserve the rules.

*ListenersAreTold.* It speaks of listeners on the server of the request: `executionEnd` is written by that server
only, so in queue mode one on another server is never told. `ToldInv` says, of a request that is alone in its chat and a listener on its server that heard of the chat: until the
request is done the listener still observes the chat, and afterwards it was told. It also says that a response mentions
only chats that were asked for, so that a new request starts with no listener that heard of it.

*EventsInOrder.* The order of the events of every response, and no gap before an event shown to one alone in its
chat; that the last ones are shown is not claimed, nor true. `StreamInv` is `RelayInv` with three parts. `OrderInv`: an event that a response shows is one its job is past
(`Passed`): of an earlier attempt, or before all that are still under way; the next one is therefore `Later`. `RunsInv`:
events under way have no gaps. `StepInv`: the event that the response to a request awaits (the first of the attempt, or the
one after the last it showed) is under way itself if any are, or still to be streamed (`Unmissed`); since events are delivered
from the head, the next to arrive is the awaited one. `JobSteps` says how a step moves the events of a job (they rest, are
reset by a retry, streamed in memory, published, or the first arrives), `WriteSteps` what it writes.
`StepInv` speaks of requests that are alone in their chat, as the property: with a second request of the chat, an unsubscription of the cleanup may
meet the second one's response.

*ImplementsStream.* The refinement needs no invariant beyond `StreamInv`, but a reading of each step as a step of *every*
response, since one step of the system may open the response to a request and, by naming its chat, widen what another's
may leave out. `LineSteps` says how a line changes: a response joins, or is closed (`Turns`).
`StreamWrites` says what a step shows of the request's own job: the same as before, or the next event (`NextShown`, from the
facts behind `EventsInOrder`). `MissesGrow` says that a request alone in its chat may cease to be so and that the reverse never
happens. `ResponseSteps` puts these together for one response, `StreamSteps` for all.

### The document store

For any number of stores, loaders, chunks, requests and failures, when requests of one store do not overlap
(`Overlap = FALSE`, an assumption of each theorem: with overlap TLC refutes the last three, section 3);
assumed besides: `StoreBounds`, `StoreConstants`, `StoreDistinct`.

| Theorem | Says | Invariant |
|---|---|---|
| `StoreTypes` | `Spec => []DocumentStoreTypeOK` | `OrphanInv`, `TallyInv` |
| `ChunksHaveLoaders` | `Spec => []NoOrphans` | `OrphanInv` |
| `TotalsAreKept` | `Spec => []TotalsMatch` | `TallyInv`, with `OrphanInv` |
| `RefreshesComplete` | `Spec => RefreshCompletes` | `TallyInv`, with `OrphanInv` |

*ChunksHaveLoaders.* All but the chunks whose insert outlived its request (`Stray`). `NoOrphans` is far from inductive: that chunks may be inserted depends on a row read two saves
earlier. `OrphanInv` adds, for each request and each step of it, what ties its locals to the tables (`RequestInv`):
the copy it will save lists the loaders the table lists (`CopyIsCurrent`), its loader is still among them
(`LoaderIsListed`), its pages belong to its loader, and its loader has no chunks but strays left when it is about to be
removed from the row. These survive the steps of *other* requests because those work on other stores:
`StepKeeps` is the frame lemma, which every action uses. A chunk edit writes back
the chunk read earlier under its id, so `IdInv` says that an id, wherever it is held, was given out once
and for one loader and store; otherwise an edit could overwrite the chunk of another loader.

*TotalsAreKept.* `TallyInv` says of the row in the table that a synchronised loader counts its chunks exactly (`StoreTally`),
unless it is in `torn` or a request is about to write what it changed (`Settles`): chunks go
first, the row follows. That a loader leaves `torn` only when nothing can land on it any more is part of it: inserts still
running after their request failed are of loaders in `torn`, and those of a request at work are the pages not yet in the
table (`RequestTally`; that the ids of both differ is `CountInv`). Of the copy a request will save it says that it *is* the row, but for the loader it
has counted again (`RequestTally`), so that a save of the whole row takes no other loader back. While the chunks of a loader are
replaced its totals mean nothing, whether it is SYNCING or, processed again, still SYNC. Since chunks are counted by loader while rows are saved by store,
`HomeInv` is needed: a loader belongs to one store, the one that lists it or whose request is about to, and so do all
chunks and pages of it (`Homed`), those of failed requests included.
`TallyKeeps` is the frame lemma for it: what a step of one store must show, and what stays true of the others.

*RefreshesComplete.* For a refresh, `RequestRefresh` says that each loader it was asked for and has taken from its list is
synchronised but the one under way, that those it has not come to are listed unless it is to add them, and that after the first one the store is UPSERTED when it takes the next.

Totals are sums (`CharsOf`, the fold of a community module). What the proofs need of sums is that they are naturals and that adding
or removing a chunk adds or removes its length. A fold is `CHOOSE g : g = [...]` over all subsets, so the first fact is that such
a g exists and that two of them agree: both by the least cardinality at which it would fail (`Least`, `SumsExist`, `SumsAgree`,
`SumSplits`), which is what takes the place of induction.

### Only model-checked

- Liveness under fairness is out of the prover's reach: `Settles`, `GhostJobsVanish`, `OverdueGetDisabled`, `Answered`,
  `ChannelsReleased`.
- The library's induction theorems take an operator as a parameter, which the provers cannot instantiate.
  Where induction is needed it is replaced by a least counterexample (well-foundedness of < on the naturals), as for sums
  and for the latest entry. Nothing proves what the walk of `ConditionParent` computes; no theorem needs it, because they
  hold whatever a node's inputs are said to be. The modules with theorems reach no RECURSIVE operator.

## 5. The plan

The order of work, the most important behaviour first. Done:

1. Agentflow graph and executor, lifecycle, their properties and runs; all proved but liveness,
   with the refinement of the lifecycle.
2. Schedules: model, properties, runs; the three safety properties proved.
3. Predictions, relay, aborts and the predictions quota: model, properties, run; all safety properties proved,
   with the refinement of the response stream.
4. Rate limiter: model, properties, run; all three properties proved.
5. Document store: model, properties, run; all four properties proved.

Left, in this order:

1. A run of the relay in which subscriptions to one channel overlap, with the number of copies in the log,
   once the code or a document says how often an event may be shown.
2. Iteration and Execute Flow nodes as a second level of the executor.

Abstract specifications: `ExecutionLifecycle` is one for a row of the `Execution` table, `ResponseStream` for the response to
a request. Both are safety specifications; that a request is answered at all is the property `Answered`.

## 6. Not modelled

- Sequential agents V1 hand the graph to LangGraph; the schedule of its nodes is not in this repository.
- Vector upsert, cache pool, export and import, evaluations, accounts and licences: single calls, key-value caches,
  create-read-update-delete and external services without a protocol of their own.
- The node library, which is most of the repository: a node's run returns, throws, stops or marks an output, and which one
  is a free choice. The same holds of the UI, the canvas packages and the API documentation, which keep no server state.
- Iteration and Execute Flow nodes: a recursive `executeAgentFlow` with its own queue; the rows it writes are those of its
  parent. A second level would multiply the state space for one new behaviour.
- Chat history, memory, streamed text, usage figures: no control depends on them.
- Non-streaming predictions and the callback of an asynchronous webhook: they open no stream, and run the same job.
- Quotas of storage, flows and users, and the renewal of a period; uploaded files and their storage in the
  document store; trigger logs of schedules (`services/schedule` 225).
- Failures of Redis: its errors are swallowed, or end the process.
- Real time: cron expressions are names; a job fires whenever it likes. Heartbeats do not expire.

Some behaviours are in the models (or follow from them) without a property, since nothing in the repository says
what they should be:

- A question is streamed to the client (`utils/buildAgentflow.ts` 1450) before the row is STOPPED (2230); an answer
  in between is refused.
- Branches of a fork below one condition count as one group (783), so a join of them runs on the first arrival; a decision
  node with two outputs wired to one child ignores the child when either is not taken (836).
- Only the newest execution of a session can be resumed (1678); loop counts start again at each resume (1652); a resume
  removes every entry of the resumed node, finished passes included (1198).
- A streaming webhook never subscribes to its channel (`controllers/webhook` 88), so in queue mode it shows events only
  if a listener made its server subscribe; a listener on another server is never told `executionEnd`.
- An abort that finds its job queued, or between two attempts, is lost (`commands/worker.ts` 48).
- In queue mode a limiter cannot be switched off by a save (`utils/rateLimit.ts` 161): the event has no status.
- After a failed fill of the vector store the store stays UPSERTING (`services/documentstore` 1284), after a failed split the
  loader stays SYNCING.
- In queue mode the last events of a prediction may arrive after its response was ended, and are lost (`controllers/predictions` 81).
- A webhook listener whose client leaves during the awaits at `controllers/webhook-listener` 49-63 is missed by the close
  handler, which is attached at 86: it is never unregistered, every later webhook of the flow binds it, and the
  channels of their chats are kept. `services/webhook-listener/registry.ts` 18 says of `unregister` "Drop a listener
  immediately (called on SSE disconnect)". Under `FairSpec` TLC refutes `listener[l].pc = "lost" ~> registry[l] = NoServer` in
  seconds; `ChannelsReleased` counts such a listener as still there.
- Two saves that both turn a flow into a schedule insert two records (`services/schedule` 81): properties about records hold
  with requests one at a time.
