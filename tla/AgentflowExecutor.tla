------------------------- MODULE AgentflowExecutor -------------------------
(***************************************************************************)
(* The AgentFlow V2 executor (utils/buildAgentflow.ts, executeAgentFlow)   *)
(* on one chat session: requests start an execution or answer a question   *)
(* and resume one, walk the flow graph node by node, and persist what they *)
(* did in the Execution table.                                             *)
(*                                                                         *)
(* A run is one call of executeAgentFlow.  Its locals (queue, waiting      *)
(* nodes, loop counts, executed data, human input) live in its memory; the *)
(* only things two runs share are the rows of the Execution table, which   *)
(* updateExecution changes by a find and a later save of the whole row.    *)
(*                                                                         *)
(* Executed data and the queue are kept as sets of items stamped with the  *)
(* order in which they were pushed: removing the entries of a node is then *)
(* a set comprehension, and the first or last item is the one whose stamp  *)
(* is least or greatest.                                                   *)
(***************************************************************************)
EXTENDS AgentflowGraph

CONSTANTS
  Flows,          \* names of the flows the chatflow may hold
  FlowData,       \* name -> flow (the parsed flowData)
  MaxRequests,    \* bound: requests sent to the session
  MaxExecutions,  \* bound: rows of the Execution table
  MaxIterations,  \* maxIterations (env MAX_ITERATIONS, default 1000)
  MaxLoopCount,   \* MAX_LOOP_COUNT (env, default 10)
  Concurrent,     \* may a client send a request while another is in flight?
  Nameable,       \* node ids a client may give as humanInput.startNodeId
  Budget,         \* bound: how often each disturbance may happen
  NoRow           \* an execution that does not exist

Disturbances == {"crash", "abort", "delete", "share", "edit"}

ASSUME FlowsAssumption  == (\A f \in Flows : FlowData[f] \in Flow) /\ NoNode \notin Node
ASSUME FiniteAssumption == \A f \in Flows : IsFiniteSet(FlowData[f].nodes)
ASSUME BoundsAssumption == /\ MaxRequests \in Nat
                           /\ MaxExecutions \in Nat
                           /\ MaxIterations \in Nat
                           /\ MaxLoopCount \in Nat
                           /\ Budget \in [Disturbances -> Nat]
ASSUME ClientAssumption == Concurrent \in BOOLEAN /\ Nameable \subseteq Node

Runs == 1 .. MaxRequests
Exec == 1 .. MaxExecutions

(* TIMEOUT is declared as well, and never set.                             *)
ExecutionState == {"INPROGRESS", "FINISHED", "ERROR", "TERMINATED", "STOPPED"}
EntryStatus    == ExecutionState \ {"INPROGRESS"}

Entry == [pos : Nat, node : Node, status : EntryStatus, by : Runs]
Data  == [next : Nat, items : SUBSET Entry]
Row   == [state : ExecutionState, data : Data]
Ticket == [turn : Nat \X Nat, node : Node]

ASSUME RowAssumption == NoRow \notin Row

VARIABLES
  rows,      \* the Execution table: exec id -> row or NoRow
  created,   \* how many rows were ever inserted (ids follow createdDate)
  canvas,    \* the flow the chatflow holds now
  run,       \* the locals of every run
  sharing,   \* a PUT /executions between its find and its save
  budget     \* disturbances left

vars == <<rows, created, canvas, run, sharing, budget>>

Pc    == {"idle", "looking", "find", "save", "running",
          "done", "failed", "rejected", "crashed"}
Phase == {"none", "retry", "claim", "settle", "error"}

RunState ==
  [pc      : Pc,
   phase   : Phase,
   flow    : Flows,
   resume  : BOOLEAN,                 \* the request carries a humanInput
   start   : Node \cup {NoNode},      \* humanInput.startNodeId
   human   : Node \cup {NoNode},      \* currentHumanInput: the node it answers
   exec    : Exec \cup {0},           \* newExecution.id
   data    : Data,                    \* agentFlowExecutedData
   queue   : SUBSET Ticket,           \* nodeExecutionQueue
   waiting : [Node -> SUBSET Node],   \* waitingNodes: inputs received so far
   loops   : [Node -> Nat],           \* loopCounts
   steps   : Nat,                     \* iterations
   status  : ExecutionState,
   found   : Row \cup {NoRow},        \* what findOneBy returned
   aborted : BOOLEAN]

EmptyData == [next |-> 0, items |-> {}]

IdleRun(f) ==
  [pc |-> "idle", phase |-> "none", flow |-> f, resume |-> FALSE,
   start |-> NoNode, human |-> NoNode, exec |-> 0, data |-> EmptyData,
   queue |-> {}, waiting |-> [n \in Node |-> {}], loops |-> [n \in Node |-> 0],
   steps |-> 0, status |-> "INPROGRESS", found |-> NoRow, aborted |-> FALSE]

Init ==
  /\ rows = [e \in Exec |-> NoRow]
  /\ created = 0
  /\ canvas \in Flows
  /\ run = [r \in Runs |-> IdleRun(canvas)]
  /\ sharing = [exec |-> 0, row |-> NoRow]
  /\ budget = Budget

FlowOf(r) == FlowData[run[r].flow]

(* The next locals of run r.                                               *)
Becomes(r, locals) == run' = [run EXCEPT ![r] = locals]

-----------------------------------------------------------------------------
(* Executed data.                                                          *)

(* Mutant: the stamp of the previous push.                                 *)
PushOffByOne(d, n, s, r) ==
  [next  |-> d.next + 1,
   items |-> d.items \cup {[pos |-> d.next - 1, node |-> n, status |-> s, by |-> r]}]

Push(d, n, s, r) ==
  [next  |-> d.next + 1,
   items |-> d.items \cup {[pos |-> d.next, node |-> n, status |-> s, by |-> r]}]

Without(d, n) == [d EXCEPT !.items = {e \in @ : e.node # n}]

Latest(items) == CHOOSE e \in items : \A x \in items : x.pos <= e.pos

DropLatest(d) == [d EXCEPT !.items = @ \ {Latest(@)}]

Has(d, s) == \E e \in d.items : e.status = s

(* The state of an execution whose main loop has ended.                    *)
FinalStatus(d) ==
  IF Has(d, "TERMINATED") THEN "TERMINATED"
  ELSE IF Has(d, "ERROR") THEN "ERROR"
  ELSE IF Has(d, "STOPPED") THEN "STOPPED"
  ELSE "FINISHED"

(* An ERROR execution whose last two entries are STOPPED and ERROR.        *)
ErrorAfterStop(row) ==
  /\ row.state = "ERROR"
  /\ row.data.items # {} /\ DropLatest(row.data).items # {}
  /\ Latest(row.data.items).status = "ERROR"
  /\ Latest(DropLatest(row.data).items).status = "STOPPED"

(* Mutant: any failed execution can be retried.                            *)
ResumableAnyError(row) == row.state \in {"STOPPED", "ERROR"}

Resumable(row) == row.state = "STOPPED" \/ ErrorAfterStop(row)

(* Mutant: the failed attempt is left in the data.                         *)
KeptDataAll(row) == row.data

(* What a resume keeps of the executed data.                               *)
KeptData(row) == IF row.state = "ERROR" THEN DropLatest(row.data) ELSE row.data

Stops(d) == {e \in d.items : e.status = "STOPPED"}

(* The node a resume starts from: the one the client names, or the node of *)
(* the last STOPPED entry; NoNode when that gives no node of the data.     *)
StartOf(d, named) ==
  LET s == IF named # NoNode THEN named
           ELSE IF Stops(d) # {} THEN Latest(Stops(d)).node ELSE NoNode
  IN  IF \E e \in d.items : e.node = s THEN s ELSE NoNode

-----------------------------------------------------------------------------
(* Starting a run.                                                         *)

IsNewest(e) == rows[e] # NoRow /\ \A x \in Exec : rows[x] # NoRow => x <= e

InFlight(r) == run[r].pc \in {"looking", "find", "save", "running"}

Submit(r) ==
  /\ run[r].pc = "idle"
  /\ \A q \in Runs : q < r => run[q].pc # "idle"
  /\ Concurrent \/ \A q \in Runs : ~InFlight(q)
  /\ \E resume \in BOOLEAN :
     \E named \in IF resume THEN Nameable \cup {NoNode} ELSE {NoNode} :
       Becomes(r, [IdleRun(canvas) EXCEPT !.pc = "looking", !.resume = resume, !.start = named])
  /\ UNCHANGED <<rows, created, canvas, sharing, budget>>

(* A request without human input inserts a row and queues the start node.  *)
CreateExecution(r) ==
  /\ run[r].pc = "looking" /\ ~run[r].resume
  /\ Cardinality(StartingNodes(FlowOf(r))) <= 1
  /\ created < MaxExecutions
  /\ created' = created + 1
  /\ rows' = [rows EXCEPT ![created + 1] = [state |-> "INPROGRESS", data |-> EmptyData]]
  /\ Becomes(r, [run[r] EXCEPT !.pc = "running", !.exec = created + 1,
       !.queue = {[turn |-> <<0, 0>>, node |-> n] : n \in StartingNodes(FlowOf(r))}])
  /\ UNCHANGED <<canvas, sharing, budget>>

(* A request with human input picks up the newest execution of the session *)
(* when that one can be resumed.                                           *)
CanResume(r, e) ==
  /\ IsNewest(e)
  /\ Resumable(rows[e])
  /\ StartOf(KeptData(rows[e]), run[r].start) # NoNode

ResumeExecution(r, e) ==
  /\ run[r].pc = "looking" /\ run[r].resume
  /\ CanResume(r, e)
  /\ LET prev == rows[e]
         kept == KeptData(prev)
         s    == StartOf(kept, run[r].start)
     IN  Becomes(r, [run[r] EXCEPT
           !.pc = "find", !.phase = IF prev.state = "ERROR" THEN "retry" ELSE "claim",
           !.exec = e, !.data = kept, !.start = s, !.human = s,
           !.queue = {[turn |-> <<0, 0>>, node |-> s]}])
  /\ UNCHANGED <<rows, created, canvas, sharing, budget>>

RefuseRequest(r) ==
  /\ run[r].pc = "looking"
  /\ IF run[r].resume THEN \A e \in Exec : ~CanResume(r, e)
     ELSE Cardinality(StartingNodes(FlowOf(r))) > 1
  /\ Becomes(r, [run[r] EXCEPT !.pc = "rejected"])
  /\ UNCHANGED <<rows, created, canvas, sharing, budget>>

-----------------------------------------------------------------------------
(* updateExecution: findOneBy, then save of the merged row.  Phases retry  *)
(* and claim belong to a resume, settle and error to the end of a run.     *)

FindRow(r) ==
  /\ run[r].pc = "find"
  /\ LET row == rows[run[r].exec]
     IN  Becomes(r, IF row = NoRow THEN [run[r] EXCEPT !.pc = "failed"]
                    ELSE [run[r] EXCEPT !.pc = "save", !.found = row])
  /\ UNCHANGED <<rows, created, canvas, sharing, budget>>

(* Mutant: the settled row keeps the data the find returned.               *)
MergedStale(r) == [state |-> run[r].status, data |-> run[r].found.data]

(* The claim of a resume writes the state alone; save still writes every   *)
(* column that differs from what the find returned.                        *)
Merged(r) ==
  [state |-> run[r].status,
   data  |-> IF run[r].phase = "claim" THEN run[r].found.data ELSE run[r].data]

AfterSave(r) ==
  CASE run[r].phase = "retry"  -> "find"
    [] run[r].phase = "claim"  -> "running"
    [] run[r].phase = "settle" -> IF run[r].data.items = {} THEN "failed" ELSE "done"
    [] OTHER                   -> "failed"

SaveRow(r) ==
  /\ run[r].pc = "save"
  /\ rows' = [rows EXCEPT ![run[r].exec] = Merged(r)]
  /\ Becomes(r, [run[r] EXCEPT !.pc = AfterSave(r),
                                !.phase = IF @ = "retry" THEN "claim" ELSE @])
  /\ UNCHANGED <<created, canvas, sharing, budget>>

-----------------------------------------------------------------------------
(* The main loop.                                                          *)

Before(p, q) ==
  \/ p.turn[1] < q.turn[1]
  \/ p.turn[1] = q.turn[1] /\ p.turn[2] < q.turn[2]

IsNext(r, q) == q \in run[r].queue /\ \A p \in run[r].queue : ~Before(p, q)

(* The loop body starts on q: the iteration limit is not exceeded, the     *)
(* node is on the canvas and the request is not aborted.                   *)
Executes(r, q) ==
  /\ run[r].pc = "running" /\ IsNext(r, q)
  /\ run[r].steps <= MaxIterations
  /\ q.node \in FlowOf(r).nodes
  /\ ~run[r].aborted

(* Mutant: any request passes a human node.                                *)
AsksNobody(r, n) == FALSE

(* A human node with no human input at hand ends its run with a question.  *)
AsksHuman(r, n) == FlowOf(r).kind[n] = "humanInput" /\ run[r].human = NoNode

(* The data a node's run starts from: a resumed node drops its old entries.*)
DataBefore(r, n) ==
  IF run[r].human = n THEN Without(run[r].data, n) ELSE run[r].data

(* Mutant: the answer is not cleared once consumed.                        *)
HumanKept(r, n) == run[r].human

HumanAfter(r, n) == IF run[r].human = n THEN NoNode ELSE run[r].human

(* The bound of a Loop node; a configured 0 falls back to the global one.  *)
MaxLoop(f, n) == IF f.maxLoop[n] = 0 THEN MaxLoopCount ELSE f.maxLoop[n]

(* Mutants: one pass too many; no bound at all.                            *)
LoopsBackOnceMore(r, n) ==
  /\ FlowOf(r).kind[n] = "loop"
  /\ run[r].loops[n] + 1 <= MaxLoop(FlowOf(r), n)

LoopsBackForever(r, n) == FlowOf(r).kind[n] = "loop"

LoopsBack(r, n) ==
  /\ FlowOf(r).kind[n] = "loop"
  /\ run[r].loops[n] + 1 < MaxLoop(FlowOf(r), n)

(* Mutant: each delivery forgets the inputs that came before.              *)
ReceivedAlone(r, n, c) == {n}

(* processNodeOutputs: what delivering the result of n to its children     *)
(* leaves waiting, and which children it queues.                           *)
Received(r, n, c) == run[r].waiting[c] \cup {n}

Ready(r, n, c) == HasReceivedRequiredInputs(FlowOf(r), c, Received(r, n, c))

(* Several edges may lead from n to c.  The first one that completes the   *)
(* inputs of c queues it and clears them: the others start over.           *)
Into(r, c, D) == {i \in D : FlowOf(r).edges[i].target = c}

ReadyAgain(r, n, c) == HasReceivedRequiredInputs(FlowOf(r), c, {n})

WaitingAfter(r, n, D) ==
  [c \in Node |->
     CASE Into(r, c, D) = {} -> run[r].waiting[c]
       [] Into(r, c, D) # {} /\ ~Ready(r, n, c) -> Received(r, n, c)
       [] Into(r, c, D) # {} /\ Ready(r, n, c) ->
            IF ReadyAgain(r, n, c) \/ \A i, j \in Into(r, c, D) : i = j THEN {} ELSE {n}]

(* The edges of D whose deliveries queue their targets.                    *)
Completing(r, n, D) ==
  {i \in D : LET c == FlowOf(r).edges[i].target
             IN  Ready(r, n, c) /\ (ReadyAgain(r, n, c) \/ \A j \in Into(r, c, D) : i <= j)}

QueueAfter(r, q, D) ==
  LET f  == FlowOf(r)
      at == run[r].steps + 1
  IN  (run[r].queue \ {q})
        \cup {[turn |-> <<at, i>>, node |-> f.edges[i].target] : i \in Completing(r, q.node, D)}
        \cup (IF LoopsBack(r, q.node)
              THEN {[turn |-> <<at, Len(f.edges) + 1>>, node |-> f.loopTo[q.node]]}
              ELSE {})

LoopsAfter(r, n) ==
  IF LoopsBack(r, n) THEN [run[r].loops EXCEPT ![n] = @ + 1] ELSE run[r].loops

FinishNode(r, q) ==
  /\ Executes(r, q) /\ ~AsksHuman(r, q.node)
  /\ \E fulfilled \in Outcomes(FlowOf(r), q.node) :
       LET n == q.node
           D == DeliveryEdges(FlowOf(r), n, fulfilled)
       IN  Becomes(r, [run[r] EXCEPT
             !.data    = Push(DataBefore(r, n), n, "FINISHED", r),
             !.human   = IF LoopsBack(r, n) THEN NoNode ELSE HumanAfter(r, n),
             !.waiting = WaitingAfter(r, n, D),
             !.queue   = QueueAfter(r, q, D),
             !.loops   = LoopsAfter(r, n),
             !.steps   = @ + 1])
  /\ UNCHANGED <<rows, created, canvas, sharing, budget>>

(* A human node asks, or an agent waits for the approval of a tool call:   *)
(* the loop is left at once and the rest of the queue is dropped.          *)
StopForHuman(r, q) ==
  /\ Executes(r, q)
  /\ AsksHuman(r, q.node) \/ FlowOf(r).kind[q.node] = "agent"
  /\ Becomes(r, [run[r] EXCEPT
       !.data  = Push(DataBefore(r, q.node), q.node, "STOPPED", r),
       !.human = HumanAfter(r, q.node),
       !.queue = {}, !.steps = @ + 1, !.status = "STOPPED"])
  /\ UNCHANGED <<rows, created, canvas, sharing, budget>>

(* The catch block: the entry is pushed on the data as it was before the   *)
(* node ran, and the row is updated before the error is rethrown.          *)
Catch(r, q, s) ==
  Becomes(r, [run[r] EXCEPT !.data = Push(@, q.node, s, r), !.status = s,
                            !.queue = @ \ {q}, !.steps = @ + 1,
                            !.pc = "find", !.phase = "error"])

FailNode(r, q) ==
  /\ Executes(r, q)
  /\ Catch(r, q, "ERROR")
  /\ UNCHANGED <<rows, created, canvas, sharing, budget>>

AbortNode(r, q) ==
  /\ run[r].pc = "running" /\ IsNext(r, q)
  /\ run[r].steps <= MaxIterations
  /\ q.node \in FlowOf(r).nodes
  /\ run[r].aborted
  /\ Catch(r, q, "TERMINATED")
  /\ UNCHANGED <<rows, created, canvas, sharing, budget>>

SkipMissingNode(r, q) ==
  /\ run[r].pc = "running" /\ IsNext(r, q)
  /\ run[r].steps <= MaxIterations
  /\ q.node \notin FlowOf(r).nodes
  /\ Becomes(r, [run[r] EXCEPT !.queue = @ \ {q}, !.steps = @ + 1])
  /\ UNCHANGED <<rows, created, canvas, sharing, budget>>

(* The iteration limit throws outside the try: the row is left as it is.   *)
ExceedIterations(r) ==
  /\ run[r].pc = "running" /\ run[r].queue # {}
  /\ run[r].steps > MaxIterations
  /\ Becomes(r, [run[r] EXCEPT !.pc = "failed"])
  /\ UNCHANGED <<rows, created, canvas, sharing, budget>>

EndLoop(r) ==
  /\ run[r].pc = "running" /\ run[r].queue = {}
  /\ Becomes(r, [run[r] EXCEPT !.pc = "find", !.phase = "settle",
                                !.status = FinalStatus(run[r].data)])
  /\ UNCHANGED <<rows, created, canvas, sharing, budget>>

-----------------------------------------------------------------------------
(* Disturbances.                                                           *)

Spend(k) == budget[k] > 0 /\ budget' = [budget EXCEPT ![k] = @ - 1]

(* The process dies: the run's locals are gone, its row stays as it is.    *)
Crash(r) ==
  /\ InFlight(r) /\ Spend("crash")
  /\ Becomes(r, [run[r] EXCEPT !.pc = "crashed"])
  /\ UNCHANGED <<rows, created, canvas, sharing>>

Abort(r) ==
  /\ InFlight(r) /\ ~run[r].aborted /\ Spend("abort")
  /\ Becomes(r, [run[r] EXCEPT !.aborted = TRUE])
  /\ UNCHANGED <<rows, created, canvas, sharing>>

DeleteExecution(e) ==
  /\ rows[e] # NoRow /\ Spend("delete")
  /\ rows' = [rows EXCEPT ![e] = NoRow]
  /\ UNCHANGED <<created, canvas, run, sharing>>

(* executionsService.updateExecution, as the share switch of the           *)
(* executions view uses it: a find and a save that changes no column the   *)
(* executor writes.                                                        *)
ShareFind(e) ==
  /\ sharing.exec = 0 /\ rows[e] # NoRow /\ Spend("share")
  /\ sharing' = [exec |-> e, row |-> rows[e]]
  /\ UNCHANGED <<rows, created, canvas, run>>

ShareSave ==
  /\ sharing.exec # 0
  /\ rows' = [rows EXCEPT ![sharing.exec] = sharing.row]
  /\ sharing' = [exec |-> 0, row |-> NoRow]
  /\ UNCHANGED <<created, canvas, run, budget>>

(* The chatflow is saved with another flow between two requests.           *)
EditFlow(f) ==
  /\ f # canvas /\ Spend("edit")
  /\ canvas' = f
  /\ UNCHANGED <<rows, created, run, sharing>>

-----------------------------------------------------------------------------
NodeStep(r) ==
  \E q \in run[r].queue :
    \/ FinishNode(r, q) \/ StopForHuman(r, q) \/ FailNode(r, q)
    \/ AbortNode(r, q) \/ SkipMissingNode(r, q)

Progress(r) ==
  \/ CreateExecution(r) \/ RefuseRequest(r)
  \/ \E e \in Exec : ResumeExecution(r, e)
  \/ FindRow(r) \/ SaveRow(r)
  \/ NodeStep(r) \/ ExceedIterations(r) \/ EndLoop(r)

Disturb ==
  \/ \E r \in Runs : Crash(r) \/ Abort(r)
  \/ \E e \in Exec : DeleteExecution(e) \/ ShareFind(e)
  \/ ShareSave
  \/ \E f \in Flows : EditFlow(f)

Next ==
  \/ \E r \in Runs : Submit(r) \/ Progress(r)
  \/ Disturb

Spec == Init /\ [][Next]_vars

(* Node.js runs every scheduled continuation, and a node's run is assumed  *)
(* to return or throw: a run in flight keeps taking steps.  Nothing makes  *)
(* a client send a request or a disturbance happen.                        *)
FairSpec == Spec /\ \A r \in Runs : WF_vars(Progress(r))
=============================================================================
