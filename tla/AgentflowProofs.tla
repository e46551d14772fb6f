-------------------------- MODULE AgentflowProofs --------------------------
(***************************************************************************)
(* Machine-checked proofs about the AgentFlow V2 executor, for every set   *)
(* of flows and every bound.                                               *)
(***************************************************************************)
EXTENDS AgentflowProperties, TLAPS

(* A starting node, and a node an edge or a loop leads to, is a node id.   *)
LEMMA GraphTypes ==
  ASSUME NEW f \in Flows
  PROVE  /\ FlowData[f] \in Flow
         /\ StartingNodes(FlowData[f]) \subseteq Node
         /\ DOMAIN FlowData[f].edges \subseteq Nat
         /\ Len(FlowData[f].edges) \in Nat
         /\ \A i \in DOMAIN FlowData[f].edges : FlowData[f].edges[i].target \in Node
         /\ \A n \in Node : FlowData[f].loopTo[n] \in Node
<1>1. FlowData[f] \in Flow
  BY FlowsAssumption
<1>2. FlowData[f].edges \in Seq(Edge)
  BY <1>1 DEF Flow
<1>3. \A i \in DOMAIN FlowData[f].edges : FlowData[f].edges[i] \in Edge
  BY <1>2
<1>4. StartingNodes(FlowData[f]) \subseteq Node
  BY <1>1 DEF Flow, StartingNodes
<1>5. /\ DOMAIN FlowData[f].edges \subseteq Nat
      /\ Len(FlowData[f].edges) \in Nat
  BY <1>2
<1>6. \A i \in DOMAIN FlowData[f].edges : FlowData[f].edges[i].target \in Node
  BY <1>3 DEF Edge
<1>7. \A n \in Node : FlowData[f].loopTo[n] \in Node
  BY <1>1 DEF Flow
<1> QED
  BY <1>1, <1>4, <1>5, <1>6, <1>7

(* The operators on executed data keep its shape.                          *)
LEMMA DataTypes ==
  ASSUME NEW d \in Data, NEW n \in Node, NEW r \in Runs
  PROVE  /\ \A s \in EntryStatus : Push(d, n, s, r) \in Data
         /\ Without(d, n) \in Data
         /\ DropLatest(d) \in Data
         /\ FinalStatus(d) \in ExecutionState
<1>1. \A s \in EntryStatus : Push(d, n, s, r) \in Data
  BY DEF Data, Entry, Push
<1>2. Without(d, n) \in Data
  BY DEF Data, Without
<1>3. DropLatest(d) \in Data
  BY DEF Data, DropLatest
<1>4. FinalStatus(d) \in ExecutionState
  BY DEF FinalStatus, ExecutionState
<1> QED
  BY <1>1, <1>2, <1>3, <1>4

(* The node a resume starts from is a node of the data, or none.           *)
LEMMA StartTypes ==
  ASSUME NEW d \in Data, NEW named
  PROVE  StartOf(d, named) \in Node \cup {NoNode}
BY DEF Data, Entry, StartOf

LEMMA EmptyIsData == EmptyData \in Data
BY DEF EmptyData, Data

-----------------------------------------------------------------------------
(* Type correctness.                                                       *)

LEMMA IdleType ==
  ASSUME NEW f \in Flows
  PROVE  IdleRun(f) \in RunState
BY EmptyIsData DEF IdleRun, RunState, Pc, Phase, ExecutionState

LEMMA InitType == Init => TypeOK
<1> SUFFICES ASSUME Init PROVE TypeOK
  OBVIOUS
<1>1. run \in [Runs -> RunState]
  BY IdleType DEF Init
<1> QED
  BY <1>1, BoundsAssumption DEF Init, TypeOK

(* Assigning a value of its type to one of the locals.                     *)
LEMMA AssignTypes ==
  ASSUME NEW l \in RunState
  PROVE  /\ \A v \in Pc : [l EXCEPT !.pc = v] \in RunState
         /\ \A v \in Phase : [l EXCEPT !.phase = v] \in RunState
         /\ \A v \in BOOLEAN : [l EXCEPT !.resume = v] \in RunState
         /\ \A v \in Node \cup {NoNode} : [l EXCEPT !.start = v] \in RunState
         /\ \A v \in Node \cup {NoNode} : [l EXCEPT !.human = v] \in RunState
         /\ \A v \in Exec \cup {0} : [l EXCEPT !.exec = v] \in RunState
         /\ \A v \in Data : [l EXCEPT !.data = v] \in RunState
         /\ \A v \in SUBSET Ticket : [l EXCEPT !.queue = v] \in RunState
         /\ \A v \in [Node -> SUBSET Node] : [l EXCEPT !.waiting = v] \in RunState
         /\ \A v \in [Node -> Nat] : [l EXCEPT !.loops = v] \in RunState
         /\ \A v \in Nat : [l EXCEPT !.steps = v] \in RunState
         /\ \A v \in ExecutionState : [l EXCEPT !.status = v] \in RunState
         /\ \A v \in Row \cup {NoRow} : [l EXCEPT !.found = v] \in RunState
         /\ \A v \in BOOLEAN : [l EXCEPT !.aborted = v] \in RunState
BY DEF RunState

(* A run whose new locals have the right shape.                            *)
LEMMA BecomesTyped ==
  ASSUME run \in [Runs -> RunState], NEW r \in Runs, NEW l \in RunState, Becomes(r, l)
  PROVE  run' \in [Runs -> RunState]
BY DEF Becomes

(* A step of the main loop that runs a node.                               *)
LEMMA FinishNodeType ==
  ASSUME TypeOK, NEW r \in Runs, NEW q \in run[r].queue, FinishNode(r, q)
  PROVE  TypeOK'
<1>1. run[r] \in RunState /\ run[r].flow \in Flows /\ q \in Ticket
  BY DEF TypeOK, RunState
<1> DEFINE n == q.node
           D(o) == DeliveryEdges(FlowOf(r), n, o)
<1>2. PICK o \in Outcomes(FlowOf(r), n) :
        Becomes(r, [run[r] EXCEPT
             !.data    = Push(DataBefore(r, n), n, "FINISHED", r),
             !.human   = IF LoopsBack(r, n) THEN NoNode ELSE HumanAfter(r, n),
             !.waiting = WaitingAfter(r, n, D(o)),
             !.queue   = QueueAfter(r, q, D(o)),
             !.loops   = LoopsAfter(r, n),
             !.steps   = @ + 1])
  BY DEF FinishNode
<1>3. n \in Node
  BY <1>1 DEF Ticket
<1>4. D(o) \subseteq DOMAIN FlowOf(r).edges
  BY DEF DeliveryEdges, OutEdges
<1>5. Push(DataBefore(r, n), n, "FINISHED", r) \in Data
  <2>1. DataBefore(r, n) \in Data
    BY <1>1, <1>3, DataTypes DEF DataBefore, RunState
  <2> QED
    BY <2>1, <1>3, DataTypes DEF EntryStatus, ExecutionState
<1>6. (IF LoopsBack(r, n) THEN NoNode ELSE HumanAfter(r, n)) \in Node \cup {NoNode}
  BY <1>1 DEF HumanAfter, RunState
<1>7. WaitingAfter(r, n, D(o)) \in [Node -> SUBSET Node]
  <2>1. \A c \in Node : run[r].waiting[c] \in SUBSET Node /\ Received(r, n, c) \in SUBSET Node
    BY <1>1, <1>3 DEF Received, RunState
  <2>2. \A c \in Node : WaitingAfter(r, n, D(o))[c] \in SUBSET Node
    BY <1>3, <2>1 DEF WaitingAfter
  <2> QED
    BY <2>2 DEF WaitingAfter
<1>8. QueueAfter(r, q, D(o)) \subseteq Ticket
  <2>1. run[r].queue \subseteq Ticket /\ run[r].steps \in Nat
    BY <1>1 DEF RunState
  <2>2. \A i \in D(o) : i \in Nat /\ FlowOf(r).edges[i].target \in Node
    BY <1>1, <1>4, GraphTypes DEF FlowOf
  <2>3. Len(FlowOf(r).edges) \in Nat /\ FlowOf(r).loopTo[n] \in Node
    BY <1>1, <1>3, GraphTypes DEF FlowOf
  <2>4. Completing(r, n, D(o)) \subseteq D(o)
    BY DEF Completing
  <2> QED
    BY <2>1, <2>2, <2>3, <2>4 DEF QueueAfter, Ticket
<1>9. LoopsAfter(r, n) \in [Node -> Nat]
  BY <1>1, <1>3 DEF RunState, LoopsAfter
<1> DEFINE l1 == [run[r] EXCEPT !.data = Push(DataBefore(r, n), n, "FINISHED", r)]
           l2 == [l1 EXCEPT !.human = IF LoopsBack(r, n) THEN NoNode ELSE HumanAfter(r, n)]
           l3 == [l2 EXCEPT !.waiting = WaitingAfter(r, n, D(o))]
           l4 == [l3 EXCEPT !.queue = QueueAfter(r, q, D(o))]
           l5 == [l4 EXCEPT !.loops = LoopsAfter(r, n)]
           l6 == [l5 EXCEPT !.steps = run[r].steps + 1]
<1>10. l1 \in RunState
  BY <1>1, <1>5, AssignTypes
<1>11. l2 \in RunState
  BY <1>6, <1>10, AssignTypes
<1>12. l3 \in RunState
  BY <1>7, <1>11, AssignTypes
<1>13. l4 \in RunState
  BY <1>8, <1>12, AssignTypes
<1>14. l5 \in RunState
  BY <1>9, <1>13, AssignTypes
<1>15. l6 \in RunState
  <2>1. run[r].steps + 1 \in Nat
    BY <1>1 DEF RunState
  <2> QED
    BY <2>1, <1>14, AssignTypes
<1>16. Becomes(r, l6)
  BY <1>2
<1> QED
  BY <1>15, <1>16, BecomesTyped DEF TypeOK, FinishNode

(* Starting a run: a new row, or the newest one taken up again.            *)
LEMMA SubmitType ==
  ASSUME TypeOK, NEW r \in Runs, Submit(r)
  PROVE  TypeOK'
<1> DEFINE l(b, s) == [[[IdleRun(canvas) EXCEPT !.pc = "looking"] EXCEPT !.resume = b]
                         EXCEPT !.start = s]
<1>1. PICK b \in BOOLEAN : \E s \in Node \cup {NoNode} : Becomes(r, l(b, s))
  BY ClientAssumption DEF Submit
<1>2. PICK s \in Node \cup {NoNode} : Becomes(r, l(b, s))
  BY <1>1
<1>3. IdleRun(canvas) \in RunState
  BY IdleType DEF TypeOK
<1>4. [IdleRun(canvas) EXCEPT !.pc = "looking"] \in RunState
  BY <1>3, AssignTypes DEF Pc
<1>5. [[IdleRun(canvas) EXCEPT !.pc = "looking"] EXCEPT !.resume = b] \in RunState
  BY <1>4, AssignTypes
<1>6. l(b, s) \in RunState
  BY <1>5, AssignTypes
<1> QED
  BY <1>2, <1>6, BecomesTyped DEF TypeOK, Submit

LEMMA CreateExecutionType ==
  ASSUME TypeOK, NEW r \in Runs, CreateExecution(r)
  PROVE  TypeOK'
<1> DEFINE Q  == {[turn |-> <<0, 0>>, node |-> n] : n \in StartingNodes(FlowOf(r))}
           l1 == [run[r] EXCEPT !.pc = "running"]
           l2 == [l1 EXCEPT !.exec = created + 1]
           l3 == [l2 EXCEPT !.queue = Q]
<1>1. run[r] \in RunState /\ run[r].flow \in Flows
  BY DEF TypeOK, RunState
<1>2. created + 1 \in Exec /\ created + 1 \in 0 .. MaxExecutions
  BY BoundsAssumption DEF TypeOK, CreateExecution, Exec
<1>3. Q \subseteq Ticket
  BY <1>1, GraphTypes DEF FlowOf, Ticket
<1>4. l1 \in RunState
  BY <1>1, AssignTypes DEF Pc
<1>5. l2 \in RunState
  BY <1>2, <1>4, AssignTypes
<1>6. l3 \in RunState
  BY <1>3, <1>5, AssignTypes
<1>7. run' \in [Runs -> RunState]
  BY <1>6, BecomesTyped DEF CreateExecution, TypeOK
<1>8. rows' \in [Exec -> Row \cup {NoRow}]
  BY EmptyIsData DEF CreateExecution, TypeOK, Row, ExecutionState
<1> QED
  BY <1>2, <1>7, <1>8 DEF TypeOK, CreateExecution

LEMMA ResumeExecutionType ==
  ASSUME TypeOK, NEW r \in Runs, NEW e \in Exec, ResumeExecution(r, e)
  PROVE  TypeOK'
<1> DEFINE kept == KeptData(rows[e])
           s  == StartOf(kept, run[r].start)
           ph == IF rows[e].state = "ERROR" THEN "retry" ELSE "claim"
           Q  == {[turn |-> <<0, 0>>, node |-> s]}
           l1 == [run[r] EXCEPT !.pc = "find"]
           l2 == [l1 EXCEPT !.phase = ph]
           l3 == [l2 EXCEPT !.exec = e]
           l4 == [l3 EXCEPT !.data = kept]
           l5 == [l4 EXCEPT !.start = s]
           l6 == [l5 EXCEPT !.human = s]
           l7 == [l6 EXCEPT !.queue = Q]
<1>1. run[r] \in RunState /\ rows[e] \in Row
  BY DEF TypeOK, ResumeExecution, CanResume, IsNewest
<1>2. kept \in Data
  BY <1>1 DEF KeptData, DropLatest, Row, Data
<1>3. s \in Node \cup {NoNode} /\ s # NoNode
  BY <1>2, StartTypes DEF ResumeExecution, CanResume
<1>4. Q \subseteq Ticket
  BY <1>3 DEF Ticket
<1>5. ph \in Phase
  BY DEF Phase
<1>6. l2 \in RunState
  BY <1>1, <1>5, AssignTypes DEF Pc
<1>7. l3 \in RunState
  BY <1>6, AssignTypes
<1>8. l4 \in RunState
  BY <1>7, <1>2, AssignTypes
<1>9. l5 \in RunState
  BY <1>8, <1>3, AssignTypes
<1>10. l6 \in RunState
  BY <1>9, <1>3, AssignTypes
<1>11. l7 \in RunState
  BY <1>10, <1>4, AssignTypes
<1>12. Becomes(r, l7)
  BY DEF ResumeExecution
<1> QED
  BY <1>11, <1>12, BecomesTyped DEF TypeOK, ResumeExecution

(* updateExecution.                                                        *)
LEMMA FindRowType ==
  ASSUME TypeOK, NEW r \in Runs, FindRow(r), run[r].exec \in Exec
  PROVE  TypeOK'
<1> DEFINE row == rows[run[r].exec]
           l1  == [run[r] EXCEPT !.pc = "failed"]
           l2  == [[run[r] EXCEPT !.pc = "save"] EXCEPT !.found = row]
<1>1. run[r] \in RunState /\ row \in Row \cup {NoRow}
  BY DEF TypeOK
<1>2. l1 \in RunState
  BY <1>1, AssignTypes DEF Pc
<1>3. [run[r] EXCEPT !.pc = "save"] \in RunState
  BY <1>1, AssignTypes DEF Pc
<1>4. l2 \in RunState
  BY <1>1, <1>3, AssignTypes
<1>5. CASE row = NoRow
  BY <1>2, <1>5, BecomesTyped DEF TypeOK, FindRow
<1>6. CASE row # NoRow
  BY <1>4, <1>6, BecomesTyped DEF TypeOK, FindRow
<1> QED
  BY <1>5, <1>6

LEMMA SaveRowType ==
  ASSUME TypeOK, NEW r \in Runs, SaveRow(r), run[r].found # NoRow
  PROVE  TypeOK'
<1> DEFINE l1 == [run[r] EXCEPT !.pc = AfterSave(r)]
           l2 == [l1 EXCEPT !.phase = IF run[r].phase = "retry" THEN "claim" ELSE run[r].phase]
<1>1. run[r] \in RunState
  BY DEF TypeOK
<1>2. Merged(r) \in Row
  BY <1>1 DEF Merged, RunState, Row
<1>3. AfterSave(r) \in Pc
  BY DEF AfterSave, Pc
<1>4. (IF run[r].phase = "retry" THEN "claim" ELSE run[r].phase) \in Phase
  BY <1>1 DEF Phase, RunState
<1>5. l1 \in RunState
  BY <1>1, <1>3, AssignTypes
<1>6. l2 \in RunState
  BY <1>4, <1>5, AssignTypes
<1>7. run' \in [Runs -> RunState]
  BY <1>6, BecomesTyped DEF TypeOK, SaveRow
<1>8. rows' \in [Exec -> Row \cup {NoRow}]
  BY <1>2 DEF TypeOK, SaveRow
<1> QED
  BY <1>7, <1>8 DEF TypeOK, SaveRow

(* The other ways a step of the main loop ends.                            *)
LEMMA StopForHumanType ==
  ASSUME TypeOK, NEW r \in Runs, NEW q \in run[r].queue, StopForHuman(r, q)
  PROVE  TypeOK'
<1> DEFINE n  == q.node
           l1 == [run[r] EXCEPT !.data = Push(DataBefore(r, n), n, "STOPPED", r)]
           l2 == [l1 EXCEPT !.human = HumanAfter(r, n)]
           l3 == [l2 EXCEPT !.queue = {}]
           l4 == [l3 EXCEPT !.steps = run[r].steps + 1]
           l5 == [l4 EXCEPT !.status = "STOPPED"]
<1>1. run[r] \in RunState /\ n \in Node
  BY DEF TypeOK, RunState, Ticket
<1>2. Push(DataBefore(r, n), n, "STOPPED", r) \in Data
  <2>1. DataBefore(r, n) \in Data
    BY <1>1, DataTypes DEF DataBefore, RunState
  <2> QED
    BY <2>1, <1>1, DataTypes DEF EntryStatus, ExecutionState
<1>3. HumanAfter(r, n) \in Node \cup {NoNode} /\ run[r].steps + 1 \in Nat
  BY <1>1 DEF HumanAfter, RunState
<1>4. l1 \in RunState
  BY <1>1, <1>2, AssignTypes
<1>5. l2 \in RunState
  BY <1>3, <1>4, AssignTypes
<1>6. l3 \in RunState
  BY <1>5, AssignTypes
<1>7. l4 \in RunState
  BY <1>3, <1>6, AssignTypes
<1>8. l5 \in RunState
  BY <1>7, AssignTypes DEF ExecutionState
<1>9. Becomes(r, l5)
  BY DEF StopForHuman
<1> QED
  BY <1>8, <1>9, BecomesTyped DEF TypeOK, StopForHuman

LEMMA CatchType ==
  ASSUME run \in [Runs -> RunState], NEW r \in Runs, NEW q \in run[r].queue,
         NEW s \in {"ERROR", "TERMINATED"}, Catch(r, q, s)
  PROVE  run' \in [Runs -> RunState]
<1> DEFINE l1 == [run[r] EXCEPT !.data = Push(run[r].data, q.node, s, r)]
           l2 == [l1 EXCEPT !.status = s]
           l3 == [l2 EXCEPT !.queue = run[r].queue \ {q}]
           l4 == [l3 EXCEPT !.steps = run[r].steps + 1]
           l5 == [l4 EXCEPT !.pc = "find"]
           l6 == [l5 EXCEPT !.phase = "error"]
<1>1. run[r] \in RunState /\ q.node \in Node /\ run[r].data \in Data
  BY DEF RunState, Ticket
<1>2. s \in EntryStatus /\ s \in ExecutionState
  BY DEF EntryStatus, ExecutionState
<1>3. Push(run[r].data, q.node, s, r) \in Data
  BY <1>1, <1>2, DataTypes
<1>4. run[r].queue \ {q} \subseteq Ticket /\ run[r].steps + 1 \in Nat
  BY <1>1 DEF RunState
<1>5. l1 \in RunState
  BY <1>1, <1>3, AssignTypes
<1>6. l2 \in RunState
  BY <1>2, <1>5, AssignTypes
<1>7. l3 \in RunState
  BY <1>4, <1>6, AssignTypes
<1>8. l4 \in RunState
  BY <1>4, <1>7, AssignTypes
<1>9. l5 \in RunState
  BY <1>8, AssignTypes DEF Pc
<1>10. l6 \in RunState
  BY <1>9, AssignTypes DEF Phase
<1>11. Becomes(r, l6)
  BY DEF Catch
<1> QED
  BY <1>10, <1>11, BecomesTyped

LEMMA SkipMissingNodeType ==
  ASSUME TypeOK, NEW r \in Runs, NEW q \in run[r].queue, SkipMissingNode(r, q)
  PROVE  TypeOK'
<1> DEFINE l1 == [run[r] EXCEPT !.queue = run[r].queue \ {q}]
           l2 == [l1 EXCEPT !.steps = run[r].steps + 1]
<1>1. run[r] \in RunState /\ run[r].queue \ {q} \subseteq Ticket /\ run[r].steps + 1 \in Nat
  BY DEF TypeOK, RunState
<1>2. l1 \in RunState
  BY <1>1, AssignTypes
<1>3. l2 \in RunState
  BY <1>1, <1>2, AssignTypes
<1> QED
  BY <1>3, BecomesTyped DEF TypeOK, SkipMissingNode

LEMMA EndLoopType ==
  ASSUME TypeOK, NEW r \in Runs, EndLoop(r)
  PROVE  TypeOK'
<1> DEFINE l1 == [run[r] EXCEPT !.pc = "find"]
           l2 == [l1 EXCEPT !.phase = "settle"]
           l3 == [l2 EXCEPT !.status = FinalStatus(run[r].data)]
<1>1. run[r] \in RunState
  BY DEF TypeOK
<1>2. FinalStatus(run[r].data) \in ExecutionState
  BY DEF FinalStatus, ExecutionState
<1>3. l1 \in RunState
  BY <1>1, AssignTypes DEF Pc
<1>4. l2 \in RunState
  BY <1>3, AssignTypes DEF Phase
<1>5. l3 \in RunState
  BY <1>2, <1>4, AssignTypes
<1>6. Becomes(r, l3)
  BY DEF EndLoop
<1> QED
  BY <1>5, <1>6, BecomesTyped DEF TypeOK, EndLoop

(* A run that only moves to another pc.                                    *)
LEMMA MoveType ==
  ASSUME TypeOK, NEW r \in Runs,
         ExceedIterations(r) \/ Crash(r) \/ Abort(r) \/ RefuseRequest(r)
  PROVE  TypeOK'
<1>1. \A k \in Disturbances : Spend(k) => budget' \in [Disturbances -> Nat]
  BY DEF TypeOK, Spend
<1>2. \A v \in Pc : [run[r] EXCEPT !.pc = v] \in RunState
  BY AssignTypes DEF TypeOK
<1>3. [run[r] EXCEPT !.aborted = TRUE] \in RunState
  BY AssignTypes DEF TypeOK
<1>4. CASE ExceedIterations(r) \/ RefuseRequest(r)
  BY <1>2, <1>4, BecomesTyped DEF TypeOK, ExceedIterations, RefuseRequest, Pc
<1>5. CASE Crash(r)
  <2>1. run' \in [Runs -> RunState]
    BY <1>2, <1>5, BecomesTyped DEF TypeOK, Crash, Pc
  <2> QED
    BY <1>1, <1>5, <2>1 DEF TypeOK, Crash, Disturbances
<1>6. CASE Abort(r)
  <2>1. run' \in [Runs -> RunState]
    BY <1>3, <1>6, BecomesTyped DEF TypeOK, Abort
  <2> QED
    BY <1>1, <1>6, <2>1 DEF TypeOK, Abort, Disturbances
<1> QED
  BY <1>4, <1>5, <1>6

(* What other users of the database do.                                    *)
LEMMA OutsideType ==
  ASSUME TypeOK,
         \/ \E e \in Exec : DeleteExecution(e) \/ ShareFind(e)
         \/ ShareSave
         \/ \E f \in Flows : EditFlow(f)
  PROVE  TypeOK'
<1>1. \A k \in Disturbances : Spend(k) => budget' \in [Disturbances -> Nat]
  BY DEF TypeOK, Spend
<1>2. ASSUME NEW e \in Exec, DeleteExecution(e) PROVE TypeOK'
  BY <1>1, <1>2 DEF TypeOK, DeleteExecution, Disturbances
<1>3. ASSUME NEW e \in Exec, ShareFind(e) PROVE TypeOK'
  BY <1>1, <1>3 DEF TypeOK, ShareFind, Disturbances
<1>4. CASE ShareSave
  BY <1>4 DEF TypeOK, ShareSave
<1>5. ASSUME NEW f \in Flows, EditFlow(f) PROVE TypeOK'
  BY <1>1, <1>5 DEF TypeOK, EditFlow, Disturbances
<1> QED
  BY <1>2, <1>3, <1>4, <1>5

(* A run that is driving an execution knows which one, and a run about to  *)
(* save it holds the row it found.                                         *)
HoldsRow(l) ==
  /\ l.pc \in {"running", "find", "save"} => l.exec \in Exec
  /\ l.pc = "save" => l.found # NoRow

TypeInv == TypeOK /\ \A r \in Runs : HoldsRow(run[r])

LEMMA BecomesHolds ==
  ASSUME TypeOK, \A q \in Runs : HoldsRow(run[q]),
         NEW r \in Runs, NEW l, HoldsRow(l), Becomes(r, l)
  PROVE  \A q \in Runs : HoldsRow(run'[q])
BY DEF TypeOK, Becomes

LEMMA ProgressHolds ==
  ASSUME TypeInv, NEW r \in Runs, Submit(r) \/ Progress(r)
  PROVE  \A q \in Runs : HoldsRow(run'[q])
<1>1. run[r] \in RunState /\ HoldsRow(run[r]) /\ TypeOK /\ \A q \in Runs : HoldsRow(run[q])
  BY DEF TypeInv, TypeOK
<1>2. ASSUME Submit(r) PROVE \A q \in Runs : HoldsRow(run'[q])
  <2>1. PICK b \in BOOLEAN, s \in Node \cup {NoNode} :
          Becomes(r, [IdleRun(canvas) EXCEPT !.pc = "looking", !.resume = b, !.start = s])
    BY <1>2, ClientAssumption DEF Submit
  <2>2. HoldsRow([IdleRun(canvas) EXCEPT !.pc = "looking", !.resume = b, !.start = s])
    BY DEF HoldsRow, IdleRun
  <2> QED
    BY <1>1, <2>1, <2>2, BecomesHolds
<1>3. ASSUME CreateExecution(r) PROVE \A q \in Runs : HoldsRow(run'[q])
  <2>1. created + 1 \in Exec
    BY <1>1, <1>3, BoundsAssumption DEF TypeOK, CreateExecution, Exec
  <2>2. HoldsRow([run[r] EXCEPT !.pc = "running", !.exec = created + 1,
          !.queue = {[turn |-> <<0, 0>>, node |-> n] : n \in StartingNodes(FlowOf(r))}])
    BY <1>1, <2>1 DEF HoldsRow, RunState
  <2> QED
    BY <1>1, <1>3, <2>2, BecomesHolds DEF CreateExecution
<1>4. ASSUME NEW e \in Exec, ResumeExecution(r, e) PROVE \A q \in Runs : HoldsRow(run'[q])
  <2>1. \A ph, kept, s, Q :
          HoldsRow([run[r] EXCEPT !.pc = "find", !.phase = ph, !.exec = e, !.data = kept,
                                  !.start = s, !.human = s, !.queue = Q])
    BY <1>1 DEF HoldsRow, RunState
  <2> QED
    BY <1>1, <1>4, <2>1, BecomesHolds DEF ResumeExecution
<1>5. ASSUME RefuseRequest(r) \/ ExceedIterations(r) PROVE \A q \in Runs : HoldsRow(run'[q])
  <2>1. \A v \in {"rejected", "failed"} : HoldsRow([run[r] EXCEPT !.pc = v])
    BY <1>1 DEF HoldsRow, RunState
  <2> QED
    BY <1>1, <1>5, <2>1, BecomesHolds DEF RefuseRequest, ExceedIterations
<1>6. ASSUME FindRow(r) PROVE \A q \in Runs : HoldsRow(run'[q])
  <2> DEFINE row == rows[run[r].exec]
  <2>1. HoldsRow([run[r] EXCEPT !.pc = "failed"])
    BY <1>1 DEF HoldsRow, RunState
  <2>2. row # NoRow => HoldsRow([run[r] EXCEPT !.pc = "save", !.found = row])
    BY <1>1, <1>6 DEF HoldsRow, RunState, FindRow
  <2> QED
    BY <1>1, <1>6, <2>1, <2>2, BecomesHolds DEF FindRow
<1>7. ASSUME SaveRow(r) PROVE \A q \in Runs : HoldsRow(run'[q])
  <2>1. AfterSave(r) # "save"
    BY DEF AfterSave
  <2>2. HoldsRow([run[r] EXCEPT !.pc = AfterSave(r),
                                !.phase = IF @ = "retry" THEN "claim" ELSE @])
    BY <1>1, <1>7, <2>1 DEF HoldsRow, RunState, SaveRow
  <2> QED
    BY <1>1, <1>7, <2>2, BecomesHolds DEF SaveRow
<1>8. ASSUME NodeStep(r) PROVE \A q \in Runs : HoldsRow(run'[q])
  <2>1. run[r].pc = "running"
    BY <1>8 DEF NodeStep, FinishNode, StopForHuman, FailNode, AbortNode, SkipMissingNode, Executes
  <2>3. \A d, h, Q, st, s :
          HoldsRow([run[r] EXCEPT !.data = d, !.human = h, !.queue = Q, !.steps = st,
                                  !.status = s])
    BY <1>1, <2>1 DEF HoldsRow, RunState
  <2>4. \A d, s, Q, st :
          HoldsRow([run[r] EXCEPT !.data = d, !.status = s, !.queue = Q, !.steps = st,
                                  !.pc = "find", !.phase = "error"])
    BY <1>1, <2>1 DEF HoldsRow, RunState
  <2>5. \A Q, st : HoldsRow([run[r] EXCEPT !.queue = Q, !.steps = st])
    BY <1>1, <2>1 DEF HoldsRow, RunState
  <2>6. PICK q \in run[r].queue :
          \/ FinishNode(r, q) \/ StopForHuman(r, q) \/ FailNode(r, q)
          \/ AbortNode(r, q) \/ SkipMissingNode(r, q)
    BY <1>8 DEF NodeStep
  <2>7. CASE FinishNode(r, q)
    <3> DEFINE n == q.node
               D(o) == DeliveryEdges(FlowOf(r), n, o)
    <3>1. PICK o \in Outcomes(FlowOf(r), n) :
            Becomes(r, [run[r] EXCEPT
                 !.data    = Push(DataBefore(r, n), n, "FINISHED", r),
                 !.human   = IF LoopsBack(r, n) THEN NoNode ELSE HumanAfter(r, n),
                 !.waiting = WaitingAfter(r, n, D(o)),
                 !.queue   = QueueAfter(r, q, D(o)),
                 !.loops   = LoopsAfter(r, n),
                 !.steps   = @ + 1])
      BY <2>7 DEF FinishNode
    <3>2. HoldsRow([run[r] EXCEPT
                 !.data    = Push(DataBefore(r, n), n, "FINISHED", r),
                 !.human   = IF LoopsBack(r, n) THEN NoNode ELSE HumanAfter(r, n),
                 !.waiting = WaitingAfter(r, n, D(o)),
                 !.queue   = QueueAfter(r, q, D(o)),
                 !.loops   = LoopsAfter(r, n),
                 !.steps   = @ + 1])
      BY <1>1, <2>1 DEF HoldsRow, RunState
    <3> QED
      BY <1>1, <3>1, <3>2, BecomesHolds
  <2>8. CASE StopForHuman(r, q)
    BY <1>1, <2>3, <2>8, BecomesHolds DEF StopForHuman
  <2>9. CASE FailNode(r, q) \/ AbortNode(r, q)
    BY <1>1, <2>4, <2>9, BecomesHolds DEF FailNode, AbortNode, Catch
  <2>10. CASE SkipMissingNode(r, q)
    BY <1>1, <2>5, <2>10, BecomesHolds DEF SkipMissingNode
  <2> QED
    BY <2>6, <2>7, <2>8, <2>9, <2>10
<1>9. ASSUME EndLoop(r) PROVE \A q \in Runs : HoldsRow(run'[q])
  <2>1. \A s : HoldsRow([run[r] EXCEPT !.pc = "find", !.phase = "settle", !.status = s])
    BY <1>1, <1>9 DEF HoldsRow, RunState, EndLoop
  <2> QED
    BY <1>1, <1>9, <2>1, BecomesHolds DEF EndLoop
<1> QED
  BY <1>2, <1>3, <1>4, <1>5, <1>6, <1>7, <1>8, <1>9 DEF Progress

LEMMA DisturbHolds ==
  ASSUME TypeInv, Disturb
  PROVE  \A q \in Runs : HoldsRow(run'[q])
<1>1. ASSUME NEW r \in Runs, Crash(r) PROVE \A q \in Runs : HoldsRow(run'[q])
  <2>1. HoldsRow([run[r] EXCEPT !.pc = "crashed"])
    BY DEF HoldsRow, TypeInv, TypeOK, RunState
  <2> QED
    BY <1>1, <2>1, BecomesHolds DEF TypeInv, Crash
<1>2. ASSUME NEW r \in Runs, Abort(r) PROVE \A q \in Runs : HoldsRow(run'[q])
  <2>1. HoldsRow([run[r] EXCEPT !.aborted = TRUE])
    BY DEF HoldsRow, TypeInv, TypeOK, RunState
  <2> QED
    BY <1>2, <2>1, BecomesHolds DEF TypeInv, Abort
<1>3. CASE UNCHANGED run
  BY <1>3 DEF TypeInv
<1> QED
  BY <1>1, <1>2, <1>3 DEF Disturb, DeleteExecution, ShareFind, ShareSave, EditFlow

LEMMA TypeStep == TypeInv /\ [Next]_vars => TypeInv'
<1> SUFFICES ASSUME TypeInv, [Next]_vars PROVE TypeInv'
  OBVIOUS
<1>1. TypeOK
  BY DEF TypeInv
<1>2. ASSUME NEW r \in Runs, Submit(r) \/ Progress(r) PROVE TypeInv'
  <2>1. \A q \in Runs : HoldsRow(run'[q])
    BY <1>2, ProgressHolds
  <2>2. CASE Submit(r)
    BY <1>1, <2>1, <2>2, SubmitType DEF TypeInv
  <2>3. CASE CreateExecution(r)
    BY <1>1, <2>1, <2>3, CreateExecutionType DEF TypeInv
  <2>4. CASE \E e \in Exec : ResumeExecution(r, e)
    BY <1>1, <2>1, <2>4, ResumeExecutionType DEF TypeInv
  <2>5. CASE RefuseRequest(r) \/ ExceedIterations(r)
    BY <1>1, <2>1, <2>5, MoveType DEF TypeInv
  <2>6. CASE FindRow(r)
    <3>1. run[r].exec \in Exec
      BY <2>6 DEF TypeInv, HoldsRow, FindRow
    <3> QED
      BY <1>1, <2>1, <2>6, <3>1, FindRowType DEF TypeInv
  <2>7. CASE SaveRow(r)
    <3>1. run[r].found # NoRow
      BY <2>7 DEF TypeInv, HoldsRow, SaveRow
    <3> QED
      BY <1>1, <2>1, <2>7, <3>1, SaveRowType DEF TypeInv
  <2>8. CASE NodeStep(r)
    <3>1. PICK q \in run[r].queue :
            \/ FinishNode(r, q) \/ StopForHuman(r, q) \/ FailNode(r, q)
            \/ AbortNode(r, q) \/ SkipMissingNode(r, q)
      BY <2>8 DEF NodeStep
    <3>2. CASE FinishNode(r, q)
      BY <1>1, <2>1, <3>2, FinishNodeType DEF TypeInv
    <3>3. CASE StopForHuman(r, q)
      BY <1>1, <2>1, <3>3, StopForHumanType DEF TypeInv
    <3>4. CASE FailNode(r, q) \/ AbortNode(r, q)
      <4>1. run' \in [Runs -> RunState]
        BY <1>1, <3>4, CatchType DEF TypeOK, FailNode, AbortNode
      <4> QED
        BY <1>1, <2>1, <3>4, <4>1 DEF TypeInv, TypeOK, FailNode, AbortNode
    <3>5. CASE SkipMissingNode(r, q)
      BY <1>1, <2>1, <3>5, SkipMissingNodeType DEF TypeInv
    <3> QED
      BY <3>1, <3>2, <3>3, <3>4, <3>5
  <2>9. CASE EndLoop(r)
    BY <1>1, <2>1, <2>9, EndLoopType DEF TypeInv
  <2> QED
    BY <1>2, <2>2, <2>3, <2>4, <2>5, <2>6, <2>7, <2>8, <2>9 DEF Progress
<1>3. CASE Disturb
  <2>1. \A q \in Runs : HoldsRow(run'[q])
    BY <1>3, DisturbHolds
  <2>2. TypeOK'
    BY <1>1, <1>3, MoveType, OutsideType DEF Disturb
  <2> QED
    BY <2>1, <2>2 DEF TypeInv
<1>4. CASE UNCHANGED vars
  BY <1>4 DEF TypeInv, TypeOK, vars
<1> QED
  BY <1>2, <1>3, <1>4 DEF Next

(* The tables and the locals of every run keep their shape, and a run that *)
(* is about to save a row has found one.                                   *)
THEOREM TypeInvariant == Spec => []TypeInv
<1>1. Init => TypeInv
  BY InitType DEF Init, IdleRun, TypeInv, HoldsRow
<1> QED
  BY <1>1, TypeStep, PTL DEF Spec

(* Type correctness.                                                       *)
THEOREM TypeCorrect == Spec => []TypeOK
<1>1. TypeInv => TypeOK
  BY DEF TypeInv
<1> QED
  BY <1>1, TypeInvariant, PTL
=============================================================================
