------------------------ MODULE AgentflowWalkProofs ------------------------
(***************************************************************************)
(* How a run walks its flow, for every flow and every bound, however many  *)
(* requests race: a node that joins branches runs after every input it     *)
(* must wait for, an execution that one request finished on its own left   *)
(* no branch out, and a loop runs its body no more often than it may.      *)
(*                                                                         *)
(* All are about what the three pieces of a run's memory say together:     *)
(* an input that is waiting has finished, a queued node has all its        *)
(* inputs, and the result of a finished node is not lost: the child it     *)
(* was delivered to holds it among its waiting inputs, is queued, or ran.  *)
(***************************************************************************)
EXTENDS AgentflowRowProofs, AgentflowGateProofs, FiniteSetTheorems

Fin(d, r, s) == \E y \in d.items : y.by = r /\ y.node = s /\ y.status = "FINISHED"

Ran(d, r, c) == \E y \in d.items : y.by = r /\ y.node = c

NoneBy(d, r) == \A x \in d.items : x.by # r

AllBy(d, r) == \A x \in d.items : x.by = r

NoInput == [n \in Node |-> {}]

Fresh(l) == l.pc \in {"idle", "looking"}

(* A run before or in its main loop.                                       *)
Walking(l) ==
  \/ l.pc = "running"
  \/ l.pc \in {"find", "save"} /\ l.phase \in {"retry", "claim"}

FreeTargets(l) == JumpTargets(FlowData[l.flow]) \cup {l.start}

(* JoinWaitsForAll, of one run.                                            *)
InOrder(l, r) ==
  \A x \in l.data.items :
    (x.by = r /\ x.node \notin FreeTargets(l)) =>
      \A s \in ExpectedInputs(FlowData[l.flow], x.node) :
        \E y \in l.data.items :
          y.by = r /\ y.node = s /\ y.status = "FINISHED" /\ y.pos < x.pos

(* A queued node has its inputs, unless it is reached without.             *)
Reached(l, r, c) ==
  c \notin FreeTargets(l) => \A s \in ExpectedInputs(FlowData[l.flow], c) : Fin(l.data, r, s)

(* A waiting input has finished, and a node that has all its inputs does   *)
(* not wait.                                                               *)
Waits(l, r, c) ==
  /\ \A s \in l.waiting[c] : Fin(l.data, r, s)
  /\ l.waiting[c] # {} => ~HasReceivedRequiredInputs(FlowData[l.flow], c, l.waiting[c])

(* The result of s is somewhere on its way to the child c, or has arrived. *)
Delivered(l, r, s, c) ==
  s \in l.waiting[c] \/ (\E q \in l.queue : q.node = c) \/ Ran(l.data, r, c)

NoneLost(l, r) ==
  \A s \in Node, c \in FlowData[l.flow].nodes :
    Fin(l.data, r, s) /\ ~IsDecision(FlowData[l.flow], s) /\ s \in Sources(FlowData[l.flow], c)
      => Delivered(l, r, s, c)

(* A run that has asked a human has nothing left to do.                    *)
Asked(l) == l.status = "STOPPED" /\ l.queue = {} /\ Has(l.data, "STOPPED")

WalkRun(l, r) ==
  /\ InOrder(l, r)
  /\ Fresh(l) => l.waiting = NoInput
  /\ Walking(l) => /\ \A c \in Node : Waits(l, r, c)
                   /\ \A q \in l.queue : Reached(l, r, q.node)
                   /\ Asked(l) \/ (l.status = "INPROGRESS" /\ NoneLost(l, r))
  /\ l.data.items = {} \/ Has(l.data, "STOPPED") \/ ~NoneBy(l.data, r)
  /\ l.pc \in {"find", "save"} /\ l.status = "FINISHED" /\ AllBy(l.data, r)
       => RanAll(FlowData[l.flow], l.data)

Complete(row) ==
  row.state = "FINISHED" =>
    \A r \in Runs : AllBy(row.data, r) => RanAll(FlowOf(r), row.data)

WalkInv ==
  /\ \A r \in Runs : WalkRun(run[r], r)
  /\ \A r \in Runs : Fresh(run[r]) => \A d \in Stores : NoneBy(d, r)
  /\ \A e \in Exec : rows[e] # NoRow => Complete(rows[e])
  /\ sharing.row # NoRow => Complete(sharing.row)

-----------------------------------------------------------------------------
(* Executed data.                                                          *)

(* What a push adds.                                                       *)
LEMMA PushAdds ==
  ASSUME NEW d \in Data, NEW n \in Node, NEW r \in Runs, NEW s \in EntryStatus
  PROVE  /\ \A p \in Runs, m \in Node : Fin(Push(d, n, s, r), p, m) <=>
              Fin(d, p, m) \/ (s = "FINISHED" /\ p = r /\ m = n)
         /\ \A p \in Runs, m \in Node : Ran(Push(d, n, s, r), p, m) <=>
              Ran(d, p, m) \/ (p = r /\ m = n)
         /\ \A t : Has(Push(d, n, s, r), t) <=> Has(d, t) \/ t = s
         /\ \A p \in Runs : NoneBy(Push(d, n, s, r), p) <=> NoneBy(d, p) /\ p # r
<1> DEFINE x == [pos |-> d.next, node |-> n, status |-> s, by |-> r]
<1>1. Push(d, n, s, r).items = d.items \cup {x}
  BY DEF Push
<1>2. x.node = n /\ x.status = s /\ x.by = r
  OBVIOUS
<1> HIDE DEF x
<1> QED
  BY <1>1, <1>2 DEF Fin, Ran, Has, NoneBy

(* Running a node that is reached in order keeps the order.                *)
LEMMA PushInOrder ==
  ASSUME NEW l \in RunState, NEW m \in RunState, NEW r \in Runs,
         m.flow = l.flow, m.start = l.start,
         NEW d \in Data, d.items \subseteq l.data.items, Stamped(d),
         \A x \in l.data.items : x.by = r /\ x.status = "FINISHED" => x \in d.items,
         NEW n \in Node, NEW s \in EntryStatus, m.data = Push(d, n, s, r),
         InOrder(l, r), Reached(l, r, n)
  PROVE  InOrder(m, r)
<1> DEFINE x == [pos |-> d.next, node |-> n, status |-> s, by |-> r]
<1>1. m.data.items = d.items \cup {x} /\ FreeTargets(m) = FreeTargets(l)
  BY DEF Push, FreeTargets
<1>2. \A y \in d.items : y.pos < x.pos
  BY DEF Stamped
<1>3. x.node = n
  OBVIOUS
<1> HIDE DEF x
<1>4. ASSUME NEW y \in m.data.items, y.by = r, y.node \notin FreeTargets(l),
             NEW i \in ExpectedInputs(FlowData[l.flow], y.node)
      PROVE  \E z \in m.data.items : 
               z.by = r /\ z.node = i /\ z.status = "FINISHED" /\ z.pos < y.pos
  <2>1. CASE y \in d.items
    BY <1>1, <1>4, <2>1 DEF InOrder
  <2>2. CASE y = x
    BY <1>1, <1>2, <1>3, <1>4, <2>2 DEF Reached, Fin
  <2> QED
    BY <1>1, <2>1, <2>2
<1> QED
  BY <1>1, <1>4 DEF InOrder

(* A run whose data does not change.                                       *)
LEMMA SameInOrder ==
  ASSUME NEW l \in RunState, NEW m \in RunState, NEW r \in Runs,
         m.flow = l.flow, m.start = l.start, m.data = l.data, InOrder(l, r)
  PROVE  InOrder(m, r)
BY DEF InOrder, FreeTargets

(* Data a run did not write is in order.                                   *)
LEMMA NoneInOrder ==
  ASSUME NEW l, NEW r \in Runs, NoneBy(l.data, r)
  PROVE  InOrder(l, r)
BY DEF InOrder, NoneBy

(* What a node's run starts from: the data as it is, or, for the node the  *)
(* request answers, data in which the run finished nothing.                *)
LEMMA BeforeKeeps ==
  ASSUME TypeInv, GateInv, NEW r \in Runs, NEW n \in Node
  PROVE  /\ DataBefore(r, n) \in Data
         /\ DataBefore(r, n).items \subseteq run[r].data.items
         /\ \/ DataBefore(r, n) = run[r].data
            \/ \A s : ~Fin(run[r].data, r, s)
         /\ \A x \in run[r].data.items :
              x.by = r /\ x.status = "FINISHED" => x \in DataBefore(r, n).items
<1>1. run[r].data \in Data
  BY DEF TypeInv, TypeOK, RunState
<1>2. CASE run[r].human = n
  <2>1. n # NoNode
    BY FlowsAssumption
  <2>2. Pending(run[r]) /\ run[r].data \in Stores
    BY <1>2, <2>1 DEF Pending, Stores
  <2>3. Untouched(run[r].data, r)
    BY <2>2 DEF GateInv, GateData
  <2>4. DataBefore(r, n) \in Data /\ DataBefore(r, n).items \subseteq run[r].data.items
    BY <1>1, <1>2, DataTypes DEF DataBefore, Without, Data
  <2> QED
    BY <2>3, <2>4 DEF Untouched, Fin
<1>3. CASE run[r].human # n
  BY <1>1, <1>3 DEF DataBefore
<1> QED
  BY <1>2, <1>3

(* Whoever finished everything has left nothing waiting behind: a node all *)
(* of whose inputs came is complete.                                       *)
LEMMA AllInputsSuffice ==
  ASSUME NEW f, NEW c, NEW received, Sources(f, c) \subseteq received
  PROVE  HasReceivedRequiredInputs(f, c, received)
<1>1. ExpectedInputs(f, c) \subseteq received
  BY DEF ExpectedInputs
<1>2. \A g \in ConditionalGroups(f, c) : g \cap received # {}
  <2> SUFFICES ASSUME NEW g \in ConditionalGroups(f, c) PROVE g \cap received # {}
    OBVIOUS
  <2>1. PICK s \in Sources(f, c) :
          g = {t \in Sources(f, c) : ConditionParent(f, t) = ConditionParent(f, s)}
    BY DEF ConditionalGroups
  <2> QED
    BY <2>1
<1> QED
  BY <1>1, <1>2 DEF HasReceivedRequiredInputs
-----------------------------------------------------------------------------
(* Running a node.                                                         *)

(* Of a set of edges one is the first.                                     *)
LEMMA LeastEdge ==
  ASSUME NEW E \in SUBSET Nat, E # {}
  PROVE  \E i \in E : \A j \in E : i <= j
<1> DEFINE R == {ss \in Nat \X Nat : ss[1] < ss[2]}
<1>1. R = OpToRel(<, Nat)
  BY DEF OpToRel
<1>2. IsWellFoundedOn(R, Nat)
  BY <1>1, NatLessThanWellFounded
<1>3. PICK i \in E : \A j \in E : ~(<<j, i>> \in R)
  BY <1>2, WFMin
<1>4. \A j \in E : ~(j < i)
  BY <1>3
<1> QED
  BY <1>4

(* A delivery along the edges D reaches the node c.                        *)
Hit(r, D, c) == \E i \in D : FlowOf(r).edges[i].target = c

(* What a child waits for once n delivered along D.                        *)
WaitsFor(r, n, D, c, inputs) ==
  /\ ~Hit(r, D, c) => inputs = run[r].waiting[c]
  /\ Hit(r, D, c) /\ ~Ready(r, n, c) => inputs = run[r].waiting[c] \cup {n}
  /\ Hit(r, D, c) /\ Ready(r, n, c) =>
       inputs = {} \/ (inputs = {n} /\ ~HasReceivedRequiredInputs(FlowOf(r), c, {n}))

(* What a run waits for and has queued once q.node delivered along D.      *)
DeliversFrom(r, q, D) ==
  /\ \A c \in Node : WaitsFor(r, q.node, D, c, WaitingAfter(r, q.node, D)[c])
  /\ \A p \in QueueAfter(r, q, D) :
       \/ p \in run[r].queue
       \/ Hit(r, D, p.node) /\ Ready(r, q.node, p.node)
       \/ FlowOf(r).kind[q.node] = "loop" /\ p.node = FlowOf(r).loopTo[q.node]
  /\ \A p \in run[r].queue \ {q} : p \in QueueAfter(r, q, D)
  /\ \A c : Hit(r, D, c) /\ Ready(r, q.node, c) =>
       \E p \in QueueAfter(r, q, D) : p.node = c

(* What delivering a result changes, child by child.                       *)
LEMMA Delivers ==
  ASSUME NEW r \in Runs, NEW q, NEW D \in SUBSET Nat
  PROVE  DeliversFrom(r, q, D)
<1> DEFINE f == FlowOf(r)
           at == run[r].steps + 1
           T(i) == [turn |-> <<at, i>>, node |-> f.edges[i].target]
           B == Completing(r, q.node, D)
           L == [turn |-> <<at, Len(f.edges) + 1>>, node |-> f.loopTo[q.node]]
<1>1. ASSUME NEW c \in Node
      PROVE  WaitsFor(r, q.node, D, c, WaitingAfter(r, q.node, D)[c])
  <2>1. Hit(r, D, c) <=> Into(r, c, D) # {}
    BY DEF Hit, Into
  <2>2. WaitingAfter(r, q.node, D)[c] =
          CASE Into(r, c, D) = {} -> run[r].waiting[c]
            [] Into(r, c, D) # {} /\ ~Ready(r, q.node, c) -> Received(r, q.node, c)
            [] Into(r, c, D) # {} /\ Ready(r, q.node, c) ->
                 IF ReadyAgain(r, q.node, c) \/ \A i, j \in Into(r, c, D) : i = j
                 THEN {} ELSE {q.node}
    BY DEF WaitingAfter
  <2> QED
    BY <2>1, <2>2 DEF WaitsFor, ReadyAgain, Received
<1>2. QueueAfter(r, q, D) = (run[r].queue \ {q}) \cup {T(i) : i \in B}
                              \cup (IF LoopsBack(r, q.node) THEN {L} ELSE {})
  BY DEF QueueAfter
<1>3. \A i : T(i).node = f.edges[i].target
  OBVIOUS
<1>4. L.node = f.loopTo[q.node]
  OBVIOUS
<1> HIDE DEF T, L
<1>5. ASSUME NEW p \in QueueAfter(r, q, D)
      PROVE  \/ p \in run[r].queue
             \/ Hit(r, D, p.node) /\ Ready(r, q.node, p.node)
             \/ f.kind[q.node] = "loop" /\ p.node = f.loopTo[q.node]
  BY <1>2, <1>3, <1>4 DEF LoopsBack, Hit, Completing
<1>6. ASSUME NEW c, Hit(r, D, c), Ready(r, q.node, c)
      PROVE  \E p \in QueueAfter(r, q, D) : p.node = c
  <2>1. PICK i \in Into(r, c, D) : \A j \in Into(r, c, D) : i <= j
    <3>1. Into(r, c, D) \in SUBSET Nat /\ Into(r, c, D) # {}
      BY <1>6 DEF Hit, Into
    <3> QED
      BY <3>1, LeastEdge
  <2>2. i \in B /\ f.edges[i].target = c
    BY <1>6, <2>1 DEF Into, Completing
  <2>3. T(i) \in QueueAfter(r, q, D) /\ T(i).node = c
    BY <1>2, <1>3, <2>2
  <2> QED
    BY <2>3
<1> QED
  BY <1>1, <1>2, <1>5, <1>6 DEF DeliversFrom

(* A node that is not a decision node delivers along every edge.           *)
LEMMA DeliversToAll ==
  ASSUME NEW f, NEW n, NEW o
  PROVE  /\ DeliveryEdges(f, n, o) \subseteq OutEdges(f, n)
         /\ ~IsDecision(f, n) =>
              \A c \in f.nodes : n \in Sources(f, c) =>
                \E i \in DeliveryEdges(f, n, o) : f.edges[i].target = c
<1>1. DeliveryEdges(f, n, o) \subseteq OutEdges(f, n)
  BY DEF DeliveryEdges
<1>2. ASSUME ~IsDecision(f, n), NEW c \in f.nodes, n \in Sources(f, c)
      PROVE  \E i \in DeliveryEdges(f, n, o) : f.edges[i].target = c
  <2>1. PICK i \in InEdges(f, c) : n = f.edges[i].source
    BY <1>2 DEF Sources
  <2>2. i \in DOMAIN f.edges /\ f.edges[i].target = c
    BY DEF InEdges
  <2>3. IgnoredNodes(f, n, o) = {}
    BY <1>2 DEF IgnoredNodes
  <2> QED
    BY <2>1, <2>2, <2>3 DEF DeliveryEdges, OutEdges
<1> QED
  BY <1>1, <1>2

LEMMA FinishNodeWalk ==
  ASSUME TypeInv, SoundInv, GateInv, WalkInv, NEW r \in Runs, NEW q \in run[r].queue,
         FinishNode(r, q)
  PROVE  /\ \A p \in Runs : p # r => run'[p] = run[p]
         /\ WalkRun(run'[r], r) /\ run'[r].flow = run[r].flow /\ ~Fresh(run'[r])
         /\ \A p \in Runs : Fresh(run[p]) => NoneBy(run'[r].data, p)
<1> DEFINE l == run[r]
           f == FlowOf(r)
           n == q.node
           m(o) == [l EXCEPT
                 !.data    = Push(DataBefore(r, n), n, "FINISHED", r),
                 !.human   = IF LoopsBack(r, n) THEN NoNode ELSE HumanAfter(r, n),
                 !.waiting = WaitingAfter(r, n, DeliveryEdges(FlowOf(r), n, o)),
                 !.queue   = QueueAfter(r, q, DeliveryEdges(FlowOf(r), n, o)),
                 !.loops   = LoopsAfter(r, n),
                 !.steps   = @ + 1]
<1>1. PICK o \in Outcomes(FlowOf(r), n) : Becomes(r, m(o))
  BY DEF FinishNode
<1> DEFINE D == DeliveryEdges(f, n, o)
           k == run'[r]
           d == DataBefore(r, n)
<1>2. l \in RunState /\ n \in Node /\ l.pc = "running" /\ n \in f.nodes
  BY DEF TypeInv, TypeOK, RunState, Ticket, FinishNode, Executes
<1>3. /\ k = m(o) /\ \A p \in Runs : p # r => run'[p] = run[p]
  BY <1>1 DEF Becomes, TypeInv, TypeOK
<1>4. /\ k.data = Push(d, n, "FINISHED", r)
      /\ k.waiting = WaitingAfter(r, n, D) /\ k.queue = QueueAfter(r, q, D)
      /\ k.pc = "running" /\ k.flow = l.flow /\ k.start = l.start /\ k.status = l.status
  BY <1>2, <1>3 DEF RunState
<1>5. k \in RunState
  <2>1. TypeOK'
    BY FinishNodeType DEF TypeInv
  <2> QED
    BY <2>1 DEF TypeOK
<1> HIDE DEF m
<1>6. /\ \A c \in Node : Waits(l, r, c)
      /\ \A p \in l.queue : Reached(l, r, p.node)
      /\ l.status = "INPROGRESS" /\ NoneLost(l, r)
      /\ InOrder(l, r)
  BY <1>2 DEF WalkInv, WalkRun, Walking, Asked
<1>7. /\ d \in Data /\ d.items \subseteq l.data.items
      /\ d = l.data \/ \A s : ~Fin(l.data, r, s)
      /\ \A x \in l.data.items : x.by = r /\ x.status = "FINISHED" => x \in d.items
  BY <1>2, BeforeKeeps
<1>8. Stamped(d)
  BY <1>2, WithoutSound DEF SoundInv, SoundRun, DataBefore, RunState
<1>9. "FINISHED" \in EntryStatus
  BY DEF EntryStatus, ExecutionState
<1>10. InOrder(k, r)
  BY <1>2, <1>4, <1>5, <1>6, <1>7, <1>8, <1>9, PushInOrder
<1>11. /\ \A s \in Node : Fin(k.data, r, s) <=> Fin(l.data, r, s) \/ s = n
       /\ \A c \in Node : Ran(d, r, c) \/ c = n => Ran(k.data, r, c)
       /\ ~NoneBy(k.data, r)
       /\ \A p \in Runs : NoneBy(k.data, p) <=> NoneBy(d, p) /\ p # r
  <2>1. \A s \in Node : Fin(d, r, s) <=> Fin(l.data, r, s)
    BY <1>7 DEF Fin
  <2> QED
    BY <1>2, <1>4, <1>7, <1>9, <2>1, PushAdds
<1>12. /\ \A c \in Node : WaitsFor(r, n, D, c, k.waiting[c])
       /\ \A p \in k.queue :
            \/ p \in l.queue
            \/ Hit(r, D, p.node) /\ Ready(r, n, p.node)
            \/ f.kind[n] = "loop" /\ p.node = f.loopTo[n]
       /\ \A p \in l.queue \ {q} : p \in k.queue
       /\ \A c : Hit(r, D, c) /\ Ready(r, n, c) => \E p \in k.queue : p.node = c
  <2>0. D \in SUBSET Nat
    BY <1>2, DeliversToAll, GraphTypes DEF OutEdges, FlowOf, RunState
  <2> HIDE DEF D, k, d
  <2>1. k.waiting = WaitingAfter(r, n, D) /\ k.queue = QueueAfter(r, q, D)
    BY <1>4
  <2>2. DeliversFrom(r, q, D)
    BY <2>0, Delivers
  <2> QED
    BY <2>1, <2>2 DEF DeliversFrom
<1>13. ASSUME NEW c \in Node PROVE Waits(k, r, c)
  <2>1. k.waiting[c] \subseteq l.waiting[c] \cup {n} /\ l.waiting[c] \subseteq Node
    BY <1>2, <1>12 DEF RunState, WaitsFor
  <2>2. \A s \in k.waiting[c] : Fin(k.data, r, s)
    BY <1>2, <1>6, <1>11, <2>1 DEF Waits
  <2>3. k.waiting[c] # {} => ~HasReceivedRequiredInputs(f, c, k.waiting[c])
    <3>1. WaitsFor(r, n, D, c, k.waiting[c])
      BY <1>12
    <3>2. l.waiting[c] # {} => ~HasReceivedRequiredInputs(f, c, l.waiting[c])
      BY <1>6 DEF Waits, FlowOf
    <3> HIDE DEF k, D, f
    <3>3. CASE ~Hit(r, D, c)
      BY <3>1, <3>2, <3>3 DEF WaitsFor
    <3>4. CASE Hit(r, D, c)
      BY <3>1, <3>4 DEF WaitsFor, Ready, Received, f
    <3> QED
      BY <3>3, <3>4
  <2> QED
    BY <1>4, <2>2, <2>3 DEF Waits, FlowOf
<1>14. FreeTargets(k) = FreeTargets(l)
  BY <1>4 DEF FreeTargets
<1>15. ASSUME NEW p \in k.queue PROVE Reached(k, r, p.node)
  <2>1. CASE p \in l.queue
    <3>1. \A s \in ExpectedInputs(f, p.node) : s \in Node
      BY <1>2, FlowsAssumption DEF ExpectedInputs, Sources, FlowOf, Flow, RunState
    <3> QED
      BY <1>4, <1>6, <1>11, <1>14, <2>1, <3>1 DEF Reached, FlowOf
  <2>2. CASE Hit(r, D, p.node) /\ Ready(r, n, p.node)
    <3>1. p.node \in Node
      BY <1>5 DEF RunState, Ticket
    <3>2. ExpectedInputs(f, p.node) \subseteq l.waiting[p.node] \cup {n}
      BY <2>2 DEF Ready, Received, HasReceivedRequiredInputs
    <3>3. l.waiting[p.node] \subseteq Node
      BY <1>2, <3>1 DEF RunState
    <3>4. \A s \in ExpectedInputs(f, p.node) : Fin(k.data, r, s)
      BY <1>2, <1>6, <1>11, <3>1, <3>2, <3>3 DEF Waits
    <3> QED
      BY <1>4, <3>4 DEF Reached, FlowOf
  <2>3. CASE f.kind[n] = "loop" /\ p.node = f.loopTo[n]
    <3>1. p.node \in JumpTargets(f)
      BY <1>2, <2>3 DEF JumpTargets
    <3> QED
      BY <1>4, <3>1 DEF Reached, FreeTargets, FlowOf
  <2> QED
    BY <1>12, <2>1, <2>2, <2>3
<1>16. ASSUME NEW s \in Node, NEW c \in f.nodes, Fin(k.data, r, s), ~IsDecision(f, s),
              s \in Sources(f, c)
       PROVE  Delivered(k, r, s, c)
  <2>1. c \in Node
    BY <1>2, FlowsAssumption DEF FlowOf, Flow, RunState
  <2>2. CASE s = n
    <3>1. Hit(r, D, c)
      BY <1>16, <2>2, DeliversToAll DEF Hit
    <3> QED
      BY <1>12, <2>1, <2>2, <3>1 DEF Delivered, WaitsFor
  <2>3. CASE Fin(l.data, r, s)
    <3>1. d = l.data
      BY <1>7, <2>3
    <3>2. Delivered(l, r, s, c)
      BY <1>6, <1>16, <2>3 DEF NoneLost, FlowOf
    <3>3. CASE s \in l.waiting[c]
      BY <1>12, <2>1, <3>3 DEF Delivered, WaitsFor
    <3>4. CASE \E p \in l.queue : p.node = c
      BY <1>11, <1>12, <2>1, <3>4 DEF Delivered
    <3>5. CASE Ran(l.data, r, c)
      BY <1>11, <2>1, <3>1, <3>5 DEF Delivered
    <3> QED
      BY <3>2, <3>3, <3>4, <3>5 DEF Delivered
  <2> QED
    BY <1>11, <1>16, <2>2, <2>3
<1>17. NoneLost(k, r)
  BY <1>4, <1>16 DEF NoneLost, FlowOf
<1>18. WalkRun(k, r) /\ ~Fresh(k)
  BY <1>4, <1>6, <1>10, <1>11, <1>13, <1>15, <1>17 DEF WalkRun, Fresh
<1>19. \A p \in Runs : Fresh(run[p]) => NoneBy(k.data, p)
  <2>1. l.data \in Stores
    BY DEF Stores
  <2> QED
    BY <1>2, <1>7, <1>11, <2>1 DEF WalkInv, NoneBy, Fresh
<1> QED
  BY <1>3, <1>4, <1>18, <1>19
-----------------------------------------------------------------------------
(* The other steps of a run.                                               *)

(* An execution nothing was done in left nothing out.                      *)
LEMMA EmptyRanAll ==
  ASSUME NEW f, NEW d, d.items = {}
  PROVE  RanAll(f, d)
BY DEF RanAll

(* A copy of a row stays complete when a run is given a flow, because the  *)
(* run has nothing in any copy yet.                                        *)
LEMMA CompleteAfter ==
  ASSUME WalkInv, NEW r \in Runs, \A p \in Runs : p # r => run'[p] = run[p],
         run'[r].flow = run[r].flow \/ Fresh(run[r]),
         NEW row, Complete(row), row.data \in Stores
  PROVE  Complete(row)'
<1> SUFFICES ASSUME row.state = "FINISHED", NEW p \in Runs, AllBy(row.data, p)
             PROVE  RanAll(FlowData[run'[p].flow], row.data)
  BY DEF Complete, FlowOf
<1>1. CASE run'[p].flow = run[p].flow
  BY <1>1 DEF Complete, FlowOf
<1>2. CASE Fresh(run[p])
  <2>1. NoneBy(row.data, p)
    BY <1>2 DEF WalkInv
  <2>2. row.data.items = {}
    BY <2>1 DEF AllBy, NoneBy
  <2> QED
    BY <2>2, EmptyRanAll
<1> QED
  BY <1>1, <1>2

(* A step of one run that leaves rows and share switches alone.            *)
LEMMA BecomesWalk ==
  ASSUME TypeInv, WalkInv, UNCHANGED <<rows, sharing>>, NEW r \in Runs, NEW l, Becomes(r, l),
         WalkRun(l, r), l.flow = run[r].flow \/ Fresh(run[r]),
         Fresh(l) => Fresh(run[r]),
         \A p \in Runs : Fresh(run[p]) => NoneBy(l.data, p),
         l.found \in {NoRow, run[r].found} \cup {rows[e] : e \in Exec}
  PROVE  WalkInv'
<1>1. run'[r] = l /\ \A p \in Runs : p # r => run'[p] = run[p]
  BY DEF Becomes, TypeInv, TypeOK
<1>2. \A p \in Runs : WalkRun(run'[p], p) /\ (Fresh(run'[p]) => Fresh(run[p]))
  BY <1>1 DEF WalkInv
<1>3. ASSUME NEW d \in Stores' PROVE d \in Stores \/ d = l.data
  <2>1. run[r].found # NoRow => run[r].found.data \in Stores
    BY DEF Stores
  <2>2. \A e \in Exec : rows[e] # NoRow => rows[e].data \in Stores
    BY DEF Stores
  <2> QED
    BY <1>3, <2>1, <2>2, StoresAfter
<1>4. \A p \in Runs : Fresh(run'[p]) => \A d \in Stores' : NoneBy(d, p)
  BY <1>2, <1>3 DEF WalkInv
<1>5. ASSUME NEW e \in Exec, rows'[e] # NoRow PROVE Complete(rows[e])'
  <2>1. PICK row : row = rows[e]
    OBVIOUS
  <2>2. row = rows'[e] /\ Complete(row) /\ row.data \in Stores
    BY <1>5, <2>1 DEF WalkInv, Stores
  <2>3. Complete(row)'
    BY <1>1, <2>2, CompleteAfter
  <2> QED
    BY <2>2, <2>3 DEF Complete, FlowOf
<1>6. ASSUME sharing'.row # NoRow PROVE Complete(sharing.row)'
  <2>1. PICK row : row = sharing.row
    OBVIOUS
  <2>2. row = sharing'.row /\ Complete(row) /\ row.data \in Stores
    BY <1>6, <2>1 DEF WalkInv, Stores
  <2>3. Complete(row)'
    BY <1>1, <2>2, CompleteAfter
  <2> QED
    BY <2>2, <2>3 DEF Complete, FlowOf
<1> QED
  BY <1>2, <1>4, <1>5, <1>6 DEF WalkInv

(* A run that goes on without touching what it walks with.                 *)
SameWalk(l, m) ==
  /\ m.flow = l.flow /\ m.start = l.start /\ m.data = l.data
  /\ m.waiting = l.waiting /\ m.status = l.status
  /\ m.queue \subseteq l.queue

LEMMA SameWalkRun ==
  ASSUME NEW l \in RunState, NEW m \in RunState, NEW r \in Runs, WalkRun(l, r), SameWalk(l, m),
         m.queue = l.queue, Fresh(m) => Fresh(l), Walking(m) => Walking(l),
         m.pc \in {"find", "save"} => l.pc \in {"find", "save"}
  PROVE  WalkRun(m, r)
<1>1. InOrder(m, r)
  BY SameInOrder DEF WalkRun, SameWalk
<1>2. \A c \in Node : Waits(l, r, c) => Waits(m, r, c)
  BY DEF Waits, SameWalk
<1>3. \A q \in m.queue : Reached(l, r, q.node) => Reached(m, r, q.node)
  BY DEF Reached, FreeTargets, SameWalk
<1>4. Asked(l) => Asked(m)
  BY DEF Asked, SameWalk
<1>5. NoneLost(l, r) => NoneLost(m, r)
  BY DEF NoneLost, Delivered, SameWalk
<1>6. Walking(m) => /\ \A c \in Node : Waits(m, r, c)
                    /\ \A q \in m.queue : Reached(m, r, q.node)
                    /\ Asked(m) \/ (m.status = "INPROGRESS" /\ NoneLost(m, r))
  <2>1. SUFFICES ASSUME Walking(m) PROVE
                    /\ \A c \in Node : Waits(m, r, c)
                    /\ \A q \in m.queue : Reached(m, r, q.node)
                    /\ Asked(m) \/ (m.status = "INPROGRESS" /\ NoneLost(m, r))
    OBVIOUS
  <2>2. Walking(l) /\ m.status = l.status
    BY <2>1 DEF SameWalk
  <2> QED
    BY <1>2, <1>3, <1>4, <1>5, <2>2 DEF WalkRun
<1>7. m.data.items = {} \/ Has(m.data, "STOPPED") \/ ~NoneBy(m.data, r)
  BY DEF WalkRun, SameWalk
<1>8. m.pc \in {"find", "save"} /\ m.status = "FINISHED" /\ AllBy(m.data, r)
        => RanAll(FlowData[m.flow], m.data)
  BY DEF WalkRun, SameWalk
<1>9. Fresh(m) => m.waiting = NoInput
  BY DEF WalkRun, SameWalk
<1> QED
  BY <1>1, <1>6, <1>7, <1>8, <1>9 DEF WalkRun

LEMMA FreshKept ==
  ASSUME WalkInv, NEW r \in Runs
  PROVE  \A p \in Runs : Fresh(run[p]) => NoneBy(run[r].data, p)
<1>1. run[r].data \in Stores
  BY DEF Stores
<1> QED
  BY <1>1 DEF WalkInv

(* The iteration limit, a crash, a refusal and an abort.                   *)
LEMMA MoveWalk ==
  ASSUME TypeInv, WalkInv, NEW r \in Runs,
         ExceedIterations(r) \/ Crash(r) \/ Abort(r) \/ RefuseRequest(r)
  PROVE  WalkInv'
<1>1. run[r] \in RunState /\ WalkRun(run[r], r) /\ UNCHANGED <<rows, sharing>>
  BY DEF TypeInv, TypeOK, WalkInv, ExceedIterations, Crash, Abort, RefuseRequest
<1>2. ASSUME NEW pc \in {"failed", "rejected", "crashed"}, Becomes(r, [run[r] EXCEPT !.pc = pc])
      PROVE  WalkInv'
  <2> DEFINE m == [run[r] EXCEPT !.pc = pc]
  <2>1. m \in RunState
    BY <1>1, AssignTypes DEF Pc
  <2>2. /\ SameWalk(run[r], m) /\ m.queue = run[r].queue /\ m.pc = pc
        /\ m.found = run[r].found
    BY <1>1 DEF SameWalk, RunState
  <2> HIDE DEF m
  <2>3. WalkRun(m, r) /\ ~Fresh(m)
    BY <1>1, <2>1, <2>2, SameWalkRun DEF Fresh, Walking
  <2>4. Becomes(r, m)
    BY <1>2 DEF m
  <2> QED
    BY <1>1, <2>2, <2>3, <2>4, FreshKept, BecomesWalk DEF SameWalk
<1>3. CASE Abort(r)
  <2> DEFINE m == [run[r] EXCEPT !.aborted = TRUE]
  <2>1. m \in RunState /\ Becomes(r, m)
    BY <1>1, <1>3, AssignTypes DEF Abort
  <2>2. /\ SameWalk(run[r], m) /\ m.queue = run[r].queue /\ m.pc = run[r].pc
        /\ m.phase = run[r].phase /\ m.found = run[r].found
    BY <1>1 DEF SameWalk, RunState
  <2> HIDE DEF m
  <2>3. WalkRun(m, r) /\ (Fresh(m) => Fresh(run[r]))
    BY <1>1, <2>1, <2>2, SameWalkRun DEF Fresh, Walking
  <2> QED
    BY <1>1, <2>1, <2>2, <2>3, FreshKept, BecomesWalk DEF SameWalk
<1> QED
  BY <1>2, <1>3 DEF ExceedIterations, Crash, RefuseRequest

LEMMA FindRowWalk ==
  ASSUME TypeInv, WalkInv, NEW r \in Runs, FindRow(r)
  PROVE  WalkInv'
<1> DEFINE row == rows[run[r].exec]
<1>1. run[r] \in RunState /\ WalkRun(run[r], r) /\ UNCHANGED <<rows, sharing>>
      /\ run[r].pc = "find" /\ run[r].exec \in Exec
  BY DEF TypeInv, TypeOK, WalkInv, HoldsRow, FindRow
<1>2. CASE row = NoRow
  <2> DEFINE m == [run[r] EXCEPT !.pc = "failed"]
  <2>1. m \in RunState /\ Becomes(r, m)
    BY <1>1, <1>2, AssignTypes DEF Pc, FindRow
  <2>2. /\ SameWalk(run[r], m) /\ m.queue = run[r].queue /\ m.pc = "failed"
        /\ m.found = run[r].found
    BY <1>1 DEF SameWalk, RunState
  <2> HIDE DEF m
  <2>3. WalkRun(m, r) /\ ~Fresh(m)
    BY <1>1, <2>1, <2>2, SameWalkRun DEF Fresh, Walking
  <2> QED
    BY <1>1, <2>1, <2>2, <2>3, FreshKept, BecomesWalk DEF SameWalk
<1>3. CASE row # NoRow
  <2> DEFINE m == [run[r] EXCEPT !.pc = "save", !.found = row]
  <2>1. Becomes(r, m)
    BY <1>3 DEF FindRow
  <2>2. m \in RunState
    BY <1>1 DEF RunState, Pc, TypeInv, TypeOK
  <2>3. /\ SameWalk(run[r], m) /\ m.queue = run[r].queue /\ m.pc = "save"
        /\ m.phase = run[r].phase /\ m.found = row
    BY <1>1 DEF SameWalk, RunState
  <2> HIDE DEF m
  <2>4. WalkRun(m, r) /\ ~Fresh(m)
    BY <1>1, <2>2, <2>3, SameWalkRun DEF Fresh, Walking
  <2> QED
    BY <1>1, <2>1, <2>3, <2>4, FreshKept, BecomesWalk DEF SameWalk
<1> QED
  BY <1>2, <1>3
-----------------------------------------------------------------------------
(* Starting a run.                                                         *)

LEMMA SubmitWalk ==
  ASSUME TypeInv, WalkInv, NEW r \in Runs, Submit(r)
  PROVE  WalkInv'
<1> DEFINE l(b, s) == [IdleRun(canvas) EXCEPT !.pc = "looking", !.resume = b, !.start = s]
<1>1. PICK b \in BOOLEAN, s \in Node \cup {NoNode} : Becomes(r, l(b, s))
  BY ClientAssumption DEF Submit
<1>2. /\ l(b, s).data = EmptyData /\ l(b, s).found = NoRow /\ l(b, s).pc = "looking"
      /\ l(b, s).waiting = NoInput
  BY DEF IdleRun, NoInput
<1>3. run[r].pc = "idle" /\ UNCHANGED <<rows, sharing>>
  BY DEF Submit
<1>4. PICK m : m = l(b, s)
  OBVIOUS
<1> HIDE DEF l
<1>5. WalkRun(m, r)
  BY <1>2, <1>4 DEF WalkRun, InOrder, EmptyData, Walking
<1>6. Fresh(run[r])
  BY <1>3 DEF Fresh
<1>7. \A p \in Runs : NoneBy(m.data, p)
  BY <1>2, <1>4 DEF NoneBy, EmptyData
<1> QED
  BY <1>1, <1>2, <1>3, <1>4, <1>5, <1>6, <1>7, BecomesWalk

(* A step that writes one row, with data already in some copy or empty.    *)
LEMMA StoreWalk ==
  ASSUME TypeInv, WalkInv, UNCHANGED sharing, NEW r \in Runs, NEW l, Becomes(r, l),
         WalkRun(l, r), l.flow = run[r].flow, Fresh(l) => Fresh(run[r]),
         l.data = run[r].data, l.found = run[r].found,
         NEW row, Complete(row), row.data.items = {} \/ row.data \in Stores,
         \A e \in Exec : rows'[e] = rows[e] \/ rows'[e] = row
  PROVE  WalkInv'
<1>1. run' = [run EXCEPT ![r] = l] /\ run'[r] = l /\ \A p \in Runs : p # r => run'[p] = run[p]
  BY DEF Becomes, TypeInv, TypeOK
<1>2. \A p \in Runs : /\ WalkRun(run'[p], p) /\ (Fresh(run'[p]) => Fresh(run[p]))
                      /\ run'[p].flow = run[p].flow
  BY <1>1 DEF WalkInv
<1>3. \A p \in Runs : run'[p].data = run[p].data /\ run'[p].found = run[p].found
  BY <1>1
<1>4. ASSUME NEW d \in Stores' PROVE d \in Stores \/ d.items = {}
  <2>1. CASE \E p \in Runs : d = run'[p].data \/ (run'[p].found # NoRow /\ d = run'[p].found.data)
    BY <1>3, <2>1 DEF Stores
  <2>2. CASE \E e \in Exec : rows'[e] # NoRow /\ d = rows'[e].data
    BY <2>2 DEF Stores
  <2>3. CASE sharing'.row # NoRow /\ d = sharing'.row.data
    BY <2>3 DEF Stores
  <2> QED
    BY <1>4, <2>1, <2>2, <2>3 DEF Stores
<1>5. \A p \in Runs : Fresh(run'[p]) => \A d \in Stores' : NoneBy(d, p)
  BY <1>2, <1>4 DEF WalkInv, NoneBy
<1>6. \A w : Complete(w) => Complete(w)'
  BY <1>2 DEF Complete, FlowOf
<1>7. ASSUME NEW e \in Exec, rows'[e] # NoRow PROVE Complete(rows[e])'
  <2>1. PICK w : w = rows'[e]
    OBVIOUS
  <2>2. Complete(w)
    BY <1>7, <2>1 DEF WalkInv
  <2> QED
    BY <1>6, <2>1, <2>2 DEF Complete, FlowOf
<1>8. ASSUME sharing'.row # NoRow PROVE Complete(sharing.row)'
  <2>1. PICK w : w = sharing.row
    OBVIOUS
  <2>2. Complete(w) /\ w = sharing'.row
    BY <1>8, <2>1 DEF WalkInv
  <2> QED
    BY <1>6, <2>2 DEF Complete, FlowOf
<1> QED
  BY <1>2, <1>5, <1>7, <1>8 DEF WalkInv

(* A starting node waits for nothing.                                      *)
LEMMA StartsAtOnce ==
  ASSUME NEW f, NEW n \in StartingNodes(f)
  PROVE  ExpectedInputs(f, n) = {}
BY DEF StartingNodes, ExpectedInputs, Sources

LEMMA CreateExecutionWalk ==
  ASSUME TypeInv, SoundInv, WalkInv, NEW r \in Runs, CreateExecution(r)
  PROVE  WalkInv'
<1> DEFINE Q == {[turn |-> <<0, 0>>, node |-> n] : n \in StartingNodes(FlowOf(r))}
           l == [run[r] EXCEPT !.pc = "running", !.exec = created + 1, !.queue = Q]
           row == [state |-> "INPROGRESS", data |-> EmptyData]
<1>1. Becomes(r, l) /\ run[r].pc = "looking" /\ UNCHANGED sharing
  BY DEF CreateExecution
<1>2. run[r] \in RunState /\ run[r].status = "INPROGRESS" /\ run[r].data.items = {}
      /\ run[r].waiting = NoInput
  BY <1>1 DEF TypeInv, TypeOK, SoundInv, SoundRun, WalkInv, WalkRun, Fresh
<1>3. /\ l.data = run[r].data /\ l.found = run[r].found /\ l.flow = run[r].flow
      /\ l.waiting = NoInput /\ l.status = "INPROGRESS" /\ l.queue = Q /\ l.pc = "running"
  BY <1>2 DEF RunState
<1>4. \A e \in Exec : rows'[e] = rows[e] \/ rows'[e] = row
  BY DEF CreateExecution, TypeInv, TypeOK
<1>5. PICK m : m = l
  OBVIOUS
<1>6. PICK w : w = row
  OBVIOUS
<1>7. Complete(w) /\ w.data.items = {}
  BY <1>6 DEF Complete, EmptyData
<1>8. \A q \in Q : \E n \in StartingNodes(FlowOf(r)) : q.node = n
  OBVIOUS
<1>9. \A q \in m.queue : Reached(m, r, q.node)
  BY <1>3, <1>5, <1>8, StartsAtOnce DEF Reached, FlowOf
<1> HIDE DEF l, row, Q
<1>10. WalkRun(m, r) /\ ~Fresh(m)
  BY <1>2, <1>3, <1>5, <1>9
     DEF WalkRun, InOrder, Fresh, Waits, NoneLost, Fin, NoInput
<1> QED
  BY <1>1, <1>3, <1>4, <1>5, <1>6, <1>7, <1>10, StoreWalk

LEMMA ResumeExecutionWalk ==
  ASSUME TypeInv, SoundInv, WalkInv, NEW r \in Runs, NEW e \in Exec, ResumeExecution(r, e)
  PROVE  WalkInv'
<1> DEFINE kept == KeptData(rows[e])
           s    == StartOf(kept, run[r].start)
           ph   == IF rows[e].state = "ERROR" THEN "retry" ELSE "claim"
           Q    == {[turn |-> <<0, 0>>, node |-> s]}
           l    == [run[r] EXCEPT !.pc = "find", !.phase = ph, !.exec = e, !.data = kept,
                                  !.start = s, !.human = s, !.queue = Q]
<1>1. /\ Becomes(r, l) /\ UNCHANGED rows /\ UNCHANGED sharing
      /\ run[r].pc = "looking"
  BY DEF ResumeExecution
<1>2. run[r] \in RunState /\ rows[e] \in Row /\ rows[e] # NoRow
      /\ SoundRow(rows[e]) /\ Resumable(rows[e])
  BY DEF TypeInv, TypeOK, SoundInv, ResumeExecution, CanResume, IsNewest
<1>3. run[r].status = "INPROGRESS" /\ run[r].waiting = NoInput /\ Fresh(run[r])
  BY <1>1 DEF SoundInv, SoundRun, WalkInv, WalkRun, Fresh
<1>4. /\ l.data = kept /\ l.found = run[r].found /\ l.start = s /\ l.queue = Q
      /\ l.waiting = NoInput /\ l.status = "INPROGRESS" /\ l.pc = "find"
      /\ l.flow = run[r].flow
  BY <1>2, <1>3 DEF RunState
<1>5. kept.items \subseteq rows[e].data.items /\ Has(kept, "STOPPED")
  BY <1>2, KeptIsOpen
<1>6. rows[e].data \in Stores
  BY <1>2 DEF Stores
<1>7. \A p \in Runs : Fresh(run[p]) => NoneBy(kept, p)
  BY <1>5, <1>6 DEF WalkInv, NoneBy
<1>8. PICK m : m = l
  OBVIOUS
<1>9. \A q \in m.queue : q.node = m.start
  BY <1>4, <1>8
<1> HIDE DEF l, kept, s, Q
<1>10. WalkRun(m, r) /\ ~Fresh(m)
  <2>1. NoneBy(m.data, r)
    BY <1>3, <1>4, <1>7, <1>8
  <2>2. InOrder(m, r)
    BY <2>1, NoneInOrder
  <2>3. \A c \in Node : Waits(m, r, c)
    BY <1>4, <1>8 DEF Waits, NoInput
  <2>4. \A q \in m.queue : Reached(m, r, q.node)
    BY <1>9 DEF Reached, FreeTargets
  <2>5. NoneLost(m, r)
    BY <2>1 DEF NoneLost, NoneBy, Fin
  <2> QED
    BY <1>4, <1>5, <1>8, <2>2, <2>3, <2>4, <2>5 DEF WalkRun, Fresh
<1> QED
  BY <1>1, <1>3, <1>4, <1>7, <1>8, <1>10, BecomesWalk

LEMMA SaveRowWalk ==
  ASSUME TypeInv, SoundInv, WalkInv, NEW r \in Runs, SaveRow(r)
  PROVE  WalkInv'
<1> DEFINE ph == IF run[r].phase = "retry" THEN "claim" ELSE run[r].phase
           l  == [run[r] EXCEPT !.pc = AfterSave(r), !.phase = ph]
<1>1. run[r] \in RunState /\ run[r].pc = "save" /\ WalkRun(run[r], r) /\ SoundRun(run[r])
      /\ run[r].exec \in Exec /\ run[r].found # NoRow /\ UNCHANGED sharing
  BY DEF TypeInv, TypeOK, HoldsRow, SoundInv, WalkInv, SaveRow
<1>2. /\ AfterSave(r) \in {"find", "running", "failed", "done"}
      /\ AfterSave(r) = "find" => run[r].phase = "retry"
      /\ AfterSave(r) = "running" => run[r].phase = "claim"
  BY DEF AfterSave
<1>3. PICK m : m = l
  OBVIOUS
<1>4. m \in RunState /\ Becomes(r, m)
  <2>1. AfterSave(r) \in Pc /\ ph \in Phase
    BY <1>1, <1>2 DEF Pc, Phase, RunState
  <2> QED
    BY <1>1, <1>3, <2>1 DEF RunState, SaveRow
<1>5. /\ SameWalk(run[r], m) /\ m.queue = run[r].queue /\ m.found = run[r].found
      /\ m.pc = AfterSave(r)
  BY <1>1, <1>3 DEF SameWalk, RunState
<1>6. WalkRun(m, r) /\ ~Fresh(m)
  BY <1>1, <1>2, <1>4, <1>5, SameWalkRun DEF Fresh, Walking
<1>7. PICK w : w = Merged(r)
  OBVIOUS
<1>8. w.data \in Stores
  BY <1>1, <1>7 DEF Merged, Stores
<1>9. Complete(w)
  <2>1. SUFFICES ASSUME w.state = "FINISHED", NEW p \in Runs, AllBy(w.data, p)
                 PROVE  RanAll(FlowOf(p), w.data)
    BY DEF Complete
  <2>2. w.state = run[r].status /\ w.data = run[r].data
    BY <1>1, <1>7, <2>1 DEF Merged, SoundRun
  <2>3. run[r].data.items = {} \/ p = r
    <3>1. ~Has(run[r].data, "STOPPED")
      BY <1>1, <2>1, <2>2 DEF SoundRun, Agrees, Has
    <3> QED
      BY <1>1, <2>1, <2>2, <3>1 DEF WalkRun, NoneBy, AllBy
  <2> QED
    BY <1>1, <2>1, <2>2, <2>3, EmptyRanAll DEF WalkRun, FlowOf
<1>10. \A e \in Exec : rows'[e] = rows[e] \/ rows'[e] = w
  BY <1>7 DEF SaveRow, TypeInv, TypeOK
<1> HIDE DEF l
<1> QED
  BY <1>1, <1>4, <1>5, <1>6, <1>8, <1>9, <1>10, StoreWalk DEF SameWalk
-----------------------------------------------------------------------------
(* Leaving the main loop.                                                  *)

LEMMA StopForHumanWalk ==
  ASSUME TypeInv, SoundInv, GateInv, WalkInv, NEW r \in Runs, NEW q \in run[r].queue,
         StopForHuman(r, q)
  PROVE  WalkInv'
<1> DEFINE l == run[r]
           n == q.node
           k == [l EXCEPT
                 !.data  = Push(DataBefore(r, n), n, "STOPPED", r),
                 !.human = HumanAfter(r, n),
                 !.queue = {}, !.steps = @ + 1, !.status = "STOPPED"]
           d == DataBefore(r, n)
<1>1. /\ l \in RunState /\ n \in Node /\ l.pc = "running" /\ WalkRun(l, r)
      /\ Becomes(r, k) /\ UNCHANGED rows /\ UNCHANGED sharing
  BY DEF TypeInv, TypeOK, RunState, Ticket, StopForHuman, Executes, WalkInv
<1>2. PICK m : m = k
  OBVIOUS
<1>3. /\ m.data = Push(d, n, "STOPPED", r)
      /\ m.waiting = l.waiting /\ m.queue = {} /\ m.found = l.found
      /\ m.pc = "running" /\ m.flow = l.flow /\ m.start = l.start /\ m.status = "STOPPED"
  BY <1>1, <1>2 DEF RunState
<1>4. m \in RunState
  <2>1. TypeOK'
    BY StopForHumanType DEF TypeInv
  <2>2. run'[r] = m
    BY <1>1, <1>2 DEF Becomes, TypeInv, TypeOK
  <2> QED
    BY <2>1, <2>2 DEF TypeOK
<1> HIDE DEF k
<1>5. /\ d \in Data /\ d.items \subseteq l.data.items
      /\ \A x \in l.data.items : x.by = r /\ x.status = "FINISHED" => x \in d.items
      /\ Stamped(d)
  <2>1. Stamped(d)
    BY <1>1, WithoutSound DEF SoundInv, SoundRun, DataBefore, RunState
  <2> QED
    BY <1>1, <2>1, BeforeKeeps
<1>6. "STOPPED" \in EntryStatus /\ "STOPPED" # "FINISHED"
  BY DEF EntryStatus, ExecutionState
<1>7. InOrder(m, r)
  <2>1. InOrder(l, r) /\ Reached(l, r, n)
    BY <1>1 DEF WalkRun, Walking
  <2> QED
    BY <1>1, <1>3, <1>4, <1>5, <1>6, <2>1, PushInOrder
<1>8. /\ \A s \in Node : Fin(m.data, r, s) <=> Fin(l.data, r, s)
      /\ Has(m.data, "STOPPED")
      /\ \A p \in Runs : NoneBy(m.data, p) <=> NoneBy(d, p) /\ p # r
  <2>1. \A s \in Node : Fin(d, r, s) <=> Fin(l.data, r, s)
    BY <1>5 DEF Fin
  <2> QED
    BY <1>1, <1>3, <1>5, <1>6, <2>1, PushAdds
<1>9. \A c \in Node : Waits(m, r, c)
  BY <1>1, <1>3, <1>8 DEF WalkRun, Walking, Waits, RunState
<1>10. WalkRun(m, r) /\ ~Fresh(m)
  BY <1>3, <1>7, <1>8, <1>9 DEF WalkRun, Fresh, Asked
<1>11. \A p \in Runs : Fresh(run[p]) => NoneBy(m.data, p)
  <2>1. \A p \in Runs : Fresh(run[p]) => p # r
    BY <1>1 DEF Fresh
  <2> QED
    BY <1>5, <1>8, <2>1, FreshKept DEF NoneBy
<1> QED
  BY <1>1, <1>2, <1>3, <1>10, <1>11, BecomesWalk

LEMMA CatchWalk ==
  ASSUME TypeInv, SoundInv, WalkInv, NEW r \in Runs, NEW q \in run[r].queue,
         run[r].pc = "running", NEW t \in {"ERROR", "TERMINATED"}, Catch(r, q, t),
         UNCHANGED <<rows, sharing>>
  PROVE  WalkInv'
<1> DEFINE l == run[r]
           n == q.node
           k == [l EXCEPT !.data = Push(@, q.node, t, r), !.status = t,
                          !.queue = @ \ {q}, !.steps = @ + 1,
                          !.pc = "find", !.phase = "error"]
<1>1. /\ l \in RunState /\ n \in Node /\ WalkRun(l, r) /\ Becomes(r, k)
      /\ l.data \in Data /\ Stamped(l.data)
  BY DEF TypeInv, TypeOK, RunState, Ticket, Catch, WalkInv, SoundInv, SoundRun
<1>2. PICK m : m = k
  OBVIOUS
<1>3. /\ m.data = Push(l.data, n, t, r) /\ m.found = l.found /\ m.pc = "find"
      /\ m.phase = "error" /\ m.flow = l.flow /\ m.start = l.start /\ m.status = t
  BY <1>1, <1>2 DEF RunState
<1>4. m \in RunState
  <2>1. run' \in [Runs -> RunState]
    BY CatchType DEF TypeInv, TypeOK
  <2>2. run'[r] = m
    BY <1>1, <1>2 DEF Becomes, TypeInv, TypeOK
  <2> QED
    BY <2>1, <2>2
<1> HIDE DEF k
<1>5. t \in EntryStatus
  BY DEF EntryStatus, ExecutionState
<1>6. InOrder(m, r)
  <2>1. InOrder(l, r) /\ Reached(l, r, n)
    BY <1>1 DEF WalkRun, Walking
  <2> QED
    BY <1>1, <1>3, <1>4, <1>5, <2>1, PushInOrder
<1>7. \A p \in Runs : NoneBy(m.data, p) <=> NoneBy(l.data, p) /\ p # r
  BY <1>1, <1>3, <1>5, PushAdds
<1>8. WalkRun(m, r) /\ ~Fresh(m)
  BY <1>3, <1>6, <1>7 DEF WalkRun, Fresh, Walking
<1>9. \A p \in Runs : Fresh(run[p]) => NoneBy(m.data, p)
  <2>1. \A p \in Runs : Fresh(run[p]) => p # r
    BY DEF Fresh
  <2> QED
    BY <1>7, <2>1, FreshKept
<1> QED
  BY <1>1, <1>2, <1>3, <1>8, <1>9, BecomesWalk

LEMMA SkipMissingNodeWalk ==
  ASSUME TypeInv, WalkInv, NEW r \in Runs, NEW q \in run[r].queue, SkipMissingNode(r, q)
  PROVE  WalkInv'
<1> DEFINE l == run[r]
           k == [l EXCEPT !.queue = @ \ {q}, !.steps = @ + 1]
<1>1. /\ l \in RunState /\ l.pc = "running" /\ WalkRun(l, r) /\ q.node \notin FlowOf(r).nodes
      /\ Becomes(r, k) /\ UNCHANGED rows /\ UNCHANGED sharing
  BY DEF TypeInv, TypeOK, SkipMissingNode, WalkInv
<1>2. PICK m : m = k
  OBVIOUS
<1>3. /\ SameWalk(l, m) /\ m.queue = l.queue \ {q} /\ m.found = l.found /\ m.pc = "running"
  BY <1>1, <1>2 DEF RunState, SameWalk
<1> HIDE DEF k
<1>4. l.status = "INPROGRESS" /\ NoneLost(l, r)
  BY <1>1 DEF WalkRun, Walking, Asked
<1>5. \A c \in FlowOf(r).nodes : (\E p \in l.queue : p.node = c) => \E p \in m.queue : p.node = c
  BY <1>1, <1>3
<1>6. NoneLost(m, r)
  BY <1>3, <1>4, <1>5 DEF NoneLost, Delivered, SameWalk, FlowOf
<1>7. WalkRun(m, r) /\ ~Fresh(m)
  BY <1>1, <1>3, <1>4, <1>6
     DEF WalkRun, Walking, Fresh, SameWalk, InOrder, FreeTargets, Waits, Reached
<1> QED
  BY <1>1, <1>2, <1>3, <1>7, FreshKept, BecomesWalk DEF SameWalk

(* An empty queue: what one request finished on its own is complete.       *)
LEMMA NothingLeftOut ==
  ASSUME NEW l \in RunState, NEW r \in Runs, l.queue = {}, NoneLost(l, r),
         \A c \in Node : Waits(l, r, c), AllBy(l.data, r),
         \A x \in l.data.items : x.status = "FINISHED"
  PROVE  RanAll(FlowData[l.flow], l.data)
<1> DEFINE f == FlowData[l.flow]
<1> SUFFICES ASSUME NEW c \in f.nodes, Sources(f, c) # {},
                    \A s \in Sources(f, c) : ~IsDecision(f, s) /\ \E x \in l.data.items : x.node = s,
                    ~\E x \in l.data.items : x.node = c
             PROVE  FALSE
  BY DEF RanAll
<1>1. c \in Node
  BY FlowsAssumption DEF Flow, RunState
<1>2. ASSUME NEW s \in Sources(f, c) PROVE s \in l.waiting[c]
  <2>1. PICK x \in l.data.items : x.node = s
    OBVIOUS
  <2>2. s \in Node /\ Fin(l.data, r, s)
    BY <2>1 DEF AllBy, Fin, RunState, Data, Entry
  <2>3. Delivered(l, r, s, c)
    BY <2>2 DEF NoneLost
  <2> QED
    BY <2>3 DEF Delivered, Ran
<1>3. HasReceivedRequiredInputs(f, c, l.waiting[c])
  BY <1>2, AllInputsSuffice
<1> QED
  BY <1>1, <1>2, <1>3 DEF Waits

LEMMA EndLoopWalk ==
  ASSUME TypeInv, SoundInv, WalkInv, NEW r \in Runs, EndLoop(r)
  PROVE  WalkInv'
<1> DEFINE l == run[r]
           t == FinalStatus(l.data)
           k == [l EXCEPT !.pc = "find", !.phase = "settle", !.status = t]
<1>1. /\ l \in RunState /\ l.pc = "running" /\ l.queue = {} /\ WalkRun(l, r)
      /\ GoodData(l.data) /\ Becomes(r, k) /\ UNCHANGED rows /\ UNCHANGED sharing
  BY DEF TypeInv, TypeOK, EndLoop, WalkInv, SoundInv, SoundRun
<1>2. PICK m : m = k
  OBVIOUS
<1>3. /\ m.pc = "find" /\ m.phase = "settle" /\ m.data = l.data /\ m.flow = l.flow
      /\ m.start = l.start /\ m.found = l.found /\ m.status = t
  BY <1>1, <1>2 DEF RunState
<1> HIDE DEF k
<1>4. ASSUME t = "FINISHED", AllBy(l.data, r) PROVE RanAll(FlowData[l.flow], l.data)
  <2>1. ~Has(l.data, "STOPPED")
    BY <1>4 DEF FinalStatus
  <2>2. \A x \in l.data.items : x.status = "FINISHED"
    BY <1>1, <2>1 DEF GoodData, GoodEntry, Has
  <2>3. NoneLost(l, r) /\ \A c \in Node : Waits(l, r, c)
    BY <1>1, <2>1 DEF WalkRun, Walking, Asked
  <2> QED
    BY <1>1, <1>4, <2>2, <2>3, NothingLeftOut
<1>5. WalkRun(m, r) /\ ~Fresh(m)
  BY <1>1, <1>3, <1>4 DEF WalkRun, Walking, Fresh, InOrder, FreeTargets
<1> QED
  BY <1>1, <1>2, <1>3, <1>5, FreshKept, BecomesWalk

(* What other users of the database do.                                    *)
LEMMA OutsideWalk ==
  ASSUME TypeInv, WalkInv,
         \/ \E e \in Exec : DeleteExecution(e) \/ ShareFind(e)
         \/ ShareSave
         \/ \E f \in Flows : EditFlow(f)
  PROVE  WalkInv'
<1>1. UNCHANGED run
  BY DEF DeleteExecution, ShareFind, ShareSave, EditFlow
<1>2. Stores' \subseteq Stores
  <2>1. \A e \in Exec : rows'[e] # NoRow => rows'[e].data \in Stores
    BY DEF TypeInv, TypeOK, DeleteExecution, ShareFind, ShareSave, EditFlow, Stores
  <2>2. sharing'.row # NoRow => sharing'.row.data \in Stores
    BY DEF TypeInv, TypeOK, DeleteExecution, ShareFind, ShareSave, EditFlow, Stores
  <2> QED
    BY <1>1, <2>1, <2>2 DEF Stores
<1>3. \A w : Complete(w) => Complete(w)'
  BY <1>1 DEF Complete, FlowOf
<1>4. /\ \A e \in Exec : rows'[e] # NoRow => Complete(rows'[e])
      /\ sharing'.row # NoRow => Complete(sharing'.row)
  BY DEF TypeInv, TypeOK, WalkInv, DeleteExecution, ShareFind, ShareSave, EditFlow
<1>5. ASSUME NEW e \in Exec, rows'[e] # NoRow PROVE Complete(rows[e])'
  <2>1. PICK w : w = rows'[e]
    OBVIOUS
  <2> QED
    BY <1>3, <1>4, <1>5, <2>1 DEF Complete, FlowOf
<1>6. ASSUME sharing'.row # NoRow PROVE Complete(sharing.row)'
  <2>1. PICK w : w = sharing'.row
    OBVIOUS
  <2> QED
    BY <1>3, <1>4, <1>6, <2>1 DEF Complete, FlowOf
<1> QED
  BY <1>1, <1>2, <1>5, <1>6 DEF WalkInv
-----------------------------------------------------------------------------
LEMMA NodeStepWalk ==
  ASSUME TypeInv, SoundInv, GateInv, WalkInv, NEW r \in Runs, NodeStep(r)
  PROVE  WalkInv'
<1>1. PICK q \in run[r].queue :
        \/ FinishNode(r, q) \/ StopForHuman(r, q) \/ FailNode(r, q)
        \/ AbortNode(r, q) \/ SkipMissingNode(r, q)
  BY DEF NodeStep
<1>2. CASE FinishNode(r, q)
  <2>1. PICK m : m = run'[r]
    OBVIOUS
  <2>2. /\ WalkRun(m, r) /\ m.flow = run[r].flow /\ ~Fresh(m)
        /\ \A p \in Runs : Fresh(run[p]) => NoneBy(m.data, p)
    BY <1>2, <2>1, FinishNodeWalk
  <2>3. Becomes(r, m) /\ m.found = run[r].found
    BY <1>2, <2>1 DEF FinishNode, Becomes, TypeInv, TypeOK, RunState
  <2>4. UNCHANGED <<rows, sharing>>
    BY <1>2 DEF FinishNode
  <2> QED
    BY <2>2, <2>3, <2>4, BecomesWalk
<1>3. CASE FailNode(r, q) \/ AbortNode(r, q)
  BY <1>3, CatchWalk DEF FailNode, AbortNode, Executes
<1> QED
  BY <1>1, <1>2, <1>3, StopForHumanWalk, SkipMissingNodeWalk

LEMMA WalkInit == Init => WalkInv
<1> SUFFICES ASSUME Init PROVE WalkInv
  OBVIOUS
<1>1. \A r \in Runs : /\ run[r].data = EmptyData /\ run[r].waiting = NoInput
                      /\ run[r].pc = "idle" /\ run[r].found = NoRow
  BY DEF Init, IdleRun, NoInput
<1>2. \A r \in Runs : WalkRun(run[r], r)
  BY <1>1 DEF WalkRun, InOrder, Walking, EmptyData
<1>3. \A d \in Stores : d = EmptyData
  BY <1>1 DEF Init, Stores
<1> QED
  BY <1>2, <1>3 DEF WalkInv, NoneBy, EmptyData, Init

LEMMA WalkStep == TypeInv /\ SoundInv /\ GateInv /\ WalkInv /\ [Next]_vars => WalkInv'
<1> SUFFICES ASSUME TypeInv, SoundInv, GateInv, WalkInv, [Next]_vars PROVE WalkInv'
  OBVIOUS
<1>1. ASSUME NEW r \in Runs, Submit(r) \/ Progress(r) PROVE WalkInv'
  BY <1>1, SubmitWalk, CreateExecutionWalk, ResumeExecutionWalk, MoveWalk,
     FindRowWalk, SaveRowWalk, NodeStepWalk, EndLoopWalk DEF Progress
<1>2. CASE Disturb
  BY <1>2, MoveWalk, OutsideWalk DEF Disturb
<1>3. CASE UNCHANGED vars
  BY <1>3 DEF WalkInv, vars, Stores, Complete, FlowOf
<1> QED
  BY <1>1, <1>2, <1>3 DEF Next

THEOREM WalkHolds == Spec => []WalkInv
<1> QED
  BY WalkInit, WalkStep, TypeInvariant, RowsSound, GatesHold, PTL DEF Spec

(* A node that joins branches runs after every input it must wait for, in  *)
(* every flow, however requests race (hasReceivedRequiredInputs).          *)
THEOREM JoinsWait == Spec => []JoinWaitsForAll
<1>1. WalkInv => JoinWaitsForAll
  BY DEF WalkInv, WalkRun, InOrder, FreeTargets, JoinWaitsForAll, FlowOf
<1> QED
  BY <1>1, WalkHolds, PTL

(* An execution that one request finished on its own left no branch out,   *)
(* in every flow, however requests race (processNodeOutputs).              *)
THEOREM NoneForgotten == Spec => []NoBranchForgotten
<1>1. WalkInv => NoBranchForgotten
  BY DEF WalkInv, Complete, AllBy, NoBranchForgotten
<1> QED
  BY <1>1, WalkHolds, PTL

-----------------------------------------------------------------------------
(* Loops.  Along a way into the body of a loop at most one result is under *)
(* way, in the queue or held by a node that waits for it: together with    *)
(* what is at hand for the body itself and the times it ran, that is one   *)
(* more than the loop has jumped back.                                     *)

LoopNodes(f) == {n \in f.nodes : f.kind[n] = "loop"}

(* The times run r ran the node t, and the tickets that queue a node.      *)
Passed(d, r, t) == {x \in d.items : x.node = t /\ x.by = r}

Here(l, c) == {q \in l.queue : q.node = c}

(* The i-th node of the way holds the result it needs, but cannot run yet. *)
Held(l, p, i) == i < Len(p) /\ p[i + 1] \in l.waiting[p[i]]

Live(l, p, i) == Here(l, p[i]) # {} \/ Held(l, p, i)

Ahead(l, p) == \E i \in 2 .. Len(p) : Live(l, p, i)

One(b) == IF b THEN 1 ELSE 0

Alone(S) == \A s, t \in S : s = t

OneUnderWay(l, p) ==
  /\ \A i, j \in 2 .. Len(p) : Live(l, p, i) /\ Live(l, p, j) => i = j
  /\ \A i \in 2 .. Len(p) : Here(l, p[i]) # {} => ~Held(l, p, i) /\ Alone(Here(l, p[i]))

Tally(l, r, p) ==
  Cardinality(Passed(l.data, r, p[1])) + Cardinality(Here(l, p[1]))
    + One(Held(l, p, 1)) + One(Ahead(l, p))

Counted(l, r, b, p) ==
  /\ IsFiniteSet(Passed(l.data, r, p[1])) /\ IsFiniteSet(Here(l, p[1]))
  /\ Tally(l, r, p) <= 1 + l.loops[b]
  /\ l.loops[b] + 1 <= MaxLoop(FlowData[l.flow], b)

(* Every loop may run its body at least once.                              *)
Bounded(f) == \A b \in LoopNodes(f) : MaxLoop(f, b) > 0

OnWay(l, r, b, p) == OneUnderWay(l, p) /\ Counted(l, r, b, p)

LoopRun(l, r) ==
  /\ Fresh(l) => l.loops = [n \in Node |-> 0]
  /\ \A b \in LoopNodes(FlowData[l.flow]) : \A p \in Seq(Node) :
       WayInto(FlowData[l.flow], b, p) => OnWay(l, r, b, p)

LoopInv == \A r \in Runs : LoopRun(run[r], r)

-----------------------------------------------------------------------------
(* A node of a way needs the result of the node before it.                 *)
LEMMA NeedsResult ==
  ASSUME NEW f, NEW c, NEW s, Needs(f, c, s), NEW R, HasReceivedRequiredInputs(f, c, R)
  PROVE  s \in R
<1>1. CASE s \in ExpectedInputs(f, c)
  BY <1>1 DEF HasReceivedRequiredInputs
<1>2. CASE {s} \in ConditionalGroups(f, c)
  <2>1. {s} \cap R # {}
    BY <1>2 DEF HasReceivedRequiredInputs
  <2> QED
    BY <2>1
<1> QED
  BY <1>1, <1>2 DEF Needs

LEMMA WayTypes ==
  ASSUME NEW f, NEW b, NEW p \in Seq(Node), WayInto(f, b, p)
  PROVE  /\ Len(p) \in Nat /\ 1 <= Len(p) /\ p[1] = f.loopTo[b]
         /\ \A i \in 1 .. Len(p) : p[i] \in Node
         /\ \A i, j \in 1 .. Len(p) : p[i] = p[j] => i = j
         /\ \A i \in 1 .. Len(p) : i < Len(p) => Needs(f, p[i], p[i + 1])
         /\ InEdges(f, p[Len(p)]) = {}
         /\ \A m \in f.nodes : f.kind[m] = "loop" /\ m # b =>
              \A i \in 1 .. Len(p) : f.loopTo[m] # p[i]
<1>1. Len(p) \in Nat /\ DOMAIN p = 1 .. Len(p) /\ \A i \in 1 .. Len(p) : p[i] \in Node
  OBVIOUS
<1>2. 1 <= Len(p)
  BY <1>1 DEF WayInto
<1>3. Len(p) \in DOMAIN p
  BY <1>1, <1>2
<1> QED
  BY <1>1, <1>2, <1>3 DEF WayInto

LEMMA OneType == \A b \in BOOLEAN : One(b) \in {0, 1}
BY DEF One

(* The tally is a number.                                                  *)
LEMMA TallyType ==
  ASSUME NEW l, NEW r, NEW p,
         IsFiniteSet(Passed(l.data, r, p[1])), IsFiniteSet(Here(l, p[1]))
  PROVE  /\ Cardinality(Passed(l.data, r, p[1])) \in Nat
         /\ Cardinality(Here(l, p[1])) \in Nat
         /\ One(Held(l, p, 1)) \in {0, 1} /\ One(Ahead(l, p)) \in {0, 1}
         /\ Tally(l, r, p) \in Nat
<1>1. One(Held(l, p, 1)) \in {0, 1} /\ One(Ahead(l, p)) \in {0, 1}
  BY DEF One
<1>2. Cardinality(Passed(l.data, r, p[1])) \in Nat /\ Cardinality(Here(l, p[1])) \in Nat
  BY FS_CardinalityType
<1> QED
  BY <1>1, <1>2 DEF Tally

(* A run that starts, with at most one node in its queue.                  *)
LEMMA StartsOnWay ==
  ASSUME NEW l \in RunState, NEW r \in Runs, NoneBy(l.data, r), l.waiting = NoInput,
         l.loops = [n \in Node |-> 0], NEW x, l.queue \subseteq {x},
         NEW b \in LoopNodes(FlowData[l.flow]), MaxLoop(FlowData[l.flow], b) > 0,
         NEW p \in Seq(Node), WayInto(FlowData[l.flow], b, p)
  PROVE  OnWay(l, r, b, p)
<1>1. /\ Len(p) \in Nat /\ 1 <= Len(p)
      /\ \A i \in 1 .. Len(p) : p[i] \in Node
      /\ \A i, j \in 1 .. Len(p) : p[i] = p[j] => i = j
  BY WayTypes
<1>2. \A i \in 1 .. Len(p) : ~Held(l, p, i)
  BY <1>1 DEF Held, NoInput
<1>3. \A i \in 2 .. Len(p) : Live(l, p, i) => l.queue = {x} /\ x.node = p[i]
  BY <1>1, <1>2 DEF Live, Here
<1>4. OneUnderWay(l, p)
  BY <1>1, <1>2, <1>3 DEF OneUnderWay, Alone, Here
<1>5. Passed(l.data, r, p[1]) = {}
  BY DEF Passed, NoneBy
<1>6. Here(l, p[1]) = {} \/ (Here(l, p[1]) = {x} /\ x.node = p[1])
  BY DEF Here
<1>7. /\ IsFiniteSet({}) /\ Cardinality({}) = 0 /\ IsFiniteSet({x}) /\ Cardinality({x}) = 1
  BY FS_EmptySet, FS_Singleton
<1>8. One(Held(l, p, 1)) = 0
  BY <1>1, <1>2 DEF One
<1>9. Here(l, p[1]) = {x} => One(Ahead(l, p)) = 0
  <2>1. SUFFICES ASSUME x.node = p[1], NEW i \in 2 .. Len(p), Live(l, p, i) PROVE FALSE
    BY <1>6 DEF One, Ahead, Here
  <2>2. p[i] = p[1] /\ i \in 1 .. Len(p) /\ 1 \in 1 .. Len(p) /\ i # 1
    BY <1>1, <1>3, <2>1
  <2> QED
    BY <1>1, <2>2
<1>10. One(Ahead(l, p)) \in {0, 1}
  BY DEF One
<1>11. Tally(l, r, p) <= 1
  <2>1. Cardinality(Passed(l.data, r, p[1])) = 0
    BY <1>5, <1>7
  <2>2. CASE Here(l, p[1]) = {}
    <3>1. Cardinality(Here(l, p[1])) = 0
      BY <1>7, <2>2
    <3> QED
      BY <1>8, <1>10, <2>1, <3>1 DEF Tally
  <2>3. CASE Here(l, p[1]) = {x}
    <3>1. Cardinality(Here(l, p[1])) = 1
      BY <1>7, <2>3
    <3> QED
      BY <1>8, <1>9, <2>1, <2>3, <3>1 DEF Tally
  <2> QED
    BY <1>6, <2>2, <2>3
<1>12. b \in Node /\ FlowData[l.flow] \in Flow
  BY FlowsAssumption DEF RunState, Flow, LoopNodes
<1>13. MaxLoop(FlowData[l.flow], b) \in Nat
  BY <1>12, FlowsAssumption, BoundsAssumption DEF MaxLoop, Flow, RunState
<1>14. l.loops[b] = 0 /\ 1 <= MaxLoop(FlowData[l.flow], b)
  BY <1>12, <1>13
<1>15. Tally(l, r, p) <= 1 + l.loops[b]
  BY <1>11, <1>14
<1>16. l.loops[b] + 1 <= MaxLoop(FlowData[l.flow], b)
  BY <1>14
<1>17. IsFiniteSet(Passed(l.data, r, p[1])) /\ IsFiniteSet(Here(l, p[1]))
  BY <1>5, <1>6, <1>7
<1> QED
  BY <1>4, <1>15, <1>16, <1>17 DEF OnWay, Counted

(* A run whose queue only shrinks and whose data stays.                    *)
LEMMA QuietOnWay ==
  ASSUME NEW l \in RunState, NEW m \in RunState, NEW r \in Runs,
         m.data = l.data, m.waiting = l.waiting, m.loops = l.loops, m.flow = l.flow,
         m.queue \subseteq l.queue,
         NEW b \in Node, NEW p, OnWay(l, r, b, p)
  PROVE  OnWay(m, r, b, p)
<1>1. \A c : Here(m, c) \subseteq Here(l, c)
  BY DEF Here
<1>2. \A i : Held(m, p, i) <=> Held(l, p, i)
  BY DEF Held
<1>3. \A i : Live(m, p, i) => Live(l, p, i)
  BY <1>1, <1>2 DEF Live
<1>4. OneUnderWay(m, p)
  BY <1>1, <1>2, <1>3 DEF OnWay, OneUnderWay, Alone
<1>5. One(Held(m, p, 1)) = One(Held(l, p, 1)) /\ One(Ahead(m, p)) <= One(Ahead(l, p))
  BY <1>2, <1>3 DEF One, Ahead
<1>6. /\ IsFiniteSet(Here(m, p[1])) /\ Cardinality(Here(m, p[1])) <= Cardinality(Here(l, p[1]))
  BY <1>1, FS_Subset DEF OnWay, Counted
<1>7. Passed(m.data, r, p[1]) = Passed(l.data, r, p[1])
  OBVIOUS
<1>8. l.loops[b] \in Nat
  BY DEF RunState
<1>9. Tally(m, r, p) <= Tally(l, r, p)
  <2>1. /\ IsFiniteSet(Passed(l.data, r, p[1])) /\ IsFiniteSet(Here(l, p[1]))
        /\ IsFiniteSet(Passed(m.data, r, p[1]))
    BY <1>7 DEF OnWay, Counted
  <2> QED
    BY <1>5, <1>6, <1>7, <2>1, TallyType DEF Tally
<1>10. Tally(m, r, p) <= 1 + m.loops[b]
  <2>1. Tally(m, r, p) \in Nat /\ Tally(l, r, p) \in Nat
    BY <1>6, <1>7, TallyType DEF OnWay, Counted
  <2>2. Tally(l, r, p) <= 1 + l.loops[b]
    BY DEF OnWay, Counted
  <2> QED
    BY <1>8, <1>9, <2>1, <2>2
<1> QED
  BY <1>4, <1>6, <1>7, <1>10 DEF OnWay, Counted

-----------------------------------------------------------------------------
(* Running a node.                                                         *)

(* A push counts once, for the node it names.                              *)
LEMMA PushCounts ==
  ASSUME NEW d, NEW old, d.items \subseteq old.items, NEW n, NEW s, NEW r, NEW t,
         IsFiniteSet(Passed(old, r, t))
  PROVE  /\ IsFiniteSet(Passed(Push(d, n, s, r), r, t))
         /\ Cardinality(Passed(Push(d, n, s, r), r, t))
              <= Cardinality(Passed(old, r, t)) + One(n = t)
<1> DEFINE x == [pos |-> d.next, node |-> n, status |-> s, by |-> r]
           P == Passed(old, r, t)
           S == Passed(Push(d, n, s, r), r, t)
<1>1. Push(d, n, s, r).items = d.items \cup {x} /\ x.node = n
  BY DEF Push
<1> HIDE DEF x
<1>2. S \subseteq P \cup {x} /\ (n # t => S \subseteq P)
  BY <1>1 DEF Passed
<1>3. IsFiniteSet(P \cup {x}) /\ Cardinality(P \cup {x}) <= Cardinality(P) + 1
      /\ Cardinality(P) \in Nat
  BY FS_AddElement, FS_CardinalityType
<1> HIDE DEF P, S
<1>4. IsFiniteSet(S) /\ Cardinality(S) <= Cardinality(P \cup {x})
  BY <1>2, <1>3, FS_Subset
<1>5. n # t => Cardinality(S) <= Cardinality(P)
  BY <1>2, FS_Subset DEF P
<1>6. Cardinality(S) \in Nat /\ Cardinality(P \cup {x}) \in Nat
  BY <1>3, <1>4, FS_CardinalityType
<1>7. Cardinality(S) <= Cardinality(P) + One(n = t)
  BY <1>3, <1>4, <1>5, <1>6 DEF One
<1> QED
  BY <1>4, <1>7 DEF P, S

(* The ticket of the node that runs leaves the queue.                      *)
LEMMA TakesTicket ==
  ASSUME NEW l, NEW q \in l.queue, NEW t, IsFiniteSet(Here(l, t))
  PROVE  /\ IsFiniteSet(Here(l, t) \ {q})
         /\ Cardinality(Here(l, t) \ {q}) + One(q.node = t) = Cardinality(Here(l, t))
<1>1. q \in Here(l, t) <=> q.node = t
  BY DEF Here
<1>2. /\ IsFiniteSet(Here(l, t) \ {q}) /\ Cardinality(Here(l, t)) \in Nat
      /\ Cardinality(Here(l, t) \ {q}) =
           IF q \in Here(l, t) THEN Cardinality(Here(l, t)) - 1 ELSE Cardinality(Here(l, t))
  BY FS_RemoveElement, FS_CardinalityType
<1> QED
  BY <1>1, <1>2 DEF One

(* What a step that runs q and pushes its entry does to the first two      *)
(* parts of the tally, when it queues the tickets N.                       *)
LEMMA RunCounts ==
  ASSUME NEW l, NEW m, NEW r, NEW q \in l.queue, NEW d, d.items \subseteq l.data.items, NEW s,
         m.data = Push(d, q.node, s, r), NEW t, NEW N, IsFiniteSet(N),
         Here(m, t) \subseteq (Here(l, t) \ {q}) \cup N,
         IsFiniteSet(Passed(l.data, r, t)), IsFiniteSet(Here(l, t))
  PROVE  /\ IsFiniteSet(Passed(m.data, r, t)) /\ IsFiniteSet(Here(m, t))
         /\ Cardinality(Passed(m.data, r, t)) + Cardinality(Here(m, t))
              <= Cardinality(Passed(l.data, r, t)) + Cardinality(Here(l, t)) + Cardinality(N)
<1> DEFINE H == Here(l, t) \ {q}
           P == Passed(l.data, r, t)
           S == Passed(m.data, r, t)
           G == Here(m, t)
           F == Here(l, t)
<1>1. IsFiniteSet(S) /\ Cardinality(S) <= Cardinality(P) + One(q.node = t)
  BY PushCounts
<1>2. IsFiniteSet(H) /\ Cardinality(H) + One(q.node = t) = Cardinality(F)
  BY TakesTicket
<1>3. G \subseteq H \cup N
  OBVIOUS
<1> HIDE DEF H, P, S, G, F
<1>4. /\ IsFiniteSet(H \cup N)
      /\ Cardinality(H \cup N) = Cardinality(H) + Cardinality(N) - Cardinality(H \cap N)
  BY <1>2, FS_Union
<1>5. IsFiniteSet(H \cap N)
  BY <1>2, FS_Subset
<1>6. /\ Cardinality(H) \in Nat /\ Cardinality(N) \in Nat /\ Cardinality(H \cap N) \in Nat
      /\ Cardinality(H \cup N) \in Nat /\ Cardinality(S) \in Nat
  BY <1>1, <1>2, <1>4, <1>5, FS_CardinalityType
<1>7. IsFiniteSet(G) /\ Cardinality(G) <= Cardinality(H \cup N)
  BY <1>3, <1>4, FS_Subset
<1>8. Cardinality(G) \in Nat /\ Cardinality(P) \in Nat /\ Cardinality(F) \in Nat
  BY <1>7, FS_CardinalityType DEF P, F
<1>9. One(q.node = t) \in {0, 1}
  BY DEF One
<1>10. Cardinality(S) + Cardinality(G) <= Cardinality(P) + Cardinality(F) + Cardinality(N)
  BY <1>1, <1>2, <1>4, <1>6, <1>7, <1>8, <1>9
<1> QED
  BY <1>1, <1>7, <1>10 DEF P, S, G, F

(* A run that leaves its main loop at a node hands nothing on.             *)
LEMMA LeavesOnWay ==
  ASSUME NEW l \in RunState, NEW m \in RunState, NEW r \in Runs, NEW q \in l.queue,
         NEW d, d.items \subseteq l.data.items, NEW s, m.data = Push(d, q.node, s, r),
         m.waiting = l.waiting, m.loops = l.loops, m.flow = l.flow,
         m.queue \subseteq l.queue \ {q},
         NEW b \in Node, NEW p, OnWay(l, r, b, p)
  PROVE  OnWay(m, r, b, p)
<1>1. \A c : Here(m, c) \subseteq Here(l, c) \ {q}
  BY DEF Here
<1>2. \A i : Held(m, p, i) <=> Held(l, p, i)
  BY DEF Held
<1>3. \A i : Live(m, p, i) => Live(l, p, i)
  BY <1>1, <1>2 DEF Live
<1>4. OneUnderWay(m, p)
  BY <1>1, <1>2, <1>3 DEF OnWay, OneUnderWay, Alone
<1>5. One(Held(m, p, 1)) = One(Held(l, p, 1)) /\ One(Ahead(m, p)) <= One(Ahead(l, p))
  BY <1>2, <1>3 DEF One, Ahead
<1>6. /\ IsFiniteSet(Passed(l.data, r, p[1])) /\ IsFiniteSet(Here(l, p[1]))
      /\ Tally(l, r, p) <= 1 + l.loops[b]
      /\ l.loops[b] + 1 <= MaxLoop(FlowData[l.flow], b)
  BY DEF OnWay, Counted
<1>7. IsFiniteSet({}) /\ Cardinality({}) = 0
  BY FS_EmptySet
<1>8. /\ IsFiniteSet(Passed(m.data, r, p[1])) /\ IsFiniteSet(Here(m, p[1]))
      /\ Cardinality(Passed(m.data, r, p[1])) + Cardinality(Here(m, p[1]))
           <= Cardinality(Passed(l.data, r, p[1])) + Cardinality(Here(l, p[1])) + Cardinality({})
  <2>1. Here(m, p[1]) \subseteq (Here(l, p[1]) \ {q}) \cup {}
    BY <1>1
  <2> QED
    BY <1>6, <1>7, <2>1, RunCounts
<1>9. l.loops[b] \in Nat
  BY DEF RunState
<1>10. Tally(m, r, p) <= 1 + m.loops[b]
  <2>1. Tally(m, r, p) <= Tally(l, r, p)
    BY <1>5, <1>6, <1>7, <1>8, TallyType DEF Tally
  <2>2. Tally(m, r, p) \in Nat /\ Tally(l, r, p) \in Nat
    BY <1>6, <1>8, TallyType
  <2> QED
    BY <1>6, <1>9, <2>1, <2>2
<1> QED
  BY <1>4, <1>6, <1>8, <1>10 DEF OnWay, Counted

(* Delivering the result of n to a node c of a way, which needs s.         *)
LEMMA DeliversToWay ==
  ASSUME NEW r \in Runs, NEW n, NEW D, D \subseteq OutEdges(FlowOf(r), n), D \subseteq Nat,
         NEW c \in Node, NEW s, Needs(FlowOf(r), c, s)
  PROVE  /\ \A i, j \in Completing(r, n, D) :
              FlowOf(r).edges[i].target = c /\ FlowOf(r).edges[j].target = c => i = j
         /\ (\E i \in Completing(r, n, D) : FlowOf(r).edges[i].target = c) =>
              (s \in run[r].waiting[c] \/ s = n) /\ s \notin WaitingAfter(r, n, D)[c]
         /\ s \in WaitingAfter(r, n, D)[c] => s \in run[r].waiting[c] \/ s = n
<1> DEFINE f == FlowOf(r)
<1>1. Ready(r, n, c) => s \in run[r].waiting[c] \cup {n}
  BY NeedsResult DEF Ready, Received
<1>2. ReadyAgain(r, n, c) => s = n
  BY NeedsResult DEF ReadyAgain
<1>3. ASSUME s = n, NEW i \in Into(r, c, D), NEW j \in Into(r, c, D) PROVE i = j
  <2>1. i \in OutEdges(f, n) /\ j \in OutEdges(f, n) /\ f.edges[i].target = c /\ f.edges[j].target = c
    BY <1>3 DEF Into
  <2>2. i \in InEdges(f, c) /\ j \in InEdges(f, c) /\ f.edges[i].source = s /\ f.edges[j].source = s
    BY <1>3, <2>1 DEF InEdges, OutEdges
  <2> QED
    BY <2>2 DEF Needs
<1>4. \A i \in Completing(r, n, D) : f.edges[i].target = c =>
        /\ i \in Into(r, c, D) /\ i \in Nat /\ Ready(r, n, c)
        /\ ReadyAgain(r, n, c) \/ \A j \in Into(r, c, D) : i <= j
  BY DEF Completing, Into
<1>5. ASSUME NEW i \in Completing(r, n, D), NEW j \in Completing(r, n, D),
             f.edges[i].target = c, f.edges[j].target = c
      PROVE  i = j
  <2>1. i \in Into(r, c, D) /\ j \in Into(r, c, D) /\ i \in Nat /\ j \in Nat
    BY <1>4, <1>5
  <2>2. CASE ReadyAgain(r, n, c)
    BY <1>2, <1>3, <2>1, <2>2
  <2>3. CASE ~ReadyAgain(r, n, c)
    <3>1. i <= j /\ j <= i
      BY <1>4, <1>5, <2>1, <2>3
    <3> QED
      BY <2>1, <3>1
  <2> QED
    BY <2>2, <2>3
<1>6. WaitingAfter(r, n, D)[c] =
        CASE Into(r, c, D) = {} -> run[r].waiting[c]
          [] Into(r, c, D) # {} /\ ~Ready(r, n, c) -> Received(r, n, c)
          [] Into(r, c, D) # {} /\ Ready(r, n, c) ->
               IF ReadyAgain(r, n, c) \/ \A i, j \in Into(r, c, D) : i = j THEN {} ELSE {n}
  BY DEF WaitingAfter
<1> DEFINE w == WaitingAfter(r, n, D)[c]
<1> HIDE DEF w
<1>7. CASE Into(r, c, D) = {}
  <2>1. w = run[r].waiting[c]
    BY <1>6, <1>7 DEF w
  <2>2. \A i \in Completing(r, n, D) : f.edges[i].target # c
    BY <1>4, <1>7
  <2> QED
    BY <1>5, <2>1, <2>2 DEF w
<1>8. CASE Into(r, c, D) # {} /\ ~Ready(r, n, c)
  <2>1. w = run[r].waiting[c] \cup {n}
    BY <1>6, <1>8 DEF w, Received
  <2>2. \A i \in Completing(r, n, D) : f.edges[i].target # c
    BY <1>4, <1>8
  <2> QED
    BY <1>5, <2>1, <2>2 DEF w
<1>9. CASE Into(r, c, D) # {} /\ Ready(r, n, c)
  <2>1. w = IF ReadyAgain(r, n, c) \/ \A i, j \in Into(r, c, D) : i = j THEN {} ELSE {n}
    BY <1>6, <1>9 DEF w
  <2>2. s \notin w
    BY <1>3, <2>1
  <2>3. s \in run[r].waiting[c] \/ s = n
    BY <1>1, <1>9
  <2> QED
    BY <1>5, <2>2, <2>3 DEF w
<1> QED
  BY <1>7, <1>8, <1>9

(* The tickets for c that a delivery, and that a jump, puts in the queue.  *)
Sent(r, n, D, c) ==
  {[turn |-> <<run[r].steps + 1, i>>, node |-> c] :
     i \in {j \in Completing(r, n, D) : FlowOf(r).edges[j].target = c}}

Jumped(r, n, c) ==
  IF LoopsBack(r, n) /\ FlowOf(r).loopTo[n] = c
  THEN {[turn |-> <<run[r].steps + 1, Len(FlowOf(r).edges) + 1>>, node |-> c]}
  ELSE {}

(* What q.node hands on to the i-th node of the way p.                     *)
HandsOn(l, k, q, p, i, S) ==
  /\ Alone(S)
  /\ S # {} => i < Len(p) /\ (Held(l, p, i) \/ q.node = p[i + 1]) /\ ~Held(k, p, i)
  /\ Held(k, p, i) => Held(l, p, i) \/ (i < Len(p) /\ q.node = p[i + 1])

LEMMA HandsOnAlong ==
  ASSUME NEW r \in Runs, NEW q, NEW D, D \subseteq OutEdges(FlowOf(r), q.node), D \subseteq Nat,
         NEW k, k.waiting = WaitingAfter(r, q.node, D),
         NEW b, NEW p \in Seq(Node), WayInto(FlowOf(r), b, p), NEW i \in 1 .. Len(p)
  PROVE  HandsOn(run[r], k, q, p, i, Sent(r, q.node, D, p[i]))
<1> DEFINE n == q.node
           f == FlowOf(r)
           S == Sent(r, n, D, p[i])
<1>1. /\ Len(p) \in Nat /\ p[i] \in Node
      /\ i < Len(p) => Needs(f, p[i], p[i + 1])
      /\ InEdges(f, p[Len(p)]) = {}
  BY WayTypes
<1>2. S # {} => \E j \in Completing(r, n, D) : f.edges[j].target = p[i]
  BY DEF Sent
<1>3. CASE i < Len(p)
  <2> DEFINE c == p[i]
             s == p[i + 1]
  <2>1. Needs(f, c, s) /\ c \in Node
    BY <1>1, <1>3
  <2> HIDE DEF c, s
  <2>2. /\ \A x, y \in Completing(r, n, D) : f.edges[x].target = c /\ f.edges[y].target = c => x = y
        /\ (\E x \in Completing(r, n, D) : f.edges[x].target = c) =>
             (s \in run[r].waiting[c] \/ s = n) /\ s \notin WaitingAfter(r, n, D)[c]
        /\ s \in WaitingAfter(r, n, D)[c] => s \in run[r].waiting[c] \/ s = n
    BY <2>1, DeliversToWay
  <2>3. Alone(S)
    BY <2>2 DEF Alone, Sent, c
  <2>4. /\ Held(run[r], p, i) <=> s \in run[r].waiting[c]
        /\ Held(k, p, i) <=> s \in WaitingAfter(r, n, D)[c]
    BY <1>3 DEF Held, c, s
  <2> QED
    BY <1>2, <1>3, <2>2, <2>3, <2>4 DEF HandsOn, c, s
<1>4. CASE ~(i < Len(p))
  <2>1. InEdges(f, p[i]) = {}
    <3>1. i = Len(p)
      BY <1>1, <1>4
    <3> QED
      BY <1>1, <3>1
  <2>2. \A j \in D : f.edges[j].target # p[i]
    BY <2>1 DEF InEdges, OutEdges
  <2>3. S = {}
    BY <2>2 DEF Sent, Completing
  <2>4. ~Held(k, p, i)
    BY <1>4 DEF Held
  <2> QED
    BY <2>3, <2>4 DEF HandsOn, Alone
<1> QED
  BY <1>3, <1>4

(* What the queue holds of a node once q ran.                              *)
LEMMA QueuesAlong ==
  ASSUME NEW r \in Runs, NEW q, NEW D, NEW k, k.queue = QueueAfter(r, q, D), NEW c
  PROVE  Here(k, c) \subseteq (Here(run[r], c) \ {q}) \cup Sent(r, q.node, D, c)
                                \cup Jumped(r, q.node, c)
<1> DEFINE f == FlowOf(r)
           at == run[r].steps + 1
           T(i) == [turn |-> <<at, i>>, node |-> f.edges[i].target]
           L == [turn |-> <<at, Len(f.edges) + 1>>, node |-> f.loopTo[q.node]]
<1>1. k.queue = (run[r].queue \ {q}) \cup {T(i) : i \in Completing(r, q.node, D)}
                  \cup (IF LoopsBack(r, q.node) THEN {L} ELSE {})
  BY DEF QueueAfter
<1> SUFFICES ASSUME NEW t \in k.queue, t.node = c, t \notin run[r].queue \ {q}
             PROVE  t \in Sent(r, q.node, D, c) \cup Jumped(r, q.node, c)
  BY DEF Here
<1>2. CASE t \in {T(i) : i \in Completing(r, q.node, D)}
  BY <1>2 DEF Sent
<1>3. CASE LoopsBack(r, q.node) /\ t = L
  BY <1>3 DEF Jumped
<1> QED
  BY <1>1, <1>2, <1>3

(* What running q changes at the i-th node of a way that no jump leads to. *)
Moves(l, k, q, p, i) ==
  \E S : HandsOn(l, k, q, p, i, S) /\ Here(k, p[i]) \subseteq (Here(l, p[i]) \ {q}) \cup S

(* Running a node of the way moves the one result under way a node on.     *)
LEMMA OneStaysUnderWay ==
  ASSUME NEW l, NEW k, NEW q \in l.queue, NEW p, Len(p) \in Nat,
         \A i, j \in 1 .. Len(p) : p[i] = p[j] => i = j,
         OneUnderWay(l, p), \A i \in 2 .. Len(p) : Moves(l, k, q, p, i)
  PROVE  /\ OneUnderWay(k, p)
         /\ Ahead(k, p) => Ahead(l, p)
         /\ 2 <= Len(p) /\ q.node = p[2] => Ahead(l, p) /\ ~Ahead(k, p)
<1>1. \A i \in 2 .. Len(p) : q.node = p[i] =>
        Live(l, p, i) /\ Here(l, p[i]) = {q} /\ ~Held(l, p, i)
  BY DEF OneUnderWay, Live, Here, Alone
<1> DEFINE Gets(i) == i < Len(p) /\ q.node = p[i + 1]
<1>2. ASSUME NEW i \in 2 .. Len(p), Gets(i)
      PROVE  /\ i + 1 \in 2 .. Len(p) /\ Live(l, p, i + 1) /\ ~Live(l, p, i)
             /\ p[i] # q.node
  <2>1. i + 1 \in 2 .. Len(p) /\ i # i + 1 /\ i \in 1 .. Len(p) /\ i + 1 \in 1 .. Len(p)
    BY <1>2
  <2>2. Live(l, p, i + 1)
    BY <1>1, <1>2, <2>1
  <2> QED
    BY <1>2, <2>1, <2>2 DEF OneUnderWay
<1>3. ASSUME NEW i \in 2 .. Len(p), Live(k, p, i), ~Gets(i)
      PROVE  Live(l, p, i) /\ p[i] # q.node
  <2>1. PICK S : HandsOn(l, k, q, p, i, S) /\ Here(k, p[i]) \subseteq (Here(l, p[i]) \ {q}) \cup S
    BY DEF Moves
  <2>2. Held(k, p, i) \/ S # {} => Held(l, p, i)
    BY <1>3, <2>1 DEF HandsOn
  <2>3. CASE Held(l, p, i)
    BY <1>1, <2>3 DEF Live
  <2>4. CASE ~Held(l, p, i)
    <3>1. Here(l, p[i]) \ {q} # {}
      BY <1>3, <2>1, <2>2, <2>4 DEF Live
    <3> QED
      BY <1>1, <3>1 DEF Live
  <2> QED
    BY <2>3, <2>4
<1>4. ASSUME NEW i \in 2 .. Len(p), NEW j \in 2 .. Len(p), Live(k, p, i), Live(k, p, j)
      PROVE  i = j
  <2>1. CASE Gets(i) /\ Gets(j)
    <3>1. i + 1 \in 1 .. Len(p) /\ j + 1 \in 1 .. Len(p) /\ p[i + 1] = p[j + 1]
      BY <2>1
    <3> QED
      BY <3>1
  <2>2. CASE ~Gets(i) /\ ~Gets(j)
    BY <1>3, <1>4, <2>2 DEF OneUnderWay
  <2>3. ASSUME NEW x \in 2 .. Len(p), NEW y \in 2 .. Len(p), Live(k, p, x), ~Gets(x), Gets(y)
        PROVE  FALSE
    <3>1. Live(l, p, x) /\ p[x] # q.node
      BY <1>3, <2>3
    <3>2. y + 1 \in 2 .. Len(p) /\ Live(l, p, y + 1) /\ q.node = p[y + 1]
      BY <1>2, <2>3
    <3>3. x = y + 1
      BY <3>1, <3>2 DEF OneUnderWay
    <3> QED
      BY <3>1, <3>2, <3>3
  <2> QED
    BY <1>4, <2>1, <2>2, <2>3
<1>5. ASSUME NEW i \in 2 .. Len(p), Here(k, p[i]) # {}
      PROVE  ~Held(k, p, i) /\ Alone(Here(k, p[i]))
  <2>1. PICK S : HandsOn(l, k, q, p, i, S) /\ Here(k, p[i]) \subseteq (Here(l, p[i]) \ {q}) \cup S
    BY DEF Moves
  <2>2. CASE Here(l, p[i]) \ {q} = {}
    <3>1. S # {} /\ Here(k, p[i]) \subseteq S
      BY <1>5, <2>1, <2>2
    <3> QED
      BY <2>1, <3>1 DEF HandsOn, Alone
  <2>3. CASE Here(l, p[i]) \ {q} # {}
    <3>1. Live(l, p, i) /\ ~Held(l, p, i) /\ Alone(Here(l, p[i]))
      BY <2>3 DEF OneUnderWay, Live
    <3>2. ~Gets(i)
      BY <1>2, <3>1
    <3>3. S = {} /\ ~Held(k, p, i)
      BY <2>1, <3>1, <3>2 DEF HandsOn
    <3> QED
      BY <2>1, <3>1, <3>3 DEF Alone
  <2> QED
    BY <2>2, <2>3
<1>6. OneUnderWay(k, p)
  BY <1>4, <1>5 DEF OneUnderWay
<1>7. ASSUME Ahead(k, p) PROVE Ahead(l, p) /\ ~(2 <= Len(p) /\ q.node = p[2])
  <2>1. PICK i \in 2 .. Len(p) : Live(k, p, i)
    BY <1>7 DEF Ahead
  <2>2. \E j \in 2 .. Len(p) : Live(l, p, j)
    <3>1. CASE Gets(i)
      BY <1>2, <2>1, <3>1
    <3>2. CASE ~Gets(i)
      BY <1>3, <2>1, <3>2
    <3> QED
      BY <3>1, <3>2
  <2>3. ASSUME 2 <= Len(p), q.node = p[2] PROVE FALSE
    <3>1. 2 \in 2 .. Len(p) /\ Live(l, p, 2)
      BY <1>1, <2>3
    <3>2. CASE Gets(i)
      <4>1. i + 1 \in 2 .. Len(p) /\ Live(l, p, i + 1) /\ i + 1 # 2
        BY <1>2, <2>1, <3>2
      <4> QED
        BY <3>1, <4>1 DEF OneUnderWay
    <3>3. CASE ~Gets(i)
      <4>1. Live(l, p, i) /\ p[i] # q.node
        BY <1>3, <2>1, <3>3
      <4>2. i = 2
        BY <3>1, <4>1 DEF OneUnderWay
      <4> QED
        BY <2>3, <4>1, <4>2
    <3> QED
      BY <3>2, <3>3
  <2> QED
    BY <2>2, <2>3 DEF Ahead
<1>8. 2 <= Len(p) /\ q.node = p[2] => Ahead(l, p)
  <2>1. 2 <= Len(p) => 2 \in 2 .. Len(p)
    OBVIOUS
  <2> QED
    BY <1>1, <2>1 DEF Ahead
<1> QED
  BY <1>6, <1>7, <1>8

(* The entry of q is pushed on the data of l, or on what a resume keeps.   *)
Pushes(l, k, q, r) ==
  \E d, s : d.items \subseteq l.data.items /\ k.data = Push(d, q.node, s, r)

(* Running a node adds to the tally no more than the jumps to the body.    *)
LEMMA TallyStep ==
  ASSUME NEW l, NEW k, NEW r, NEW q \in l.queue, Pushes(l, k, q, r), NEW p, Len(p) \in Nat,
         IsFiniteSet(Passed(l.data, r, p[1])), IsFiniteSet(Here(l, p[1])),
         NEW S, HandsOn(l, k, q, p, 1, S), NEW J, IsFiniteSet(J),
         Here(k, p[1]) \subseteq (Here(l, p[1]) \ {q}) \cup S \cup J,
         Ahead(k, p) => Ahead(l, p),
         2 <= Len(p) /\ q.node = p[2] => Ahead(l, p) /\ ~Ahead(k, p)
  PROVE  /\ IsFiniteSet(Passed(k.data, r, p[1])) /\ IsFiniteSet(Here(k, p[1]))
         /\ Tally(k, r, p) <= Tally(l, r, p) + Cardinality(J)
<1> DEFINE g == 1 < Len(p) /\ q.node = p[2]
<1>1. /\ S # {} => (Held(l, p, 1) \/ g) /\ ~Held(k, p, 1)
      /\ Held(k, p, 1) => Held(l, p, 1) \/ g
      /\ Alone(S)
  BY DEF HandsOn
<1>2. One(S # {}) + One(Held(k, p, 1)) <= One(Held(l, p, 1)) + One(g)
  BY <1>1 DEF One
<1>3. One(Ahead(k, p)) + One(g) <= One(Ahead(l, p))
  BY DEF One
<1>4. IsFiniteSet(S) /\ Cardinality(S) = One(S # {})
  <2>1. CASE S = {}
    BY <2>1, FS_EmptySet DEF One
  <2>2. CASE S # {}
    <3>1. PICK x \in S : S = {x}
      BY <1>1, <2>2 DEF Alone
    <3> QED
      BY <2>2, <3>1, FS_Singleton DEF One
  <2> QED
    BY <2>1, <2>2
<1>5. IsFiniteSet(S \cup J) /\ Cardinality(S \cup J) <= One(S # {}) + Cardinality(J)
  <2>1. /\ IsFiniteSet(S \cup J)
        /\ Cardinality(S \cup J) = Cardinality(S) + Cardinality(J) - Cardinality(S \cap J)
    BY <1>4, FS_Union
  <2>2. IsFiniteSet(S \cap J)
    BY <1>4, FS_Subset
  <2>3. Cardinality(S) \in Nat /\ Cardinality(J) \in Nat /\ Cardinality(S \cap J) \in Nat
    BY <1>4, <2>2, FS_CardinalityType
  <2> QED
    BY <1>4, <2>1, <2>3
<1>6. /\ IsFiniteSet(Passed(k.data, r, p[1])) /\ IsFiniteSet(Here(k, p[1]))
      /\ Cardinality(Passed(k.data, r, p[1])) + Cardinality(Here(k, p[1]))
           <= Cardinality(Passed(l.data, r, p[1])) + Cardinality(Here(l, p[1]))
                + Cardinality(S \cup J)
  <2>1. Here(k, p[1]) \subseteq (Here(l, p[1]) \ {q}) \cup (S \cup J)
    OBVIOUS
  <2>2. PICK d, s : d.items \subseteq l.data.items /\ k.data = Push(d, q.node, s, r)
    BY DEF Pushes
  <2> QED
    BY <1>5, <2>1, <2>2, RunCounts
<1>7. Cardinality(J) \in Nat /\ Cardinality(S \cup J) \in Nat
  BY <1>5, FS_CardinalityType
<1>8. One(S # {}) \in {0, 1} /\ One(g) \in {0, 1}
  BY DEF One
<1> HIDE DEF g
<1>9. /\ Cardinality(Passed(k.data, r, p[1])) \in Nat /\ Cardinality(Here(k, p[1])) \in Nat
      /\ One(Held(k, p, 1)) \in {0, 1} /\ One(Ahead(k, p)) \in {0, 1}
  BY <1>6, TallyType
<1>10. /\ Cardinality(Passed(l.data, r, p[1])) \in Nat /\ Cardinality(Here(l, p[1])) \in Nat
       /\ One(Held(l, p, 1)) \in {0, 1} /\ One(Ahead(l, p)) \in {0, 1}
  BY TallyType
<1>11. Tally(k, r, p) <= Tally(l, r, p) + Cardinality(J)
  <2> DEFINE a == Cardinality(Passed(l.data, r, p[1])) + Cardinality(Here(l, p[1]))
             c == Cardinality(Passed(k.data, r, p[1])) + Cardinality(Here(k, p[1]))
             e == One(Held(l, p, 1))
             h == One(Held(k, p, 1))
             u == One(Ahead(l, p))
             v == One(Ahead(k, p))
             x == One(S # {})
             y == One(g)
             z == Cardinality(S \cup J)
             w == Cardinality(J)
  <2>1. Tally(k, r, p) = c + h + v /\ Tally(l, r, p) = a + e + u
    BY DEF Tally
  <2>2. /\ a \in Int /\ c \in Int /\ e \in Int /\ h \in Int /\ u \in Int /\ v \in Int
        /\ x \in Int /\ y \in Int /\ z \in Int /\ w \in Int
    BY <1>7, <1>8, <1>9, <1>10
  <2>3. x + h <= e + y /\ v + y <= u /\ z <= x + w /\ c <= a + z
    BY <1>2, <1>3, <1>5, <1>6
  <2> HIDE DEF a, c, e, h, u, v, x, y, z, w
  <2>4. c + h + v <= a + e + u + w
    BY <2>2, <2>3
  <2> QED
    BY <2>1, <2>4 DEF w
<1> QED
  BY <1>6, <1>11

(* A jump to the body is counted by the loop, which has passes left.       *)
LEMMA JumpCounts ==
  ASSUME NEW r \in Runs, run[r] \in RunState, NEW b \in LoopNodes(FlowOf(r)),
         NEW p \in Seq(Node), WayInto(FlowOf(r), b, p), NEW n \in FlowOf(r).nodes, n \in Node
  PROVE  /\ \A i \in 2 .. Len(p) : Jumped(r, n, p[i]) = {}
         /\ IsFiniteSet(Jumped(r, n, p[1]))
         /\ Cardinality(Jumped(r, n, p[1])) = One(n = b /\ LoopsBack(r, n))
         /\ b \in Node /\ run[r].loops[b] \in Nat
         /\ LoopsAfter(r, n)[b] = run[r].loops[b] + One(n = b /\ LoopsBack(r, n))
         /\ n = b /\ LoopsBack(r, n) => run[r].loops[b] + 2 <= MaxLoop(FlowOf(r), b)
<1> DEFINE f == FlowOf(r)
<1>1. f \in Flow /\ b \in Node /\ run[r].loops \in [Node -> Nat] /\ b \in f.nodes
  BY FlowsAssumption DEF FlowOf, RunState, LoopNodes, Flow
<1>2. /\ Len(p) \in Nat /\ 1 <= Len(p) /\ p[1] = f.loopTo[b]
      /\ \A i, j \in 1 .. Len(p) : p[i] = p[j] => i = j
      /\ \A m \in f.nodes : f.kind[m] = "loop" /\ m # b =>
           \A i \in 1 .. Len(p) : f.loopTo[m] # p[i]
  BY WayTypes
<1>3. LoopsBack(r, n) => n \in LoopNodes(f) /\ run[r].loops[n] + 1 < MaxLoop(f, n)
  BY DEF LoopsBack, LoopNodes
<1>4. ASSUME NEW i \in 1 .. Len(p), LoopsBack(r, n), f.loopTo[n] = p[i] PROVE n = b /\ i = 1
  <2>1. n = b
    BY <1>2, <1>3, <1>4 DEF LoopNodes
  <2>2. 1 \in 1 .. Len(p) /\ p[i] = p[1]
    BY <1>2, <1>4, <2>1
  <2> QED
    BY <1>2, <2>1, <2>2
<1>5. \A i \in 2 .. Len(p) : Jumped(r, n, p[i]) = {}
  <2>1. ASSUME NEW i \in 2 .. Len(p) PROVE i \in 1 .. Len(p) /\ i # 1
    BY <1>2, <2>1
  <2> QED
    BY <1>4, <2>1 DEF Jumped
<1>6. IsFiniteSet(Jumped(r, n, p[1])) /\ Cardinality(Jumped(r, n, p[1])) = One(n = b /\ LoopsBack(r, n))
  <2>1. CASE n = b /\ LoopsBack(r, n)
    <3>1. PICK x : Jumped(r, n, p[1]) = {x}
      BY <1>2, <2>1 DEF Jumped
    <3> QED
      BY <2>1, <3>1, FS_Singleton DEF One
  <2>2. CASE ~(n = b /\ LoopsBack(r, n))
    <3>1. Jumped(r, n, p[1]) = {}
      <4>1. 1 \in 1 .. Len(p)
        BY <1>2
      <4> QED
        BY <1>4, <2>2, <4>1 DEF Jumped
    <3> QED
      BY <2>2, <3>1, FS_EmptySet DEF One
  <2> QED
    BY <2>1, <2>2
<1>7. LoopsAfter(r, n)[b] = run[r].loops[b] + One(n = b /\ LoopsBack(r, n))
  BY <1>1 DEF LoopsAfter, One
<1>8. MaxLoop(f, b) \in Nat
  BY <1>1, BoundsAssumption DEF MaxLoop, Flow
<1>9. n = b /\ LoopsBack(r, n) => run[r].loops[b] + 2 <= MaxLoop(f, b)
  BY <1>1, <1>3, <1>8
<1> QED
  BY <1>1, <1>5, <1>6, <1>7, <1>9

LEMMA FinishesOnWay ==
  ASSUME NEW r \in Runs, run[r] \in RunState, NEW q \in run[r].queue, NEW k,
         q.node \in Node, q.node \in FlowOf(r).nodes,
         NEW D, D \subseteq OutEdges(FlowOf(r), q.node), D \subseteq Nat,
         NEW d, d.items \subseteq run[r].data.items, NEW s, k.data = Push(d, q.node, s, r),
         k.waiting = WaitingAfter(r, q.node, D), k.queue = QueueAfter(r, q, D),
         k.loops = LoopsAfter(r, q.node), k.flow = run[r].flow,
         NEW b \in LoopNodes(FlowOf(r)), NEW p \in Seq(Node), WayInto(FlowOf(r), b, p),
         OnWay(run[r], r, b, p)
  PROVE  OnWay(k, r, b, p)
<1> DEFINE l == run[r]
           n == q.node
           S(c) == Sent(r, n, D, c)
           J(c) == Jumped(r, n, c)
<1>1. /\ Len(p) \in Nat /\ 1 <= Len(p)
      /\ \A i, j \in 1 .. Len(p) : p[i] = p[j] => i = j
  BY WayTypes
<1>2. \A i \in 1 .. Len(p) : HandsOn(l, k, q, p, i, S(p[i]))
  BY HandsOnAlong
<1>3. \A i \in 1 .. Len(p) : Here(k, p[i]) \subseteq (Here(l, p[i]) \ {q}) \cup S(p[i]) \cup J(p[i])
  BY QueuesAlong
<1> HIDE DEF S, J
<1>4. /\ \A i \in 2 .. Len(p) : J(p[i]) = {}
      /\ IsFiniteSet(J(p[1]))
      /\ Cardinality(J(p[1])) = One(n = b /\ LoopsBack(r, n))
      /\ b \in Node /\ l.loops[b] \in Nat
      /\ k.loops[b] = l.loops[b] + One(n = b /\ LoopsBack(r, n))
      /\ n = b /\ LoopsBack(r, n) => l.loops[b] + 2 <= MaxLoop(FlowOf(r), b)
  <2>1. n \in FlowOf(r).nodes /\ n \in Node /\ k.loops = LoopsAfter(r, n)
    OBVIOUS
  <2> HIDE DEF n
  <2>2. /\ \A i \in 2 .. Len(p) : Jumped(r, n, p[i]) = {}
        /\ IsFiniteSet(Jumped(r, n, p[1]))
        /\ Cardinality(Jumped(r, n, p[1])) = One(n = b /\ LoopsBack(r, n))
        /\ b \in Node /\ run[r].loops[b] \in Nat
        /\ LoopsAfter(r, n)[b] = run[r].loops[b] + One(n = b /\ LoopsBack(r, n))
        /\ n = b /\ LoopsBack(r, n) => run[r].loops[b] + 2 <= MaxLoop(FlowOf(r), b)
    BY <2>1, JumpCounts
  <2> QED
    BY <2>1, <2>2 DEF J
<1>5. \A i \in 2 .. Len(p) : Moves(l, k, q, p, i)
  <2> SUFFICES ASSUME NEW i \in 2 .. Len(p) PROVE Moves(l, k, q, p, i)
    OBVIOUS
  <2>1. i \in 1 .. Len(p)
    BY <1>1
  <2> QED
    BY <1>2, <1>3, <1>4, <2>1 DEF Moves
<1>6. /\ OneUnderWay(k, p) /\ (Ahead(k, p) => Ahead(l, p))
      /\ 2 <= Len(p) /\ q.node = p[2] => Ahead(l, p) /\ ~Ahead(k, p)
  <2>1. OneUnderWay(l, p) /\ q \in l.queue
    BY DEF OnWay
  <2> HIDE DEF l
  <2> QED
    BY <1>1, <1>5, <2>1, OneStaysUnderWay
<1>7. /\ IsFiniteSet(Passed(l.data, r, p[1])) /\ IsFiniteSet(Here(l, p[1]))
      /\ Tally(l, r, p) <= 1 + l.loops[b]
      /\ l.loops[b] + 1 <= MaxLoop(FlowOf(r), b)
  BY DEF OnWay, Counted, FlowOf
<1>8. 1 \in 1 .. Len(p)
  BY <1>1
<1>9. /\ IsFiniteSet(Passed(k.data, r, p[1])) /\ IsFiniteSet(Here(k, p[1]))
      /\ Tally(k, r, p) <= Tally(l, r, p) + Cardinality(J(p[1]))
  <2>1. /\ HandsOn(l, k, q, p, 1, S(p[1]))
        /\ Here(k, p[1]) \subseteq (Here(l, p[1]) \ {q}) \cup S(p[1]) \cup J(p[1])
    BY <1>2, <1>3, <1>8
  <2>2. PICK T : T = S(p[1])
    OBVIOUS
  <2>3. PICK K : K = J(p[1]) /\ IsFiniteSet(K)
    BY <1>4
  <2>4. HandsOn(l, k, q, p, 1, T) /\ Here(k, p[1]) \subseteq (Here(l, p[1]) \ {q}) \cup T \cup K
    BY <2>1, <2>2, <2>3
  <2>5. q \in l.queue /\ Pushes(l, k, q, r)
    BY DEF Pushes
  <2> HIDE DEF l, n
  <2>6. /\ IsFiniteSet(Passed(k.data, r, p[1])) /\ IsFiniteSet(Here(k, p[1]))
        /\ Tally(k, r, p) <= Tally(l, r, p) + Cardinality(K)
    BY <1>1, <1>6, <1>7, <2>3, <2>4, <2>5, TallyStep
  <2> QED
    BY <2>3, <2>6
<1>10. Tally(k, r, p) \in Nat /\ Tally(l, r, p) \in Nat
  BY <1>7, <1>9, TallyType
<1>11. Tally(k, r, p) <= 1 + k.loops[b]
  BY <1>4, <1>7, <1>9, <1>10 DEF One
<1>12. k.loops[b] + 1 <= MaxLoop(FlowOf(r), b)
  BY <1>4, <1>7 DEF One
<1> QED
  BY <1>6, <1>9, <1>11, <1>12 DEF OnWay, Counted, FlowOf

-----------------------------------------------------------------------------
LoopsRun == \A x \in Flows : \A b \in LoopNodes(FlowData[x]) : MaxLoop(FlowData[x], b) > 0

LEMMA BecomesLoops ==
  ASSUME TypeInv, LoopInv, NEW r \in Runs, NEW m, Becomes(r, m), LoopRun(m, r)
  PROVE  LoopInv'
<1>1. \A p \in Runs : run'[p] = IF p = r THEN m ELSE run[p]
  BY DEF Becomes, TypeInv, TypeOK
<1> QED
  BY <1>1 DEF LoopInv

LEMMA LoopNodeType == \A x \in Flows : LoopNodes(FlowData[x]) \subseteq Node
BY FlowsAssumption DEF LoopNodes, Flow

LEMMA StartsLoops ==
  ASSUME LoopsRun, NEW l \in RunState, NEW r \in Runs, NoneBy(l.data, r), l.waiting = NoInput,
         l.loops = [n \in Node |-> 0], NEW x, l.queue \subseteq {x}
  PROVE  LoopRun(l, r)
<1>1. \A b \in LoopNodes(FlowData[l.flow]) : MaxLoop(FlowData[l.flow], b) > 0
  BY DEF LoopsRun, RunState
<1> QED
  BY <1>1, StartsOnWay DEF LoopRun

(* A step that lets a run's data, loops and waiting nodes be.              *)
LEMMA QuietLoops ==
  ASSUME TypeInv, LoopInv, NEW r \in Runs, NEW m \in RunState, Becomes(r, m),
         m.data = run[r].data, m.waiting = run[r].waiting, m.loops = run[r].loops,
         m.flow = run[r].flow, m.queue \subseteq run[r].queue, Fresh(m) => Fresh(run[r])
  PROVE  LoopInv'
<1>1. run[r] \in RunState /\ LoopRun(run[r], r)
  BY DEF TypeInv, TypeOK, LoopInv
<1>2. LoopNodes(FlowData[m.flow]) \subseteq Node
  BY LoopNodeType DEF RunState
<1>3. LoopRun(m, r)
  BY <1>1, <1>2, QuietOnWay DEF LoopRun
<1> QED
  BY <1>3, BecomesLoops

LEMMA SubmitLoops ==
  ASSUME TypeInv, TypeInv', LoopInv, LoopsRun, NEW r \in Runs, Submit(r)
  PROVE  LoopInv'
<1> DEFINE l(b, s) == [IdleRun(canvas) EXCEPT !.pc = "looking", !.resume = b, !.start = s]
<1>1. PICK b \in BOOLEAN, s \in Node \cup {NoNode} : Becomes(r, l(b, s))
  BY ClientAssumption DEF Submit
<1>2. /\ l(b, s).data = EmptyData /\ l(b, s).queue = {}
      /\ l(b, s).waiting = NoInput /\ l(b, s).loops = [n \in Node |-> 0]
  BY DEF IdleRun, NoInput
<1>3. PICK m : m = l(b, s)
  OBVIOUS
<1> HIDE DEF l
<1>4. m \in RunState
  BY <1>1, <1>3 DEF Becomes, TypeInv, TypeOK
<1>5. LoopRun(m, r)
  <2>1. NoneBy(m.data, r)
    BY <1>2, <1>3 DEF NoneBy, EmptyData
  <2>2. m.queue \subseteq {0}
    BY <1>2, <1>3
  <2> QED
    BY <1>2, <1>3, <1>4, <2>1, <2>2, StartsLoops
<1> QED
  BY <1>1, <1>3, <1>5, BecomesLoops

LEMMA AtMostOne ==
  ASSUME NEW S, IsFiniteSet(S), Cardinality(S) <= 1
  PROVE  \E x : S \subseteq {x}
<1>1. Cardinality(S) \in Nat
  BY FS_CardinalityType
<1>2. CASE Cardinality(S) = 0
  BY <1>2, FS_EmptySet
<1>3. CASE Cardinality(S) = 1
  BY <1>3, FS_Singleton
<1> QED
  BY <1>1, <1>2, <1>3

LEMMA CreateExecutionLoops ==
  ASSUME TypeInv, TypeInv', SoundInv, WalkInv, LoopInv, LoopsRun, NEW r \in Runs,
         CreateExecution(r)
  PROVE  LoopInv'
<1> DEFINE Q == {[turn |-> <<0, 0>>, node |-> n] : n \in StartingNodes(FlowOf(r))}
           l == [run[r] EXCEPT !.pc = "running", !.exec = created + 1, !.queue = Q]
<1>1. Becomes(r, l) /\ run[r].pc = "looking" /\ Cardinality(StartingNodes(FlowOf(r))) <= 1
  BY DEF CreateExecution
<1>2. run[r] \in RunState /\ run[r].data.items = {}
      /\ run[r].waiting = NoInput /\ run[r].loops = [n \in Node |-> 0]
  BY <1>1 DEF TypeInv, TypeOK, SoundInv, SoundRun, WalkInv, WalkRun, LoopInv, LoopRun, Fresh
<1>3. /\ l.data = run[r].data /\ l.waiting = NoInput /\ l.loops = [n \in Node |-> 0] /\ l.queue = Q
  BY <1>2 DEF RunState
<1>4. PICK m : m = l
  OBVIOUS
<1> HIDE DEF l
<1>5. m \in RunState
  BY <1>1, <1>4 DEF Becomes, TypeInv, TypeOK
<1>6. PICK x : StartingNodes(FlowOf(r)) \subseteq {x}
  <2>1. IsFiniteSet(FlowOf(r).nodes)
    BY <1>2, FiniteAssumption DEF FlowOf, RunState
  <2>2. StartingNodes(FlowOf(r)) \subseteq FlowOf(r).nodes
    BY DEF StartingNodes
  <2>3. IsFiniteSet(StartingNodes(FlowOf(r)))
    BY <2>1, <2>2, FS_Subset
  <2> QED
    BY <1>1, <2>3, AtMostOne
<1>7. Q \subseteq {[turn |-> <<0, 0>>, node |-> x]}
  BY <1>6
<1>8. NoneBy(m.data, r)
  BY <1>2, <1>3, <1>4 DEF NoneBy
<1>9. LoopRun(m, r)
  <2> HIDE DEF Q
  <2>1. PICK y : m.queue \subseteq {y}
    BY <1>3, <1>4, <1>7
  <2> QED
    BY <1>3, <1>4, <1>5, <1>8, <2>1, StartsLoops
<1> QED
  BY <1>1, <1>4, <1>9, BecomesLoops

LEMMA ResumeExecutionLoops ==
  ASSUME TypeInv, TypeInv', SoundInv, WalkInv, LoopInv, LoopsRun, NEW r \in Runs, NEW e \in Exec,
         ResumeExecution(r, e)
  PROVE  LoopInv'
<1> DEFINE kept == KeptData(rows[e])
           s    == StartOf(kept, run[r].start)
           ph   == IF rows[e].state = "ERROR" THEN "retry" ELSE "claim"
           Q    == {[turn |-> <<0, 0>>, node |-> s]}
           l    == [run[r] EXCEPT !.pc = "find", !.phase = ph, !.exec = e, !.data = kept,
                                  !.start = s, !.human = s, !.queue = Q]
<1>1. Becomes(r, l) /\ run[r].pc = "looking"
  BY DEF ResumeExecution
<1>2. run[r] \in RunState /\ rows[e] \in Row /\ rows[e] # NoRow
      /\ SoundRow(rows[e]) /\ Resumable(rows[e])
  BY DEF TypeInv, TypeOK, SoundInv, ResumeExecution, CanResume, IsNewest
<1>3. Fresh(run[r]) /\ run[r].waiting = NoInput /\ run[r].loops = [n \in Node |-> 0]
  BY <1>1 DEF WalkInv, WalkRun, LoopInv, LoopRun, Fresh
<1>4. l.data = kept /\ l.queue = Q /\ l.waiting = run[r].waiting /\ l.loops = run[r].loops
  BY <1>2 DEF RunState
<1>5. NoneBy(kept, r)
  <2>1. kept.items \subseteq rows[e].data.items
    BY <1>2, KeptIsOpen
  <2>2. rows[e].data \in Stores
    BY <1>2 DEF Stores
  <2> QED
    BY <1>3, <2>1, <2>2 DEF WalkInv, NoneBy
<1>6. PICK x : Q = {x}
  OBVIOUS
<1>7. PICK m : m = l
  OBVIOUS
<1> HIDE DEF l, kept, s, Q
<1>8. m \in RunState
  BY <1>1, <1>7 DEF Becomes, TypeInv, TypeOK
<1>9. LoopRun(m, r)
  BY <1>3, <1>4, <1>5, <1>6, <1>7, <1>8, StartsLoops
<1> QED
  BY <1>1, <1>7, <1>9, BecomesLoops

LEMMA QuietStepLoops ==
  ASSUME TypeInv, TypeInv', LoopInv, NEW r \in Runs,
         \/ RefuseRequest(r) \/ FindRow(r) \/ SaveRow(r) \/ ExceedIterations(r) \/ EndLoop(r)
         \/ Crash(r) \/ Abort(r) \/ \E q \in run[r].queue : SkipMissingNode(r, q)
  PROVE  LoopInv'
<1>1. run[r] \in RunState
  BY DEF TypeInv, TypeOK
<1> DEFINE Same(m) == /\ m.data = run[r].data /\ m.waiting = run[r].waiting
                      /\ m.loops = run[r].loops /\ m.flow = run[r].flow
                      /\ m.queue \subseteq run[r].queue /\ (Fresh(m) => Fresh(run[r]))
<1>2. SUFFICES \E m : Becomes(r, m) /\ Same(m)
  <2>1. PICK m : Becomes(r, m) /\ Same(m)
    BY <1>2
  <2>2. m \in RunState
    BY <2>1 DEF Becomes, TypeInv, TypeOK
  <2> QED
    BY <2>1, <2>2, QuietLoops
<1>3. ASSUME NEW pc \in Pc \ {"idle", "looking"}, Becomes(r, [run[r] EXCEPT !.pc = pc])
      PROVE  \E m : Becomes(r, m) /\ Same(m)
  BY <1>1, <1>3 DEF RunState, Fresh
<1>4. CASE RefuseRequest(r) \/ ExceedIterations(r) \/ Crash(r)
  BY <1>3, <1>4 DEF RefuseRequest, ExceedIterations, Crash, Pc
<1>5. CASE Abort(r)
  <2>1. Same([run[r] EXCEPT !.aborted = TRUE])
    BY <1>1 DEF RunState, Fresh
  <2> QED
    BY <1>5, <2>1 DEF Abort
<1>6. CASE FindRow(r)
  <2>1. CASE rows[run[r].exec] = NoRow
    BY <1>3, <1>6, <2>1 DEF FindRow, Pc
  <2>2. CASE rows[run[r].exec] # NoRow
    <3>1. Same([run[r] EXCEPT !.pc = "save", !.found = rows[run[r].exec]])
      BY <1>1 DEF RunState, Fresh
    <3> QED
      BY <1>6, <2>2, <3>1 DEF FindRow
  <2> QED
    BY <2>1, <2>2
<1>7. CASE SaveRow(r)
  <2> DEFINE ph == IF run[r].phase = "retry" THEN "claim" ELSE run[r].phase
             m == [run[r] EXCEPT !.pc = AfterSave(r), !.phase = ph]
  <2>1. AfterSave(r) \notin {"idle", "looking"}
    BY DEF AfterSave
  <2>2. Same(m)
    BY <1>1, <2>1 DEF RunState, Fresh
  <2>3. Becomes(r, m)
    BY <1>1, <1>7 DEF SaveRow, RunState
  <2> QED
    BY <2>2, <2>3
<1>8. CASE EndLoop(r)
  <2>1. Same([run[r] EXCEPT !.pc = "find", !.phase = "settle", !.status = FinalStatus(run[r].data)])
    BY <1>1 DEF RunState, Fresh
  <2> QED
    BY <1>8, <2>1 DEF EndLoop
<1>9. CASE \E q \in run[r].queue : SkipMissingNode(r, q)
  <2>1. PICK q \in run[r].queue : SkipMissingNode(r, q)
    BY <1>9
  <2> DEFINE m == [run[r] EXCEPT !.queue = @ \ {q}, !.steps = @ + 1]
  <2>2. Same(m)
    BY <1>1 DEF RunState, Fresh
  <2>3. Becomes(r, m)
    BY <2>1 DEF SkipMissingNode
  <2> QED
    BY <2>2, <2>3
<1> QED
  BY <1>4, <1>5, <1>6, <1>7, <1>8, <1>9

LEMMA LeavesLoops ==
  ASSUME TypeInv, TypeInv', LoopInv, NEW r \in Runs, NEW q \in run[r].queue,
         NEW m, Becomes(r, m), ~Fresh(m),
         NEW d, d.items \subseteq run[r].data.items, NEW s, m.data = Push(d, q.node, s, r),
         m.waiting = run[r].waiting, m.loops = run[r].loops, m.flow = run[r].flow,
         m.queue \subseteq run[r].queue \ {q}
  PROVE  LoopInv'
<1>1. m \in RunState /\ run[r] \in RunState /\ LoopRun(run[r], r)
  BY DEF Becomes, TypeInv, TypeOK, LoopInv
<1>2. LoopNodes(FlowData[m.flow]) \subseteq Node
  BY <1>1, LoopNodeType DEF RunState
<1>3. LoopRun(m, r)
  BY <1>1, <1>2, LeavesOnWay DEF LoopRun
<1> QED
  BY <1>3, BecomesLoops

LEMMA StopForHumanLoops ==
  ASSUME TypeInv, TypeInv', GateInv, LoopInv, NEW r \in Runs, NEW q \in run[r].queue,
         StopForHuman(r, q)
  PROVE  LoopInv'
<1> DEFINE n == q.node
           d == DataBefore(r, n)
           k == [run[r] EXCEPT
                 !.data  = Push(d, n, "STOPPED", r),
                 !.human = HumanAfter(r, n),
                 !.queue = {}, !.steps = @ + 1, !.status = "STOPPED"]
<1>1. /\ run[r] \in RunState /\ n \in Node /\ run[r].pc = "running" /\ Becomes(r, k)
  BY DEF TypeInv, TypeOK, RunState, Ticket, StopForHuman, Executes
<1>2. PICK m : m = k
  OBVIOUS
<1>3. /\ m.data = Push(d, n, "STOPPED", r) /\ m.pc = "running" /\ m.queue = {}
      /\ m.waiting = run[r].waiting /\ m.loops = run[r].loops /\ m.flow = run[r].flow
  BY <1>1, <1>2 DEF RunState
<1>4. d.items \subseteq run[r].data.items
  BY <1>1, BeforeKeeps
<1>5. Becomes(r, m)
  BY <1>1, <1>2
<1> HIDE DEF k, d
<1> QED
  BY <1>3, <1>4, <1>5, LeavesLoops DEF Fresh

LEMMA CatchLoops ==
  ASSUME TypeInv, TypeInv', LoopInv, NEW r \in Runs, NEW q \in run[r].queue, NEW t,
         Catch(r, q, t)
  PROVE  LoopInv'
<1> DEFINE k == [run[r] EXCEPT !.data = Push(@, q.node, t, r), !.status = t,
                               !.queue = @ \ {q}, !.steps = @ + 1,
                               !.pc = "find", !.phase = "error"]
<1>1. run[r] \in RunState /\ Becomes(r, k)
  BY DEF TypeInv, TypeOK, Catch
<1>2. PICK m : m = k
  OBVIOUS
<1>3. /\ m.data = Push(run[r].data, q.node, t, r) /\ m.pc = "find"
      /\ m.queue = run[r].queue \ {q}
      /\ m.waiting = run[r].waiting /\ m.loops = run[r].loops /\ m.flow = run[r].flow
  BY <1>1, <1>2 DEF RunState
<1>4. Becomes(r, m)
  BY <1>1, <1>2
<1> HIDE DEF k
<1>5. PICK d : d = run[r].data
  OBVIOUS
<1>6. d.items \subseteq run[r].data.items /\ m.data = Push(d, q.node, t, r)
  BY <1>3, <1>5
<1> QED
  BY <1>3, <1>4, <1>6, LeavesLoops DEF Fresh

LEMMA FinishNodeLoops ==
  ASSUME TypeInv, TypeInv', GateInv, LoopInv, NEW r \in Runs, NEW q \in run[r].queue,
         FinishNode(r, q)
  PROVE  LoopInv'
<1> DEFINE l == run[r]
           n == q.node
           d == DataBefore(r, n)
           E(o) == DeliveryEdges(FlowOf(r), n, o)
           m(o) == [l EXCEPT
                 !.data    = Push(d, n, "FINISHED", r),
                 !.human   = IF LoopsBack(r, n) THEN NoNode ELSE HumanAfter(r, n),
                 !.waiting = WaitingAfter(r, n, E(o)),
                 !.queue   = QueueAfter(r, q, E(o)),
                 !.loops   = LoopsAfter(r, n),
                 !.steps   = @ + 1]
<1>1. PICK o \in Outcomes(FlowOf(r), n) : Becomes(r, m(o))
  BY DEF FinishNode
<1>2. l \in RunState /\ n \in Node /\ l.pc = "running" /\ n \in FlowOf(r).nodes /\ LoopRun(l, r)
  BY DEF TypeInv, TypeOK, RunState, Ticket, FinishNode, Executes, LoopInv
<1>3. PICK k : k = m(o)
  OBVIOUS
<1>4. PICK D : D = E(o)
  OBVIOUS
<1>5. /\ k.data = Push(d, n, "FINISHED", r)
      /\ k.waiting = WaitingAfter(r, n, D) /\ k.queue = QueueAfter(r, q, D)
      /\ k.loops = LoopsAfter(r, n) /\ k.pc = "running" /\ k.flow = l.flow
  BY <1>2, <1>3, <1>4 DEF RunState
<1>6. Becomes(r, k)
  BY <1>1, <1>3
<1>7. D \subseteq OutEdges(FlowOf(r), n) /\ D \subseteq Nat
  BY <1>2, <1>4, DeliversToAll, GraphTypes DEF OutEdges, FlowOf, RunState
<1> HIDE DEF m, E
<1>8. d.items \subseteq l.data.items
  BY <1>2, BeforeKeeps
<1> HIDE DEF d
<1>9. ASSUME NEW b \in LoopNodes(FlowOf(r)), NEW p \in Seq(Node), WayInto(FlowOf(r), b, p)
      PROVE  OnWay(k, r, b, p)
  <2>1. OnWay(l, r, b, p)
    BY <1>2, <1>9 DEF LoopRun, FlowOf
  <2> QED
    BY <1>2, <1>5, <1>7, <1>8, <1>9, <2>1, FinishesOnWay
<1>10. LoopRun(k, r)
  BY <1>5, <1>9 DEF LoopRun, FlowOf, Fresh
<1> QED
  BY <1>6, <1>10, BecomesLoops

LEMMA LoopInit == LoopsRun /\ Init => LoopInv
<1> SUFFICES ASSUME LoopsRun, Init, NEW r \in Runs PROVE LoopRun(run[r], r)
  BY DEF LoopInv
<1>1. PICK l : l = run[r]
  OBVIOUS
<1>2. l \in RunState
  BY <1>1, InitType DEF TypeOK
<1>3. /\ l.data = EmptyData /\ l.queue = {} /\ l.waiting = NoInput
      /\ l.loops = [n \in Node |-> 0]
  BY <1>1 DEF Init, IdleRun, NoInput
<1>4. NoneBy(l.data, r) /\ l.queue \subseteq {0}
  BY <1>3 DEF NoneBy, EmptyData
<1> QED
  BY <1>1, <1>2, <1>3, <1>4, StartsLoops

LEMMA LoopStep ==
  LoopsRun /\ TypeInv /\ SoundInv /\ GateInv /\ WalkInv /\ LoopInv /\ [Next]_vars => LoopInv'
<1> SUFFICES ASSUME LoopsRun, TypeInv, SoundInv, GateInv, WalkInv, LoopInv, [Next]_vars
             PROVE  LoopInv'
  OBVIOUS
<1>1. TypeInv'
  BY TypeStep
<1>2. ASSUME NEW r \in Runs, Submit(r) \/ Progress(r) PROVE LoopInv'
  <2>1. CASE NodeStep(r)
    <3>1. PICK q \in run[r].queue :
            \/ FinishNode(r, q) \/ StopForHuman(r, q) \/ FailNode(r, q)
            \/ AbortNode(r, q) \/ SkipMissingNode(r, q)
      BY <2>1 DEF NodeStep
    <3>2. CASE FailNode(r, q) \/ AbortNode(r, q)
      BY <1>1, <3>2, CatchLoops DEF FailNode, AbortNode
    <3> QED
      BY <1>1, <3>1, <3>2, FinishNodeLoops, StopForHumanLoops, QuietStepLoops
  <2> QED
    BY <1>1, <1>2, <2>1, SubmitLoops, CreateExecutionLoops, ResumeExecutionLoops,
       QuietStepLoops DEF Progress
<1>3. CASE Disturb
  <2>1. ASSUME NEW r \in Runs, Crash(r) \/ Abort(r) PROVE LoopInv'
    BY <1>1, <2>1, QuietStepLoops
  <2>2. CASE \/ \E e \in Exec : DeleteExecution(e) \/ ShareFind(e)
             \/ ShareSave
             \/ \E f \in Flows : EditFlow(f)
    <3>1. UNCHANGED run
      BY <2>2 DEF DeleteExecution, ShareFind, ShareSave, EditFlow
    <3> QED
      BY <3>1 DEF LoopInv
  <2> QED
    BY <1>3, <2>1, <2>2 DEF Disturb
<1>4. CASE UNCHANGED vars
  BY <1>4 DEF LoopInv, vars
<1> QED
  BY <1>2, <1>3, <1>4 DEF Next

(* Every loop lets its body run once, and a way leads into it.             *)
LoopsEntered ==
  \A x \in Flows : \A b \in LoopNodes(FlowData[x]) :
    /\ MaxLoop(FlowData[x], b) > 0
    /\ \E p \in Seq(Node) : WayInto(FlowData[x], b, p)

(* One request runs the body of a loop at most maxLoopCount times, in any  *)
(* flow whose loops are entered along one way (loopCounts): nothing but    *)
(* the jumps of the loop itself makes its body run again.                  *)
THEOREM LoopsAreBounded ==
  ASSUME LoopsEntered
  PROVE  Spec => []LoopBodyBounded
<1>1. LoopsRun
  BY DEF LoopsEntered, LoopsRun
<1>2. TypeInv /\ LoopInv => LoopBodyBounded
  <2> SUFFICES ASSUME TypeInv, LoopInv, NEW r \in Runs, NEW b \in LoopNodes(FlowOf(r))
               PROVE  Passes(run[r].data, FlowOf(r).loopTo[b], r) <= MaxLoop(FlowOf(r), b)
    BY DEF LoopBodyBounded, LoopNodes
  <2>1. run[r] \in RunState /\ run[r].flow \in Flows /\ LoopRun(run[r], r)
    BY DEF TypeInv, TypeOK, RunState, LoopInv
  <2>2. PICK p \in Seq(Node) : WayInto(FlowOf(r), b, p)
    BY <2>1 DEF LoopsEntered, FlowOf
  <2>3. OnWay(run[r], r, b, p)
    BY <2>1, <2>2 DEF LoopRun, FlowOf
  <2>4. p[1] = FlowOf(r).loopTo[b]
    BY <2>2, WayTypes
  <2> DEFINE c == Cardinality(Passed(run[r].data, r, p[1]))
             h == Cardinality(Here(run[r], p[1]))
             e == One(Held(run[r], p, 1))
             a == One(Ahead(run[r], p))
             k == run[r].loops[b]
             M == MaxLoop(FlowOf(r), b)
  <2>5. /\ c \in Nat /\ h \in Nat /\ e \in {0, 1} /\ a \in {0, 1}
        /\ c + h + e + a <= 1 + k /\ k + 1 <= M
    BY <2>3, TallyType DEF OnWay, Counted, Tally, FlowOf
  <2>6. k \in Nat /\ M \in Nat
    <3>1. b \in Node
      BY <2>1, LoopNodeType DEF FlowOf
    <3> QED
      BY <2>1, <3>1, FlowsAssumption, BoundsAssumption DEF RunState, MaxLoop, FlowOf, Flow
  <2>7. Passes(run[r].data, FlowOf(r).loopTo[b], r) = c
    BY <2>4 DEF Passes, Passed
  <2> HIDE DEF c, h, e, a, k, M
  <2>8. c <= M
    BY <2>5, <2>6
  <2> QED
    BY <2>7, <2>8 DEF M
<1> QED
  BY <1>1, <1>2, LoopInit, LoopStep, TypeInvariant, RowsSound, GatesHold, WalkHolds, PTL DEF Spec
=============================================================================
