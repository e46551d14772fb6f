--------------------------- MODULE AgentflowGraph ---------------------------
(***************************************************************************)
(* The flow graph of an AgentFlow V2 chatflow and the questions            *)
(* utils/buildAgentflow.ts asks of it: where a flow starts, which decision *)
(* node governs a node, which inputs a node waits for, and which children  *)
(* of a decision node are skipped.  Everything here is a function of the   *)
(* flow; the state machine that walks it is in AgentflowExecutor.          *)
(*                                                                         *)
(* A flow f is a record                                                    *)
(*   nodes   the ids of the nodes on the canvas                            *)
(*   kind    what each id is (an element of Kinds)                         *)
(*   edges   the edges in the order of flowData.edges; output is the index *)
(*           in the edge's sourceHandle ("<node>-output-<index>")          *)
(*   outputs for a decision node, how many conditions its result lists     *)
(*   loopTo, maxLoop  the two inputs of a Loop node (5 passes when the      *)
(*           second is left empty)                                         *)
(***************************************************************************)
EXTENDS Integers, FiniteSets, Sequences

CONSTANTS
  Node,       \* every node id a flow or a client can name
  NoNode      \* "no such node"

Kinds == {"plain", "condition", "conditionAgent", "humanInput", "agent", "loop"}

Edge == [source : Node, target : Node, output : Nat]

Flow == [nodes : SUBSET Node, kind : [Node -> Kinds], edges : Seq(Edge),
         outputs : [Node -> Nat], loopTo : [Node -> Node], maxLoop : [Node -> Nat]]

-----------------------------------------------------------------------------
InEdges(f, n)  == {i \in DOMAIN f.edges : f.edges[i].target = n}
OutEdges(f, n) == {i \in DOMAIN f.edges : f.edges[i].source = n}

(* The first edge of a set, the one Array.find returns. *)
FirstEdge(E) == CHOOSE i \in E : \A j \in E : i <= j

(* Nodes no edge enters: nodeDependencies counts incoming edges. *)
StartingNodes(f) == {n \in f.nodes : InEdges(f, n) = {}}

IsDecision(f, n) ==
  /\ n \in f.nodes
  /\ f.kind[n] \in {"condition", "conditionAgent", "humanInput"}

(* The node a walk up the graph reaches next: the source of the first edge *)
(* into n, whatever other edges enter it.                                  *)
FirstParent(f, n) ==
  IF n = NoNode \/ InEdges(f, n) = {} THEN NoNode
  ELSE LET p == f.edges[FirstEdge(InEdges(f, n))].source
       IN  IF p \in f.nodes THEN p ELSE NoNode

(* The decision node n hangs under: n itself, or the nearest one up the    *)
(* chain of first parents.  The chain has at most |nodes| distinct members,*)
(* so the walk stops there, where the code meets a node it has visited.    *)
ConditionParent(f, n) ==
  LET steps == 0..Cardinality(f.nodes)
      up == [m \in f.nodes \cup {NoNode} |-> FirstParent(f, m)]
      chain[k \in steps] == IF k = 0 THEN n ELSE up[chain[k - 1]]
      found == {k \in steps : IsDecision(f, chain[k])}
  IN  IF n \notin f.nodes \/ found = {} THEN NoNode
      ELSE chain[CHOOSE k \in found : \A m \in found : k <= m]

-----------------------------------------------------------------------------
(* The nodes that feed n (sources that are still on the canvas).           *)
Sources(f, n) == {f.edges[i].source : i \in InEdges(f, n)} \cap f.nodes

(* expectedInputs: the sources under no decision node.                     *)
ExpectedInputs(f, n) == {s \in Sources(f, n) : ConditionParent(f, s) = NoNode}

(* conditionalGroups: the other sources, grouped by their decision node.   *)
ConditionalGroups(f, n) ==
  {{s \in Sources(f, n) : ConditionParent(f, s) = c} :
     c \in {ConditionParent(f, s) : s \in Sources(f, n)} \ {NoNode}}

(* Mutant: any expected input will do.                                     *)
HasReceivedAnyInput(f, n, received) ==
  /\ ExpectedInputs(f, n) # {} => ExpectedInputs(f, n) \cap received # {}
  /\ \A g \in ConditionalGroups(f, n) : g \cap received # {}

(* Every expected input has come, and one of each conditional group.       *)
HasReceivedRequiredInputs(f, n, received) ==
  /\ ExpectedInputs(f, n) \subseteq received
  /\ \A g \in ConditionalGroups(f, n) : g \cap received # {}

-----------------------------------------------------------------------------
(* The outputs of decision node n that count as fulfilled: those its run   *)
(* marked, or the last one when it marked none.                            *)
EffectiveConditions(f, n, fulfilled) ==
  IF fulfilled = {} THEN {f.outputs[n] - 1} ELSE fulfilled

(* The children to skip: for each unfulfilled output, the target of the    *)
(* first edge that leaves it.                                              *)
IgnoredNodes(f, n, fulfilled) ==
  IF ~IsDecision(f, n) \/ f.outputs[n] = 0 THEN {}
  ELSE LET skipped == (0 .. f.outputs[n] - 1) \ EffectiveConditions(f, n, fulfilled)
           leaving(o) == {i \in OutEdges(f, n) : f.edges[i].output = o}
       IN  {f.edges[FirstEdge(leaving(o))].target : o \in {x \in skipped : leaving(x) # {}}}

(* The edges along which the result of n is delivered, in edge order.      *)
DeliveryEdges(f, n, fulfilled) ==
  {i \in OutEdges(f, n) : /\ f.edges[i].target \in f.nodes
                          /\ f.edges[i].target \notin IgnoredNodes(f, n, fulfilled)}

(* What a decision node's run can mark: a Condition node marks exactly one *)
(* output, a Condition Agent at most one, an answered Human Input node     *)
(* output 0 (proceed), 1 (reject) or, for any other answer, none.          *)
Outcomes(f, n) ==
  LET one == {{o} : o \in 0 .. f.outputs[n] - 1}
  IN  CASE f.kind[n] = "condition" -> one
        [] f.kind[n] \in {"conditionAgent", "humanInput"} -> one \cup {{}}
        [] OTHER -> {{}}
=============================================================================
