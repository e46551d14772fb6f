------------------------ MODULE AgentflowProperties ------------------------
(***************************************************************************)
(* What the AgentFlow V2 executor must and must not do.                    *)
(***************************************************************************)
EXTENDS AgentflowExecutor

(* The variables have the shape of the tables and locals they stand for.   *)
TypeOK ==
  /\ rows \in [Exec -> Row \cup {NoRow}]
  /\ created \in 0 .. MaxExecutions
  /\ canvas \in Flows
  /\ run \in [Runs -> RunState]
  /\ sharing \in [exec : Exec \cup {0}, row : Row \cup {NoRow}]
  /\ budget \in [Disturbances -> Nat]

(* Executed data that agrees with a settled state: FINISHED means every    *)
(* node finished, STOPPED that a question is open and nothing failed,      *)
(* ERROR and TERMINATED that the last thing that happened, and nothing     *)
(* before it, ended that way.                                              *)
GoodEntry(x) == x.status \in {"FINISHED", "STOPPED"}

EndsWith(d, s) ==
  \E x \in d.items :
    /\ x.status = s
    /\ \A y \in d.items \ {x} : GoodEntry(y) /\ y.pos < x.pos

Agrees(s, d) ==
  /\ s = "FINISHED" => \A x \in d.items : x.status = "FINISHED"
  /\ s = "STOPPED" => Has(d, "STOPPED") /\ \A x \in d.items : GoodEntry(x)
  /\ s \in {"ERROR", "TERMINATED"} => EndsWith(d, s)

(* The state column of an execution never contradicts its executed data,   *)
(* although resumes, retries and share switches rewrite whole rows from    *)
(* copies they read earlier (updateExecution).                             *)
RowMatchesData == \A e \in Exec : rows[e] # NoRow => Agrees(rows[e].state, rows[e].data)

(* One human answer opens one gate: a Human Input node only finishes in a  *)
(* request that answers that very node, and a request completes at most    *)
(* one (executeNode clears the human input once it is consumed).           *)
Gates(d) ==
  {x \in d.items : x.status = "FINISHED" /\ FlowOf(x.by).kind[x.node] = "humanInput"}

OneAnswerPerGate(d) ==
  \A x \in Gates(d) :
    /\ run[x.by].resume /\ run[x.by].start = x.node
    /\ \A y \in Gates(d) : y.by = x.by => y = x

OneAnswerOneGate ==
  /\ \A r \in Runs : OneAnswerPerGate(run[r].data)
  /\ \A e \in Exec : rows[e] # NoRow => OneAnswerPerGate(rows[e].data)

(* A node that joins branches runs after every input it must wait for:     *)
(* each of its sources under no decision node finished earlier in the same *)
(* run (setupNodeDependencies, hasReceivedRequiredInputs).  Nodes a run    *)
(* starts from, or a Loop node jumps to, are reached without inputs.       *)
JumpTargets(f) == {f.loopTo[n] : n \in {m \in f.nodes : f.kind[m] = "loop"}}

JoinWaitsForAll ==
  \A r \in Runs : \A x \in run[r].data.items :
    LET f == FlowOf(r)
    IN  (x.by = r /\ x.node \notin JumpTargets(f) \cup {run[r].start}) =>
          \A s \in ExpectedInputs(f, x.node) :
            \E y \in run[r].data.items :
              y.by = r /\ y.node = s /\ y.status = "FINISHED" /\ y.pos < x.pos

(* An execution that one request finished on its own left no branch out:   *)
(* a node all of whose sources finished, none of them a decision node, ran *)
(* too (processNodeOutputs, the waitingNodes map and the queue).           *)
RanAll(f, d) ==
  \A c \in f.nodes :
    /\ Sources(f, c) # {}
    /\ \A s \in Sources(f, c) : ~IsDecision(f, s) /\ \E x \in d.items : x.node = s
    => \E x \in d.items : x.node = c

NoBranchForgotten ==
  \A e \in Exec, r \in Runs :
    (rows[e] # NoRow /\ rows[e].state = "FINISHED"
       /\ \A x \in rows[e].data.items : x.by = r)
    => RanAll(FlowOf(r), rows[e].data)

(* One request passes through the body of a loop at most maxLoopCount      *)
(* times (loopCounts), when nothing but the loop leads back into it, as in *)
(* the flows of the runs (and as WayInto says of any flow).                *)
Passes(d, n, r) == Cardinality({x \in d.items : x.node = n /\ x.by = r})

LoopBodyBounded ==
  \A r \in Runs : LET f == FlowOf(r) IN
    \A l \in {n \in f.nodes : f.kind[n] = "loop"} :
      Passes(run[r].data, f.loopTo[l], r) <= MaxLoop(f, l)

(* Without a result of n the node c does not run, and one edge brings it.  *)
Needs(f, c, n) ==
  /\ n \in ExpectedInputs(f, c) \/ {n} \in ConditionalGroups(f, c)
  /\ \A i, j \in InEdges(f, c) : f.edges[i].source = n /\ f.edges[j].source = n => i = j

(* A way p into the body of the loop l: from p's last node, which no edge  *)
(* enters, each node is needed by the one before it, up to the node that l *)
(* jumps to; and no other Loop node jumps to a node of the way.            *)
WayInto(f, l, p) ==
  /\ p # <<>> /\ p[1] = f.loopTo[l]
  /\ \A i, j \in DOMAIN p : p[i] = p[j] => i = j
  /\ \A i \in DOMAIN p : IF i = Len(p) THEN InEdges(f, p[i]) = {} ELSE Needs(f, p[i], p[i + 1])
  /\ \A m \in f.nodes : f.kind[m] = "loop" /\ m # l => \A i \in DOMAIN p : f.loopTo[m] # p[i]

-----------------------------------------------------------------------------
(* The executor implements the lifecycle: the state column is the life of  *)
(* an execution, and a question is open while a STOPPED entry is in its    *)
(* data.                                                                   *)
lifeBar ==
  [e \in Exec |-> IF rows[e] # NoRow THEN rows[e].state
                  ELSE IF e <= created THEN "DELETED" ELSE "NONE"]

askedBar == [e \in Exec |-> rows[e] # NoRow /\ Has(rows[e].data, "STOPPED")]

Lifecycle == INSTANCE ExecutionLifecycle WITH life <- lifeBar, asked <- askedBar

(* Every behaviour of the executor is one of the lifecycle, as long as     *)
(* each execution is driven by one request at a time.                      *)
RefinesLifecycle == Lifecycle!Spec

(* An execution in progress settles: nothing but a crash or the iteration  *)
(* limit leaves a row INPROGRESS for good.                                 *)
Settles ==
  \A e \in Exec :
    lifeBar[e] = "INPROGRESS" ~> lifeBar[e] # "INPROGRESS"

-----------------------------------------------------------------------------
(* "Only executions in 'STOPPED' state (or 'ERROR' after 'STOPPED') can be *)
(* resumed": an execution one request is driving is not STOPPED, so no     *)
(* second request drives it.                                               *)
Drives(r, e) == run[r].pc = "running" /\ run[r].exec = e

OneDriver == \A e \in Exec : \A r, q \in Runs : Drives(r, e) /\ Drives(q, e) => r = q

(* "find the last checkpoint and resume": an execution that stopped and    *)
(* was resumed has run the same branches an uninterrupted one runs.        *)
ResumeLosesNoBranch ==
  \A e \in Exec :
    (rows[e] # NoRow /\ rows[e].state = "FINISHED") => RanAll(FlowData[canvas], rows[e].data)
=============================================================================
