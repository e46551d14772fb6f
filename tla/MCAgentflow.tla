---------------------------- MODULE MCAgentflow ----------------------------
(* Flows and bounds for model checking the AgentFlow V2 executor.          *)
EXTENDS AgentflowProperties

MCNode == {"start", "cond", "a", "b", "join", "human", "loop", "end", "agent"}

Kinds0 == [n \in MCNode |-> CASE n = "cond"  -> "condition"
                              [] n = "human" -> "humanInput"
                              [] n = "loop"  -> "loop"
                              [] n = "agent" -> "agent"
                              [] OTHER       -> "plain"]

E(s, t, o) == [source |-> s, target |-> t, output |-> o]

MkFlow(ns, k, es, target, max) ==
  [nodes |-> ns, kind |-> k, edges |-> es,
   outputs |-> [n \in MCNode |-> IF n \in {"cond", "human"} THEN 2 ELSE 0],
   loopTo |-> [n \in MCNode |-> target], maxLoop |-> [n \in MCNode |-> max]]

(* A decision whose branches meet again, then a review by a human.         *)
ReviewFlow == MkFlow({"start", "cond", "a", "b", "join", "human", "end"}, Kinds0,
  <<E("start", "cond", 0), E("cond", "a", 0), E("cond", "b", 1), E("a", "join", 0),
    E("b", "join", 0), E("join", "human", 0), E("human", "end", 0), E("human", "a", 1)>>,
  "start", 1)

(* A Condition Agent that repeats a step until it is satisfied; the Loop   *)
(* node has no bound of its own.                                           *)
LoopFlow == MkFlow({"start", "a", "cond", "loop", "end"},
  [Kinds0 EXCEPT !["cond"] = "conditionAgent"],
  <<E("start", "a", 0), E("a", "cond", 0), E("cond", "loop", 0), E("cond", "end", 1)>>,
  "a", 0)

(* The same with a bound that outlasts the iteration limit of the runs.    *)
PatientFlow == [LoopFlow EXCEPT !.maxLoop = [n \in MCNode |-> 3]]

(* Two parallel branches, one an agent that may ask for approval, joined.  *)
ForkFlow == MkFlow({"start", "agent", "a", "b", "join"}, Kinds0,
  <<E("start", "a", 0), E("start", "agent", 0), E("a", "join", 0), E("agent", "join", 0),
    E("start", "b", 0)>>,
  "start", 1)

(* A human review beside a parallel branch.                                *)
SideFlow == MkFlow({"start", "human", "a", "end"}, Kinds0,
  <<E("start", "human", 0), E("start", "a", 0), E("human", "end", 0)>>, "start", 1)

(* A human review alone, for runs that race.                               *)
ShortFlow == MkFlow({"start", "human", "end"}, Kinds0,
  <<E("start", "human", 0), E("human", "end", 0)>>, "start", 1)

(* Two nodes no edge enters: refused.                                      *)
TwoStarts == MkFlow({"start", "a"}, Kinds0, <<>>, "start", 1)

MCFlowData ==
  [f \in {"review", "loop", "fork", "patient", "side", "short", "twoStarts"} |->
     CASE f = "review" -> ReviewFlow
       [] f = "loop"   -> LoopFlow
       [] f = "fork"   -> ForkFlow
       [] f = "patient" -> PatientFlow
       [] f = "side"   -> SideFlow
       [] f = "short"  -> ShortFlow
       [] OTHER        -> TwoStarts]

(* Every loop of these flows is entered along one way.                     *)
ASSUME WayAssumption ==
  \A x \in DOMAIN MCFlowData :
    \A l \in {n \in MCFlowData[x].nodes : MCFlowData[x].kind[n] = "loop"} :
      WayInto(MCFlowData[x], l, <<"a", "start">>)

NoDisturbance == [k \in Disturbances |-> 0]
SerialBudget  == [NoDisturbance EXCEPT !["abort"] = 1]
RacingBudget  == [NoDisturbance EXCEPT !["delete"] = 1, !["share"] = 1, !["crash"] = 1]
EditBudget    == [NoDisturbance EXCEPT !["edit"] = 1, !["abort"] = 1]
=============================================================================
