------------------------ MODULE AgentflowGateProofs ------------------------
(***************************************************************************)
(* One human answer opens one gate, for every set of flows, however many   *)
(* requests race on one execution.                                         *)
(*                                                                         *)
(* OneAnswerOneGate speaks of the data of runs and rows, and data travels: *)
(* a resume copies a row into a run, a save copies a run into a row, a     *)
(* find and a share switch keep copies.  The invariant GateInv therefore   *)
(* speaks of every copy (Stores), and adds why the first gate a request    *)
(* completes is also its last: as long as the request still holds its      *)
(* answer, nothing it finished is in any copy, and the only node it can    *)
(* run next is the one it answers.                                         *)
(***************************************************************************)
EXTENDS AgentflowProofs

(* A run that has not started or still holds its answer.                   *)
Pending(l) == l.pc \in {"idle", "looking"} \/ l.human # NoNode

Untouched(d, r) == \A x \in d.items : x.by = r => x.status # "FINISHED"

GateData(d) ==
  /\ OneAnswerPerGate(d)
  /\ \A r \in Runs : Pending(run[r]) => Untouched(d, r)

(* A run that holds an answer is a resume about to run the node it names.  *)
HoldsAnswer(l) ==
  l.human # NoNode =>
    /\ l.resume /\ l.start = l.human
    /\ l.pc \notin {"idle", "looking"}
    /\ \A q \in l.queue : q.node = l.human

(* Every copy of executed data.                                            *)
Stores ==
  {run[r].data : r \in Runs}
    \cup {run[r].found.data : r \in {q \in Runs : run[q].found # NoRow}}
    \cup {rows[e].data : e \in {x \in Exec : rows[x] # NoRow}}
    \cup {row.data : row \in {sharing.row} \ {NoRow}}

GateInv ==
  /\ \A d \in Stores : GateData(d)
  /\ \A r \in Runs : HoldsAnswer(run[r])

LEMMA StoresAreData == TypeInv => Stores \subseteq Data
BY DEF TypeInv, TypeOK, RunState, Row, Stores

-----------------------------------------------------------------------------
(* Data.                                                                   *)

(* A step after which no run is newly pending, and which changes the       *)
(* request of pending runs only, leaves sound data sound.                  *)
SameRequest(l, m) == l.flow = m.flow /\ l.resume = m.resume /\ l.start = m.start

Follows(l, m) ==
  /\ Pending(m) => Pending(l)
  /\ Pending(l) \/ SameRequest(l, m)

LEMMA CarryGates ==
  ASSUME NEW d \in Data, GateData(d), \A r \in Runs : Follows(run[r], run'[r])
  PROVE  GateData(d)'
<1>1. \A x \in d.items : x.by \in Runs
  BY DEF Data, Entry
<1>2. \A x \in Gates(d)' : /\ x \in Gates(d) /\ ~Pending(run[x.by])
                           /\ SameRequest(run[x.by], run'[x.by])
  BY <1>1 DEF Gates, GateData, Untouched, FlowOf, Follows, SameRequest
<1>3. OneAnswerPerGate(d)'
  BY <1>2 DEF GateData, OneAnswerPerGate, SameRequest
<1> QED
  BY <1>3 DEF GateData, Follows

(* Less data has fewer gates.                                              *)
LEMMA FewerGates ==
  ASSUME NEW d \in Data, NEW c \in Data, c.items \subseteq d.items, GateData(d)
  PROVE  GateData(c)
<1>1. Gates(c) \subseteq Gates(d)
  BY DEF Gates
<1> QED
  BY <1>1 DEF GateData, OneAnswerPerGate, Untouched

(* An entry that did not finish opens no gate.  (This and the next lemma   *)
(* speak of the state after a step, the one they are used for.)            *)
LEMMA PushUnfinished ==
  ASSUME NEW d \in Data, GateData(d)', NEW n \in Node, NEW r \in Runs,
         NEW s \in EntryStatus \ {"FINISHED"}
  PROVE  GateData(Push(d, n, s, r))'
<1>1. Gates(Push(d, n, s, r))' = Gates(d)'
  BY DEF Gates, Push
<1>2. \A q \in Runs : Untouched(d, q) => Untouched(Push(d, n, s, r), q)
  BY DEF Untouched, Push
<1> QED
  BY <1>1, <1>2 DEF GateData, OneAnswerPerGate

(* A node that finishes in a run no longer pending: it is no gate, or it   *)
(* is the node the run answers and the run finished nothing before.        *)
LEMMA PushFinished ==
  ASSUME NEW d \in Data, GateData(d)', NEW n \in Node, NEW r \in Runs, ~Pending(run'[r]),
         \/ FlowOf(r)'.kind[n] # "humanInput"
         \/ run'[r].resume /\ run'[r].start = n /\ Untouched(d, r)
  PROVE  GateData(Push(d, n, "FINISHED", r))'
<1> DEFINE x == [pos |-> d.next, node |-> n, status |-> "FINISHED", by |-> r]
<1>1. Push(d, n, "FINISHED", r).items = d.items \cup {x}
  BY DEF Push
<1>2. \A q \in Runs : Pending(run'[q]) => Untouched(Push(d, n, "FINISHED", r), q)
  BY <1>1 DEF GateData, Untouched
<1>3. CASE FlowOf(r)'.kind[n] # "humanInput"
  <2>1. Gates(Push(d, n, "FINISHED", r))' = Gates(d)'
    BY <1>1, <1>3 DEF Gates
  <2> QED
    BY <1>2, <2>1 DEF GateData, OneAnswerPerGate
<1>4. CASE run'[r].resume /\ run'[r].start = n /\ Untouched(d, r)
  <2>1. Gates(Push(d, n, "FINISHED", r))' \subseteq Gates(d)' \cup {x}
    BY <1>1 DEF Gates
  <2>2. \A y \in Gates(d)' : y.by # r
    BY <1>4 DEF Gates, Untouched
  <2> QED
    BY <1>2, <1>4, <2>1, <2>2 DEF GateData, OneAnswerPerGate
<1> QED
  BY <1>3, <1>4

-----------------------------------------------------------------------------
(* Steps.  A step may add one piece of data to the copies; the rest it     *)
(* moves around.                                                           *)

LEMMA StoresAfter ==
  ASSUME TypeInv, NEW r \in Runs, NEW l, Becomes(r, l), UNCHANGED <<rows, sharing>>
  PROVE  \A d \in Stores' : d \in Stores \/ d = l.data \/ (l.found # NoRow /\ d = l.found.data)
BY DEF TypeInv, TypeOK, Becomes, Stores

LEMMA GatesAfter ==
  ASSUME TypeInv, GateInv, NEW r \in Runs, NEW l, Becomes(r, l),
         Follows(run[r], l), HoldsAnswer(l),
         \A d \in Stores' : d \in Stores \/ GateData(d)'
  PROVE  GateInv'
<1>1. \A q \in Runs : run'[q] = IF q = r THEN l ELSE run[q]
  BY DEF TypeInv, TypeOK, Becomes
<1>2. \A q \in Runs : Follows(run[q], run'[q]) /\ HoldsAnswer(run'[q])
  BY <1>1 DEF GateInv, Follows, SameRequest
<1>3. \A d \in Stores : GateData(d)'
  <2> SUFFICES ASSUME NEW d \in Stores PROVE GateData(d)'
    OBVIOUS
  <2>1. d \in Data /\ GateData(d)
    BY StoresAreData DEF GateInv
  <2> QED
    BY <1>2, <2>1, CarryGates
<1> QED
  BY <1>2, <1>3 DEF GateInv

(* A step that changes neither data nor the request of the run it belongs  *)
(* to.                                                                     *)
LEMMA MoveGates ==
  ASSUME TypeInv, GateInv, NEW r \in Runs, NEW l, Becomes(r, l), UNCHANGED <<rows, sharing>>,
         Follows(run[r], l), HoldsAnswer(l), l.data = run[r].data,
         l.found = run[r].found \/ l.found \in {rows[e] : e \in Exec}
  PROVE  GateInv'
<1>1. \A d \in Stores' : d \in Stores
  <2>1. run[r].data \in Stores
    BY DEF Stores
  <2>2. l.found # NoRow => l.found.data \in Stores
    BY DEF Stores
  <2> QED
    BY <2>1, <2>2, StoresAfter
<1> QED
  BY <1>1, GatesAfter

LEMMA SubmitGates ==
  ASSUME TypeInv, GateInv, NEW r \in Runs, Submit(r)
  PROVE  GateInv'
<1> DEFINE l(b, s) == [IdleRun(canvas) EXCEPT !.pc = "looking", !.resume = b, !.start = s]
<1>1. PICK b \in BOOLEAN, s \in Node \cup {NoNode} : Becomes(r, l(b, s))
  BY ClientAssumption DEF Submit
<1>2. l(b, s).data = EmptyData /\ l(b, s).found = NoRow /\ l(b, s).human = NoNode
      /\ l(b, s).pc = "looking"
  BY DEF IdleRun
<1>3. run[r].pc = "idle" /\ UNCHANGED <<rows, sharing>>
  BY DEF Submit
<1> HIDE DEF l
<1>4. Follows(run[r], l(b, s)) /\ HoldsAnswer(l(b, s))
  BY <1>2, <1>3 DEF Follows, Pending, HoldsAnswer
<1>5. GateData(EmptyData)'
  BY DEF GateData, OneAnswerPerGate, Gates, Untouched, EmptyData
<1>6. \A d \in Stores' : d \in Stores \/ GateData(d)'
  BY <1>1, <1>2, <1>3, <1>5, StoresAfter
<1> QED
  BY <1>1, <1>4, <1>6, GatesAfter

LEMMA CreateExecutionGates ==
  ASSUME TypeInv, GateInv, NEW r \in Runs, CreateExecution(r)
  PROVE  GateInv'
<1> DEFINE Q == {[turn |-> <<0, 0>>, node |-> n] : n \in StartingNodes(FlowOf(r))}
           l == [run[r] EXCEPT !.pc = "running", !.exec = created + 1, !.queue = Q]
<1>1. Becomes(r, l) /\ run[r].pc = "looking" /\ UNCHANGED sharing
  BY DEF CreateExecution
<1>2. run[r] \in RunState /\ HoldsAnswer(run[r])
  BY DEF TypeInv, TypeOK, GateInv
<1>3. /\ l.data = run[r].data /\ l.found = run[r].found /\ l.human = run[r].human
      /\ SameRequest(run[r], l)
  BY <1>2 DEF RunState, SameRequest
<1>4. run[r].human = NoNode
  BY <1>1, <1>2 DEF HoldsAnswer
<1> HIDE DEF l
<1>5. Follows(run[r], l) /\ HoldsAnswer(l)
  BY <1>1, <1>3, <1>4 DEF Follows, Pending, HoldsAnswer
<1>6. GateData(EmptyData)'
  BY DEF GateData, OneAnswerPerGate, Gates, Untouched, EmptyData
<1>7. \A d \in Stores' : d \in Stores \/ d = EmptyData
  <2>1. run' = [run EXCEPT ![r] = l] /\ run \in [Runs -> RunState]
    BY <1>1 DEF Becomes, TypeInv, TypeOK
  <2>2. \A e \in Exec : rows'[e] = rows[e] \/ rows'[e].data = EmptyData
    BY DEF CreateExecution, TypeInv, TypeOK
  <2> QED
    BY <1>1, <1>3, <2>1, <2>2 DEF Stores
<1> QED
  BY <1>1, <1>5, <1>6, <1>7, GatesAfter

LEMMA ResumeExecutionGates ==
  ASSUME TypeInv, GateInv, NEW r \in Runs, NEW e \in Exec, ResumeExecution(r, e)
  PROVE  GateInv'
<1> DEFINE kept == KeptData(rows[e])
           s    == StartOf(kept, run[r].start)
           ph   == IF rows[e].state = "ERROR" THEN "retry" ELSE "claim"
           Q    == {[turn |-> <<0, 0>>, node |-> s]}
           l    == [run[r] EXCEPT !.pc = "find", !.phase = ph, !.exec = e, !.data = kept,
                                  !.start = s, !.human = s, !.queue = Q]
<1>1. /\ Becomes(r, l) /\ UNCHANGED <<rows, sharing>>
      /\ run[r].pc = "looking" /\ run[r].resume
  BY DEF ResumeExecution
<1>2. run[r] \in RunState /\ rows[e] \in Row /\ rows[e] # NoRow
  BY DEF TypeInv, TypeOK, ResumeExecution, CanResume, IsNewest
<1>3. l.data = kept /\ l.found = run[r].found /\ HoldsAnswer(l)
  BY <1>1, <1>2 DEF RunState, HoldsAnswer
<1>4. Follows(run[r], l)
  BY <1>1 DEF Follows, Pending
<1>5. rows[e].data \in Stores /\ rows[e].data \in Data /\ GateData(rows[e].data)
  <2>1. rows[e].data \in Stores
    BY <1>2 DEF Stores
  <2> QED
    BY <2>1, StoresAreData DEF GateInv
<1>6. kept \in Data /\ kept.items \subseteq rows[e].data.items
  BY <1>2 DEF KeptData, DropLatest, Row, Data
<1>7. GateData(kept)
  BY <1>5, <1>6, FewerGates
<1>8. PICK k \in Data : k = kept
  BY <1>6
<1> HIDE DEF l, kept
<1>9. \A q \in Runs : Follows(run[q], run'[q])
  BY <1>1, <1>4 DEF Becomes, TypeInv, TypeOK, Follows, SameRequest
<1>10. GateData(k)'
  BY <1>7, <1>8, <1>9, CarryGates
<1>11. \A d \in Stores' : d \in Stores \/ GateData(d)'
  <2>1. run[r].found # NoRow => run[r].found.data \in Stores
    BY DEF Stores
  <2> QED
    BY <1>1, <1>3, <1>8, <1>10, <2>1, StoresAfter
<1> QED
  BY <1>1, <1>3, <1>4, <1>11, GatesAfter

LEMMA FindRowGates ==
  ASSUME TypeInv, GateInv, NEW r \in Runs, FindRow(r)
  PROVE  GateInv'
<1> DEFINE row == rows[run[r].exec]
<1>1. run[r] \in RunState /\ HoldsAnswer(run[r]) /\ run[r].pc = "find"
      /\ run[r].exec \in Exec /\ UNCHANGED <<rows, sharing>>
  BY DEF TypeInv, TypeOK, HoldsRow, GateInv, FindRow
<1>2. CASE row = NoRow
  <2> DEFINE l == [run[r] EXCEPT !.pc = "failed"]
  <2>1. Becomes(r, l)
    BY <1>2 DEF FindRow
  <2>2. Follows(run[r], l) /\ HoldsAnswer(l) /\ l.data = run[r].data /\ l.found = run[r].found
    BY <1>1 DEF RunState, Follows, Pending, SameRequest, HoldsAnswer
  <2> HIDE DEF l
  <2> QED
    BY <1>1, <2>1, <2>2, MoveGates
<1>3. CASE row # NoRow
  <2> DEFINE l == [run[r] EXCEPT !.pc = "save", !.found = row]
  <2>1. Becomes(r, l)
    BY <1>3 DEF FindRow
  <2>2. Follows(run[r], l) /\ HoldsAnswer(l) /\ l.data = run[r].data /\ l.found = row
    BY <1>1 DEF RunState, Follows, Pending, SameRequest, HoldsAnswer
  <2> HIDE DEF l
  <2> QED
    BY <1>1, <2>1, <2>2, MoveGates
<1> QED
  BY <1>2, <1>3

LEMMA SaveRowGates ==
  ASSUME TypeInv, GateInv, NEW r \in Runs, SaveRow(r)
  PROVE  GateInv'
<1> DEFINE ph == IF run[r].phase = "retry" THEN "claim" ELSE run[r].phase
           l  == [run[r] EXCEPT !.pc = AfterSave(r), !.phase = ph]
<1>1. run[r] \in RunState /\ HoldsAnswer(run[r]) /\ run[r].pc = "save"
      /\ run[r].exec \in Exec /\ run[r].found # NoRow /\ UNCHANGED sharing
  BY DEF TypeInv, TypeOK, HoldsRow, GateInv, SaveRow
<1>2. AfterSave(r) \notin {"idle", "looking"}
  BY DEF AfterSave
<1>3. Becomes(r, l)
  BY DEF SaveRow
<1>4. /\ Follows(run[r], l) /\ HoldsAnswer(l)
      /\ l.data = run[r].data /\ l.found = run[r].found
  BY <1>1, <1>2 DEF RunState, Follows, Pending, SameRequest, HoldsAnswer
<1> HIDE DEF l
<1>5. Merged(r).data \in Stores
  BY <1>1 DEF Merged, Stores
<1>6. \A e \in Exec : rows'[e] = rows[e] \/ rows'[e] = Merged(r)
  BY DEF SaveRow, TypeInv, TypeOK
<1>7. run' = [run EXCEPT ![r] = l] /\ run \in [Runs -> RunState]
  BY <1>3 DEF Becomes, TypeInv, TypeOK
<1>8. Stores' \subseteq Stores
  BY <1>1, <1>4, <1>5, <1>6, <1>7 DEF Stores
<1> QED
  BY <1>3, <1>4, <1>8, GatesAfter

(* Running a node: the new data is the old data, perhaps without the       *)
(* node's entries, with one entry more.                                    *)
LEMMA PushGates ==
  ASSUME TypeInv, GateInv, NEW r \in Runs, NEW l, Becomes(r, l), UNCHANGED <<rows, sharing>>,
         NEW d \in Data, d.items \subseteq run[r].data.items, NEW n \in Node,
         NEW s \in EntryStatus, l.data = Push(d, n, s, r), l.found = run[r].found,
         Follows(run[r], l), HoldsAnswer(l),
         s = "FINISHED" =>
           /\ ~Pending(l)
           /\ \/ FlowOf(r).kind[n] # "humanInput" /\ run[r].flow = l.flow
              \/ l.resume /\ l.start = n /\ Pending(run[r])
  PROVE  GateInv'
<1>1. run' = [run EXCEPT ![r] = l] /\ run'[r] = l /\ \A q \in Runs : Follows(run[q], run'[q])
  BY DEF Becomes, TypeInv, TypeOK, Follows, SameRequest
<1>2. GateData(d) /\ run[r].data \in Stores
  <2>1. run[r].data \in Stores /\ run[r].data \in Data
    BY StoresAreData DEF Stores
  <2> QED
    BY <2>1, FewerGates DEF GateInv
<1>3. GateData(d)'
  BY <1>1, <1>2, CarryGates
<1>4. GateData(Push(d, n, s, r))'
  <2>1. CASE s # "FINISHED"
    BY <1>3, <2>1, PushUnfinished
  <2>2. CASE s = "FINISHED"
    <3>1. Pending(run[r]) => Untouched(d, r)
      BY <1>2 DEF GateData
    <3>2. \/ FlowOf(r)'.kind[n] # "humanInput"
          \/ run'[r].resume /\ run'[r].start = n /\ Pending(run[r])
      BY <1>1, <2>2 DEF FlowOf
    <3> QED
      BY <1>1, <1>3, <2>2, <3>1, <3>2, PushFinished
  <2> QED
    BY <2>1, <2>2
<1>5. run[r].found # NoRow => run[r].found.data \in Stores
  BY DEF Stores
<1>6. \A c \in Stores' : c \in Stores \/ GateData(c)'
  BY <1>4, <1>5, StoresAfter
<1> QED
  BY <1>6, GatesAfter

LEMMA FinishNodeGates ==
  ASSUME TypeInv, GateInv, NEW r \in Runs, NEW q \in run[r].queue, FinishNode(r, q)
  PROVE  GateInv'
<1> DEFINE D(o) == DeliveryEdges(FlowOf(r), q.node, o)
           l(o) == [run[r] EXCEPT
                 !.data    = Push(DataBefore(r, q.node), q.node, "FINISHED", r),
                 !.human   = IF LoopsBack(r, q.node) THEN NoNode ELSE HumanAfter(r, q.node),
                 !.waiting = WaitingAfter(r, q.node, D(o)),
                 !.queue   = QueueAfter(r, q, D(o)),
                 !.loops   = LoopsAfter(r, q.node),
                 !.steps   = @ + 1]
<1>1. PICK o \in Outcomes(FlowOf(r), q.node) : Becomes(r, l(o))
  BY DEF FinishNode
<1>2. /\ run[r].pc = "running" /\ UNCHANGED <<rows, sharing>>
      /\ FlowOf(r).kind[q.node] = "humanInput" => run[r].human # NoNode
  BY DEF FinishNode, Executes, AsksHuman
<1>3. run[r] \in RunState /\ HoldsAnswer(run[r]) /\ q.node \in Node
  BY DEF TypeInv, TypeOK, RunState, Ticket, GateInv
<1>4. run[r].human # NoNode => run[r].human = q.node
  BY <1>3 DEF HoldsAnswer
<1>5. /\ l(o).data = Push(DataBefore(r, q.node), q.node, "FINISHED", r)
      /\ l(o).human = NoNode
      /\ l(o).pc = "running" /\ l(o).found = run[r].found
      /\ l(o).flow = run[r].flow /\ l(o).resume = run[r].resume /\ l(o).start = run[r].start
  BY <1>2, <1>3, <1>4 DEF RunState, HumanAfter
<1>6. PICK d \in Data, n \in Node : d = DataBefore(r, q.node) /\ n = q.node
  BY <1>3, DataTypes DEF DataBefore, RunState
<1>7. d.items \subseteq run[r].data.items
  BY <1>3, <1>6 DEF DataBefore, Without, RunState, Data
<1> HIDE DEF l
<1>8. Follows(run[r], l(o)) /\ HoldsAnswer(l(o)) /\ ~Pending(l(o))
  BY <1>5 DEF Follows, Pending, SameRequest, HoldsAnswer
<1>9. \/ FlowOf(r).kind[n] # "humanInput" /\ run[r].flow = l(o).flow
      \/ l(o).resume /\ l(o).start = n /\ Pending(run[r])
  BY <1>2, <1>3, <1>4, <1>5, <1>6 DEF HoldsAnswer, Pending
<1>10. "FINISHED" \in EntryStatus
  BY DEF EntryStatus, ExecutionState
<1> QED
  BY <1>1, <1>2, <1>5, <1>6, <1>7, <1>8, <1>9, <1>10, PushGates

LEMMA StopForHumanGates ==
  ASSUME TypeInv, GateInv, NEW r \in Runs, NEW q \in run[r].queue, StopForHuman(r, q)
  PROVE  GateInv'
<1> DEFINE l == [run[r] EXCEPT
                 !.data  = Push(DataBefore(r, q.node), q.node, "STOPPED", r),
                 !.human = HumanAfter(r, q.node),
                 !.queue = {}, !.steps = @ + 1, !.status = "STOPPED"]
<1>1. Becomes(r, l) /\ run[r].pc = "running" /\ UNCHANGED <<rows, sharing>>
  BY DEF StopForHuman, Executes
<1>2. run[r] \in RunState /\ HoldsAnswer(run[r]) /\ q.node \in Node
  BY DEF TypeInv, TypeOK, RunState, Ticket, GateInv
<1>3. /\ l.data = Push(DataBefore(r, q.node), q.node, "STOPPED", r)
      /\ l.human = NoNode \/ l.human = run[r].human
      /\ l.queue = {} /\ l.pc = "running" /\ l.found = run[r].found
      /\ l.flow = run[r].flow /\ l.resume = run[r].resume /\ l.start = run[r].start
  BY <1>1, <1>2 DEF RunState, HumanAfter
<1>4. PICK d \in Data, n \in Node : d = DataBefore(r, q.node) /\ n = q.node
  BY <1>2, DataTypes DEF DataBefore, RunState
<1>5. d.items \subseteq run[r].data.items
  BY <1>2, <1>4 DEF DataBefore, Without, RunState, Data
<1> HIDE DEF l
<1>6. Follows(run[r], l) /\ HoldsAnswer(l)
  BY <1>2, <1>3 DEF Follows, Pending, SameRequest, HoldsAnswer
<1>7. "STOPPED" \in EntryStatus /\ "STOPPED" # "FINISHED"
  BY DEF EntryStatus, ExecutionState
<1> QED
  BY <1>1, <1>3, <1>4, <1>5, <1>6, <1>7, PushGates

LEMMA CatchGates ==
  ASSUME TypeInv, GateInv, NEW r \in Runs, NEW q \in run[r].queue, run[r].pc = "running",
         NEW s \in {"ERROR", "TERMINATED"}, Catch(r, q, s), UNCHANGED <<rows, sharing>>
  PROVE  GateInv'
<1> DEFINE l == [run[r] EXCEPT !.data = Push(@, q.node, s, r), !.status = s,
                               !.queue = @ \ {q}, !.steps = @ + 1,
                               !.pc = "find", !.phase = "error"]
<1>1. Becomes(r, l)
  BY DEF Catch
<1>2. run[r] \in RunState /\ HoldsAnswer(run[r]) /\ q.node \in Node
  BY DEF TypeInv, TypeOK, RunState, Ticket, GateInv
<1>3. /\ l.data = Push(run[r].data, q.node, s, r) /\ l.human = run[r].human
      /\ l.queue = run[r].queue \ {q} /\ l.pc = "find" /\ l.found = run[r].found
      /\ l.flow = run[r].flow /\ l.resume = run[r].resume /\ l.start = run[r].start
  BY <1>2 DEF RunState
<1>4. PICK d \in Data, n \in Node : d = run[r].data /\ n = q.node
  BY <1>2 DEF RunState
<1> HIDE DEF l
<1>5. Follows(run[r], l) /\ HoldsAnswer(l)
  BY <1>2, <1>3 DEF Follows, Pending, SameRequest, HoldsAnswer
<1>6. s \in EntryStatus /\ s # "FINISHED"
  BY DEF EntryStatus, ExecutionState
<1> QED
  BY <1>1, <1>3, <1>4, <1>5, <1>6, PushGates

(* Steps of a run that touch no data.                                      *)
LEMMA QuietGates ==
  ASSUME TypeInv, GateInv, NEW r \in Runs,
         \/ ExceedIterations(r) \/ Crash(r) \/ Abort(r) \/ RefuseRequest(r) \/ EndLoop(r)
         \/ \E q \in run[r].queue : SkipMissingNode(r, q)
  PROVE  GateInv'
<1>1. run[r] \in RunState /\ HoldsAnswer(run[r])
  BY DEF TypeInv, TypeOK, GateInv
<1>2. ASSUME NEW pc \in {"failed", "rejected", "crashed"}, Becomes(r, [run[r] EXCEPT !.pc = pc]),
             UNCHANGED <<rows, sharing>>
      PROVE  GateInv'
  <2> DEFINE l == [run[r] EXCEPT !.pc = pc]
  <2>1. Follows(run[r], l) /\ HoldsAnswer(l) /\ l.data = run[r].data /\ l.found = run[r].found
    BY <1>1 DEF RunState, Follows, Pending, SameRequest, HoldsAnswer
  <2> HIDE DEF l
  <2> QED
    BY <1>2, <2>1, MoveGates DEF l
<1>3. CASE ExceedIterations(r) \/ RefuseRequest(r) \/ Crash(r)
  BY <1>2, <1>3 DEF ExceedIterations, RefuseRequest, Crash
<1>4. CASE Abort(r)
  <2> DEFINE l == [run[r] EXCEPT !.aborted = TRUE]
  <2>1. Becomes(r, l) /\ UNCHANGED <<rows, sharing>>
    BY <1>4 DEF Abort
  <2>2. Follows(run[r], l) /\ HoldsAnswer(l) /\ l.data = run[r].data /\ l.found = run[r].found
    BY <1>1 DEF RunState, Follows, Pending, SameRequest, HoldsAnswer
  <2> HIDE DEF l
  <2> QED
    BY <2>1, <2>2, MoveGates
<1>5. CASE EndLoop(r)
  <2> DEFINE l == [run[r] EXCEPT !.pc = "find", !.phase = "settle",
                                 !.status = FinalStatus(run[r].data)]
  <2>1. Becomes(r, l) /\ UNCHANGED <<rows, sharing>> /\ run[r].pc = "running"
    BY <1>5 DEF EndLoop
  <2>2. Follows(run[r], l) /\ HoldsAnswer(l) /\ l.data = run[r].data /\ l.found = run[r].found
    BY <1>1, <2>1 DEF RunState, Follows, Pending, SameRequest, HoldsAnswer
  <2> HIDE DEF l
  <2> QED
    BY <2>1, <2>2, MoveGates
<1>6. ASSUME NEW q \in run[r].queue, SkipMissingNode(r, q) PROVE GateInv'
  <2> DEFINE l == [run[r] EXCEPT !.queue = @ \ {q}, !.steps = @ + 1]
  <2>1. Becomes(r, l) /\ UNCHANGED <<rows, sharing>>
    BY <1>6 DEF SkipMissingNode
  <2>2. Follows(run[r], l) /\ HoldsAnswer(l) /\ l.data = run[r].data /\ l.found = run[r].found
    BY <1>1 DEF RunState, Follows, Pending, SameRequest, HoldsAnswer
  <2> HIDE DEF l
  <2> QED
    BY <2>1, <2>2, MoveGates
<1> QED
  BY <1>3, <1>4, <1>5, <1>6

(* Deletions and share switches remove and copy rows.                      *)
LEMMA OutsideGates ==
  ASSUME TypeInv, GateInv, UNCHANGED run, Stores' \subseteq Stores
  PROVE  GateInv'
<1>1. \A r \in Runs : Follows(run[r], run'[r])
  BY DEF Follows, SameRequest
<1>2. \A d \in Stores : GateData(d)'
  <2> SUFFICES ASSUME NEW d \in Stores PROVE GateData(d)'
    OBVIOUS
  <2> QED
    BY <1>1, StoresAreData, CarryGates DEF GateInv
<1> QED
  BY <1>2 DEF GateInv

-----------------------------------------------------------------------------
LEMMA GateInit == Init => GateInv
BY DEF Init, IdleRun, EmptyData, GateInv, Stores, GateData, OneAnswerPerGate, Gates,
       Untouched, HoldsAnswer

LEMMA GateStep == TypeInv /\ GateInv /\ [Next]_vars => GateInv'
<1> SUFFICES ASSUME TypeInv, GateInv, [Next]_vars PROVE GateInv'
  OBVIOUS
<1>1. ASSUME NEW r \in Runs, NodeStep(r) PROVE GateInv'
  <2>1. PICK q \in run[r].queue :
          \/ FinishNode(r, q) \/ StopForHuman(r, q) \/ FailNode(r, q)
          \/ AbortNode(r, q) \/ SkipMissingNode(r, q)
    BY <1>1 DEF NodeStep
  <2>2. CASE FailNode(r, q) \/ AbortNode(r, q)
    BY <2>2, CatchGates DEF FailNode, AbortNode, Executes
  <2> QED
    BY <2>1, <2>2, FinishNodeGates, StopForHumanGates, QuietGates
<1>2. ASSUME NEW r \in Runs, Submit(r) \/ Progress(r) PROVE GateInv'
  BY <1>1, <1>2, SubmitGates, CreateExecutionGates, ResumeExecutionGates, FindRowGates,
     SaveRowGates, QuietGates DEF Progress
<1>3. ASSUME NEW e \in Exec, DeleteExecution(e) PROVE GateInv'
  <2>1. Stores' \subseteq Stores /\ UNCHANGED run
    BY <1>3 DEF TypeInv, TypeOK, Stores, DeleteExecution
  <2> QED
    BY <2>1, OutsideGates
<1>4. ASSUME NEW e \in Exec, ShareFind(e) PROVE GateInv'
  <2>1. Stores' \subseteq Stores /\ UNCHANGED run
    BY <1>4 DEF TypeInv, TypeOK, Stores, ShareFind
  <2> QED
    BY <2>1, OutsideGates
<1>5. CASE ShareSave
  <2>1. Stores' \subseteq Stores /\ UNCHANGED run
    BY <1>5 DEF TypeInv, TypeOK, Stores, ShareSave
  <2> QED
    BY <2>1, OutsideGates
<1>6. ASSUME NEW f \in Flows, EditFlow(f) PROVE GateInv'
  <2>1. Stores' \subseteq Stores /\ UNCHANGED run
    BY <1>6 DEF Stores, EditFlow
  <2> QED
    BY <2>1, OutsideGates
<1>7. CASE Disturb
  BY <1>3, <1>4, <1>5, <1>6, <1>7, QuietGates DEF Disturb
<1>8. CASE UNCHANGED vars
  <2>1. Stores' \subseteq Stores /\ UNCHANGED run
    BY <1>8 DEF Stores, vars
  <2> QED
    BY <2>1, OutsideGates
<1> QED
  BY <1>2, <1>7, <1>8 DEF Next

THEOREM GatesHold == Spec => []GateInv
<1> QED
  BY GateInit, GateStep, TypeInvariant, PTL DEF Spec

(* One human answer opens one gate.                                        *)
THEOREM OneAnswer == Spec => []OneAnswerOneGate
<1>1. GateInv => OneAnswerOneGate
  BY DEF GateInv, Stores, GateData, OneAnswerOneGate
<1> QED
  BY <1>1, GatesHold, PTL
=============================================================================
