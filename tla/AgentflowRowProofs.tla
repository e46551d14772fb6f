------------------------- MODULE AgentflowRowProofs -------------------------
(***************************************************************************)
(* The state column of an execution never contradicts its executed data,   *)
(* however many requests, crashes, deletions and share switches interleave *)
(* with the whole-row saves of updateExecution.                            *)
(*                                                                         *)
(* RowMatchesData is not inductive: rows are also saved from copies.  The  *)
(* invariant SoundInv asks the same of every copy of a row (what a find    *)
(* returned, what a share switch holds), that stamps grow with every push, *)
(* and, of a run, what it takes for the row it will save to be sound: its  *)
(* data holds no failure as long as it is running, and its status agrees   *)
(* with its data once it has left the main loop.                           *)
(*                                                                         *)
(* The second half proves that the executor implements the lifecycle of    *)
(* ExecutionLifecycle when the requests of a session do not overlap.       *)
(***************************************************************************)
EXTENDS AgentflowProofs, NaturalsInduction, WellFoundedInduction

Stamped(d) == \A x \in d.items : x.pos < d.next

GoodData(d) == \A x \in d.items : GoodEntry(x)

SoundRow(row) == Stamped(row.data) /\ Agrees(row.state, row.data)

SoundRun(l) ==
  /\ Stamped(l.data)
  /\ l.found # NoRow => SoundRow(l.found)
  /\ l.pc \in {"idle", "looking"} => l.status = "INPROGRESS" /\ l.data.items = {}
  /\ l.pc = "running" => GoodData(l.data)
  /\ l.pc \in {"find", "save"} => Agrees(l.status, l.data)
  /\ l.pc \in {"find", "save"} /\ l.phase \in {"retry", "claim"} =>
       GoodData(l.data) /\ l.status = "INPROGRESS"

SoundInv ==
  /\ \A e \in Exec : rows[e] # NoRow => SoundRow(rows[e])
  /\ \A r \in Runs : SoundRun(run[r])
  /\ sharing.row # NoRow => SoundRow(sharing.row)

-----------------------------------------------------------------------------
(* Executed data.                                                          *)

(* A push keeps the stamps below next, keeps good data good when it pushes *)
(* a good entry, and ends good data with the failure it pushes.            *)
LEMMA PushSound ==
  ASSUME NEW d \in Data, Stamped(d), NEW n \in Node, NEW r \in Runs, NEW s \in EntryStatus
  PROVE  /\ Stamped(Push(d, n, s, r))
         /\ s \in {"FINISHED", "STOPPED"} /\ GoodData(d) => GoodData(Push(d, n, s, r))
         /\ GoodData(d) => EndsWith(Push(d, n, s, r), s)
<1> DEFINE x == [pos |-> d.next, node |-> n, status |-> s, by |-> r]
<1>1. d.next \in Nat /\ \A y \in d.items : y.pos \in Nat
  BY DEF Data, Entry
<1>2. Push(d, n, s, r).items = d.items \cup {x} /\ Push(d, n, s, r).next = d.next + 1
  BY DEF Push
<1>3. Stamped(Push(d, n, s, r))
  BY <1>1, <1>2 DEF Stamped
<1>4. s \in {"FINISHED", "STOPPED"} /\ GoodData(d) => GoodData(Push(d, n, s, r))
  BY <1>2 DEF GoodData, GoodEntry
<1>5. GoodData(d) => EndsWith(Push(d, n, s, r), s)
  BY <1>1, <1>2 DEF GoodData, GoodEntry, EndsWith, Stamped
<1> QED
  BY <1>3, <1>4, <1>5

(* Removing the entries of a node keeps data stamped and good.             *)
LEMMA WithoutSound ==
  ASSUME NEW d \in Data, NEW n
  PROVE  /\ Stamped(d) => Stamped(Without(d, n))
         /\ GoodData(d) => GoodData(Without(d, n))
BY DEF Data, Without, Stamped, GoodData

(* The state computed when the main loop has ended agrees with good data.  *)
LEMMA FinalAgrees ==
  ASSUME NEW d \in Data, GoodData(d)
  PROVE  Agrees(FinalStatus(d), d)
BY DEF FinalStatus, Agrees, GoodData, GoodEntry, Has, EndsWith

(* Of data that ends with a failure, DropLatest leaves the good part.      *)
LEMMA DropFailure ==
  ASSUME NEW d \in Data, EndsWith(d, "ERROR")
  PROVE  GoodData(DropLatest(d))
<1>1. PICK x \in d.items :
        /\ x.status = "ERROR"
        /\ \A y \in d.items \ {x} : GoodEntry(y) /\ y.pos < x.pos
  BY DEF EndsWith
<1>2. \A y \in d.items : y.pos \in Nat
  BY DEF Data, Entry
<1>3. \A y \in d.items : y.pos <= x.pos
  BY <1>1, <1>2
<1>4. \A y \in d.items : (\A z \in d.items : z.pos <= y.pos) => y = x
  BY <1>1, <1>2
<1>5. Latest(d.items) = x
  BY <1>3, <1>4 DEF Latest
<1>6. DropLatest(d).items = d.items \ {x}
  BY <1>5 DEF DropLatest, Data
<1> QED
  BY <1>1, <1>6 DEF GoodData

(* What a resume keeps of a sound row holds no failure.                    *)
LEMMA KeptSound ==
  ASSUME NEW row \in Row, SoundRow(row), Resumable(row)
  PROVE  Stamped(KeptData(row)) /\ GoodData(KeptData(row))
<1>1. row.data \in Data
  BY DEF Row
<1>2. Stamped(DropLatest(row.data))
  BY <1>1 DEF Stamped, SoundRow, DropLatest, Data
<1>3. CASE row.state = "ERROR"
  BY <1>1, <1>2, <1>3, DropFailure DEF SoundRow, Agrees, KeptData
<1>4. CASE row.state = "STOPPED"
  BY <1>4 DEF SoundRow, Agrees, KeptData, GoodData
<1> QED
  BY <1>3, <1>4 DEF Resumable, ErrorAfterStop

-----------------------------------------------------------------------------
(* Steps of a run.                                                         *)

LEMMA BecomesSound ==
  ASSUME TypeOK, SoundInv, NEW r \in Runs, NEW l, SoundRun(l), Becomes(r, l)
  PROVE  \A q \in Runs : SoundRun(run'[q])
BY DEF TypeOK, Becomes, SoundInv

(* A run that only moves, to where it drives no execution any more.        *)
LEMMA LeaveSound ==
  ASSUME TypeInv, SoundInv, NEW r \in Runs,
         NEW pc \in {"failed", "rejected", "crashed", "done"}
  PROVE  SoundRun([run[r] EXCEPT !.pc = pc])
BY DEF TypeInv, TypeOK, RunState, SoundInv, SoundRun

LEMMA SubmitSound ==
  ASSUME TypeInv, SoundInv, NEW r \in Runs, Submit(r)
  PROVE  SoundInv'
<1>1. PICK b \in BOOLEAN, s \in Node \cup {NoNode} :
        Becomes(r, [IdleRun(canvas) EXCEPT !.pc = "looking", !.resume = b, !.start = s])
  BY ClientAssumption DEF Submit
<1>2. SoundRun([IdleRun(canvas) EXCEPT !.pc = "looking", !.resume = b, !.start = s])
  BY DEF SoundRun, IdleRun, EmptyData, Stamped
<1>3. \A q \in Runs : SoundRun(run'[q])
  BY <1>1, <1>2, BecomesSound DEF TypeInv
<1> QED
  BY <1>3 DEF SoundInv, Submit

LEMMA CreateExecutionSound ==
  ASSUME TypeInv, SoundInv, NEW r \in Runs, CreateExecution(r)
  PROVE  SoundInv'
<1> DEFINE Q   == {[turn |-> <<0, 0>>, node |-> n] : n \in StartingNodes(FlowOf(r))}
           row == [state |-> "INPROGRESS", data |-> EmptyData]
<1>1. SoundRun([run[r] EXCEPT !.pc = "running", !.exec = created + 1, !.queue = Q])
  BY DEF CreateExecution, TypeInv, TypeOK, RunState, SoundInv, SoundRun, GoodData
<1>2. \A q \in Runs : SoundRun(run'[q])
  BY <1>1, BecomesSound DEF CreateExecution, TypeInv
<1>3. SoundRow(row)
  BY DEF SoundRow, EmptyData, Stamped, Agrees
<1>4. rows' = [rows EXCEPT ![created + 1] = row]
  BY DEF CreateExecution
<1> HIDE DEF row
<1>5. \A e \in Exec : rows'[e] # NoRow => SoundRow(rows'[e])
  BY <1>3, <1>4 DEF SoundInv, TypeInv, TypeOK
<1> QED
  BY <1>2, <1>5 DEF SoundInv, CreateExecution

LEMMA ResumeExecutionSound ==
  ASSUME TypeInv, SoundInv, NEW r \in Runs, NEW e \in Exec, ResumeExecution(r, e)
  PROVE  SoundInv'
<1> DEFINE kept == KeptData(rows[e])
           s    == StartOf(kept, run[r].start)
           ph   == IF rows[e].state = "ERROR" THEN "retry" ELSE "claim"
           Q    == {[turn |-> <<0, 0>>, node |-> s]}
           l    == [run[r] EXCEPT !.pc = "find", !.phase = ph, !.exec = e, !.data = kept,
                                  !.start = s, !.human = s, !.queue = Q]
<1>1. rows[e] \in Row /\ SoundRow(rows[e]) /\ Resumable(rows[e])
  BY DEF TypeInv, TypeOK, SoundInv, ResumeExecution, CanResume, IsNewest
<1>2. Stamped(kept) /\ GoodData(kept)
  BY <1>1, KeptSound
<1>3. Becomes(r, l)
  BY DEF ResumeExecution
<1> HIDE DEF kept, s, ph, Q
<1>4. SoundRun(l)
  BY <1>2 DEF ResumeExecution, TypeInv, TypeOK, RunState, SoundInv, SoundRun, Agrees
<1>5. \A q \in Runs : SoundRun(run'[q])
  BY <1>3, <1>4, BecomesSound DEF TypeInv
<1> QED
  BY <1>5 DEF SoundInv, ResumeExecution

LEMMA FindRowSound ==
  ASSUME TypeInv, SoundInv, NEW r \in Runs, FindRow(r)
  PROVE  SoundInv'
<1> DEFINE row == rows[run[r].exec]
<1>1. row = NoRow => Becomes(r, [run[r] EXCEPT !.pc = "failed"])
  BY DEF FindRow
<1>2. row # NoRow => Becomes(r, [run[r] EXCEPT !.pc = "save", !.found = row])
  BY DEF FindRow
<1>3. row # NoRow => SoundRow(row)
  BY DEF TypeInv, HoldsRow, FindRow, SoundInv
<1> HIDE DEF row
<1>4. row # NoRow => SoundRun([run[r] EXCEPT !.pc = "save", !.found = row])
  BY <1>3 DEF FindRow, TypeInv, TypeOK, RunState, SoundInv, SoundRun
<1>5. \A q \in Runs : SoundRun(run'[q])
  BY <1>1, <1>2, <1>4, LeaveSound, BecomesSound DEF TypeInv
<1> QED
  BY <1>5 DEF SoundInv, FindRow

LEMMA SaveRowSound ==
  ASSUME TypeInv, SoundInv, NEW r \in Runs, SaveRow(r)
  PROVE  SoundInv'
<1> DEFINE ph == IF run[r].phase = "retry" THEN "claim" ELSE run[r].phase
           l  == [run[r] EXCEPT !.pc = AfterSave(r), !.phase = ph]
<1>1. run[r] \in RunState /\ SoundRun(run[r]) /\ run[r].pc = "save"
      /\ run[r].exec \in Exec /\ run[r].found # NoRow
  BY DEF TypeInv, TypeOK, HoldsRow, SoundInv, SaveRow
<1>2. /\ AfterSave(r) \in {"find", "running", "failed", "done"}
      /\ AfterSave(r) = "find" => run[r].phase = "retry"
      /\ AfterSave(r) = "running" => run[r].phase = "claim"
  BY DEF AfterSave
<1>3. SoundRow(Merged(r))
  BY <1>1 DEF Merged, SoundRow, SoundRun, Agrees
<1>4. Becomes(r, l)
  BY DEF SaveRow
<1> HIDE DEF ph
<1>5. SoundRun(l)
  BY <1>1, <1>2 DEF SoundRun, RunState
<1>6. \A q \in Runs : SoundRun(run'[q])
  BY <1>4, <1>5, BecomesSound DEF TypeInv
<1>7. \A e \in Exec : rows'[e] # NoRow => SoundRow(rows'[e])
  BY <1>3 DEF SaveRow, SoundInv, TypeInv, TypeOK
<1> QED
  BY <1>6, <1>7 DEF SoundInv, SaveRow

(* A node that finishes, or stops for a human, leaves good data good.      *)
LEMMA DataBeforeSound ==
  ASSUME TypeInv, SoundInv, NEW r \in Runs, NEW q \in run[r].queue, run[r].pc = "running",
         NEW s \in {"FINISHED", "STOPPED"}
  PROVE  LET d == Push(DataBefore(r, q.node), q.node, s, r)
         IN  Stamped(d) /\ GoodData(d)
<1>1. run[r].data \in Data /\ q.node \in Node /\ Stamped(run[r].data) /\ GoodData(run[r].data)
  BY DEF TypeInv, TypeOK, RunState, Ticket, SoundInv, SoundRun
<1>2. /\ DataBefore(r, q.node) \in Data
      /\ Stamped(DataBefore(r, q.node)) /\ GoodData(DataBefore(r, q.node))
  BY <1>1, DataTypes, WithoutSound DEF DataBefore
<1> QED
  BY <1>1, <1>2, PushSound DEF EntryStatus, ExecutionState

LEMMA FinishNodeSound ==
  ASSUME TypeInv, SoundInv, NEW r \in Runs, NEW q \in run[r].queue, FinishNode(r, q)
  PROVE  SoundInv'
<1> DEFINE n == q.node
           D(o) == DeliveryEdges(FlowOf(r), n, o)
           l(o) == [run[r] EXCEPT
                 !.data    = Push(DataBefore(r, n), n, "FINISHED", r),
                 !.human   = IF LoopsBack(r, n) THEN NoNode ELSE HumanAfter(r, n),
                 !.waiting = WaitingAfter(r, n, D(o)),
                 !.queue   = QueueAfter(r, q, D(o)),
                 !.loops   = LoopsAfter(r, n),
                 !.steps   = @ + 1]
<1>1. PICK o \in Outcomes(FlowOf(r), n) : Becomes(r, l(o))
  BY DEF FinishNode
<1>2. run[r].pc = "running"
  BY DEF FinishNode, Executes
<1>3. SoundRun(l(o))
  BY <1>2, DataBeforeSound DEF TypeInv, TypeOK, RunState, SoundInv, SoundRun
<1>4. \A p \in Runs : SoundRun(run'[p])
  BY <1>1, <1>3, BecomesSound DEF TypeInv
<1> QED
  BY <1>4 DEF SoundInv, FinishNode

LEMMA StopForHumanSound ==
  ASSUME TypeInv, SoundInv, NEW r \in Runs, NEW q \in run[r].queue, StopForHuman(r, q)
  PROVE  SoundInv'
<1> DEFINE n == q.node
           l == [run[r] EXCEPT
                 !.data  = Push(DataBefore(r, n), n, "STOPPED", r),
                 !.human = HumanAfter(r, n),
                 !.queue = {}, !.steps = @ + 1, !.status = "STOPPED"]
<1>1. run[r].pc = "running"
  BY DEF StopForHuman, Executes
<1>2. SoundRun(l)
  BY <1>1, DataBeforeSound DEF TypeInv, TypeOK, RunState, SoundInv, SoundRun
<1>3. \A p \in Runs : SoundRun(run'[p])
  BY <1>2, BecomesSound DEF TypeInv, StopForHuman
<1> QED
  BY <1>3 DEF SoundInv, StopForHuman

(* The catch block ends good data with the failure it reports.             *)
LEMMA CatchSound ==
  ASSUME TypeInv, SoundInv, NEW r \in Runs, NEW q \in run[r].queue, run[r].pc = "running",
         NEW s \in {"ERROR", "TERMINATED"}, Catch(r, q, s)
  PROVE  \A p \in Runs : SoundRun(run'[p])
<1> DEFINE d == Push(run[r].data, q.node, s, r)
           l == [run[r] EXCEPT !.data = Push(@, q.node, s, r), !.status = s,
                               !.queue = @ \ {q}, !.steps = @ + 1,
                               !.pc = "find", !.phase = "error"]
<1>1. run[r].data \in Data /\ q.node \in Node /\ Stamped(run[r].data) /\ GoodData(run[r].data)
  BY DEF TypeInv, TypeOK, RunState, Ticket, SoundInv, SoundRun
<1>2. Stamped(d) /\ EndsWith(d, s)
  BY <1>1, PushSound DEF EntryStatus, ExecutionState
<1>3. SoundRun(l)
  BY <1>2 DEF TypeInv, TypeOK, RunState, SoundInv, SoundRun, Agrees
<1> QED
  BY <1>3, BecomesSound DEF TypeInv, Catch

LEMMA SkipMissingNodeSound ==
  ASSUME TypeInv, SoundInv, NEW r \in Runs, NEW q \in run[r].queue, SkipMissingNode(r, q)
  PROVE  SoundInv'
<1>1. SoundRun([run[r] EXCEPT !.queue = @ \ {q}, !.steps = @ + 1])
  BY DEF TypeInv, TypeOK, RunState, SoundInv, SoundRun
<1>2. \A p \in Runs : SoundRun(run'[p])
  BY <1>1, BecomesSound DEF TypeInv, SkipMissingNode
<1> QED
  BY <1>2 DEF SoundInv, SkipMissingNode

LEMMA EndLoopSound ==
  ASSUME TypeInv, SoundInv, NEW r \in Runs, EndLoop(r)
  PROVE  SoundInv'
<1> DEFINE s == FinalStatus(run[r].data)
           l == [run[r] EXCEPT !.pc = "find", !.phase = "settle", !.status = s]
<1>1. run[r].data \in Data /\ GoodData(run[r].data)
  BY DEF TypeInv, TypeOK, RunState, SoundInv, SoundRun, EndLoop
<1>2. Agrees(s, run[r].data)
  BY <1>1, FinalAgrees
<1>3. Becomes(r, l)
  BY DEF EndLoop
<1> HIDE DEF s
<1>4. SoundRun(l)
  BY <1>2 DEF TypeInv, TypeOK, RunState, SoundInv, SoundRun
<1>5. \A p \in Runs : SoundRun(run'[p])
  BY <1>3, <1>4, BecomesSound DEF TypeInv
<1> QED
  BY <1>5 DEF SoundInv, EndLoop

(* The iteration limit, a crash and an abort leave all data alone.         *)
LEMMA MoveSound ==
  ASSUME TypeInv, SoundInv, NEW r \in Runs,
         ExceedIterations(r) \/ Crash(r) \/ Abort(r) \/ RefuseRequest(r)
  PROVE  SoundInv'
<1>1. SoundRun([run[r] EXCEPT !.aborted = TRUE])
  BY DEF TypeInv, TypeOK, RunState, SoundInv, SoundRun
<1>2. \A p \in Runs : SoundRun(run'[p])
  BY <1>1, LeaveSound, BecomesSound
     DEF TypeInv, ExceedIterations, Crash, Abort, RefuseRequest
<1> QED
  BY <1>2 DEF SoundInv, ExceedIterations, Crash, Abort, RefuseRequest

(* A deletion removes a row; a share switch copies one and writes it back. *)
LEMMA OutsideSound ==
  ASSUME TypeInv, SoundInv,
         \/ \E e \in Exec : DeleteExecution(e) \/ ShareFind(e)
         \/ ShareSave
         \/ \E f \in Flows : EditFlow(f)
  PROVE  SoundInv'
<1>1. ASSUME NEW e \in Exec, DeleteExecution(e) PROVE SoundInv'
  BY <1>1 DEF TypeInv, TypeOK, SoundInv, DeleteExecution
<1>2. ASSUME NEW e \in Exec, ShareFind(e) PROVE SoundInv'
  BY <1>2 DEF TypeInv, TypeOK, SoundInv, ShareFind
<1>3. CASE ShareSave
  BY <1>3 DEF TypeInv, TypeOK, SoundInv, ShareSave
<1>4. ASSUME NEW f \in Flows, EditFlow(f) PROVE SoundInv'
  BY <1>4 DEF SoundInv, EditFlow
<1> QED
  BY <1>1, <1>2, <1>3, <1>4

-----------------------------------------------------------------------------
LEMMA SoundInit == Init => SoundInv
BY DEF Init, IdleRun, EmptyData, SoundInv, SoundRun, Stamped

LEMMA SoundStep == TypeInv /\ SoundInv /\ [Next]_vars => SoundInv'
<1> SUFFICES ASSUME TypeInv, SoundInv, [Next]_vars PROVE SoundInv'
  OBVIOUS
<1>1. ASSUME NEW r \in Runs, NodeStep(r) PROVE SoundInv'
  <2>1. PICK q \in run[r].queue :
          \/ FinishNode(r, q) \/ StopForHuman(r, q) \/ FailNode(r, q)
          \/ AbortNode(r, q) \/ SkipMissingNode(r, q)
    BY <1>1 DEF NodeStep
  <2>2. CASE FailNode(r, q) \/ AbortNode(r, q)
    <3>1. \A p \in Runs : SoundRun(run'[p])
      BY <2>2, CatchSound DEF FailNode, AbortNode, Executes
    <3> QED
      BY <2>2, <3>1 DEF SoundInv, FailNode, AbortNode
  <2> QED
    BY <2>1, <2>2, FinishNodeSound, StopForHumanSound, SkipMissingNodeSound
<1>2. ASSUME NEW r \in Runs, Submit(r) \/ Progress(r) PROVE SoundInv'
  BY <1>1, <1>2, SubmitSound, CreateExecutionSound, ResumeExecutionSound, MoveSound,
     FindRowSound, SaveRowSound, EndLoopSound DEF Progress
<1>3. CASE Disturb
  BY <1>3, MoveSound, OutsideSound DEF Disturb
<1>4. CASE UNCHANGED vars
  BY <1>4 DEF SoundInv, vars
<1> QED
  BY <1>2, <1>3, <1>4 DEF Next

THEOREM RowsSound == Spec => []SoundInv
<1> QED
  BY SoundInit, SoundStep, TypeInvariant, PTL DEF Spec

(* The state column of an execution never contradicts its executed data.   *)
THEOREM RowsMatchData == Spec => []RowMatchesData
<1>1. SoundInv => RowMatchesData
  BY DEF SoundInv, SoundRow, RowMatchesData
<1> QED
  BY <1>1, RowsSound, PTL

-----------------------------------------------------------------------------
(* The executor implements the lifecycle.                                  *)

(* A set of naturals below a bound has a greatest element.                 *)
LEMMA Greatest ==
  ASSUME NEW S \in SUBSET Nat, NEW b \in Nat, S # {}, \A x \in S : x < b
  PROVE  \E m \in S : \A x \in S : x <= m
<1> DEFINE R == {ss \in Nat \X Nat : ss[1] < ss[2]}
           T == {z \in Nat : b - z \in S}
<1>1. R = OpToRel(<, Nat)
  BY DEF OpToRel
<1>2. IsWellFoundedOn(R, Nat)
  BY <1>1, NatLessThanWellFounded
<1>3. ASSUME NEW x \in S PROVE b - x \in T
  <2>1. x \in Nat /\ x < b
    OBVIOUS
  <2>2. b - x \in Nat /\ b - (b - x) = x
    BY <2>1
  <2> QED
    BY <2>2
<1>4. T \subseteq Nat /\ T # {}
  BY <1>3
<1>5. PICK m \in T : \A y \in T : ~(<<y, m>> \in R)
  BY <1>2, <1>4, WFMin
<1>6. \A y \in T : ~(y < m)
  BY <1>4, <1>5
<1>7. \A x \in S : x <= b - m
  <2>1. SUFFICES ASSUME NEW x \in S PROVE x <= b - m
    OBVIOUS
  <2>2. b - x \in T /\ x \in Nat /\ m \in Nat
    BY <1>3
  <2> HIDE DEF T
  <2>3. ~(b - x < m)
    BY <1>6, <2>2
  <2> QED
    BY <2>2, <2>3
<1> QED
  BY <1>7

(* The latest entry of stamped data is an entry of it.                     *)
LEMMA LatestIsEntry ==
  ASSUME NEW d \in Data, Stamped(d), d.items # {}
  PROVE  Latest(d.items) \in d.items
<1> DEFINE S == {x.pos : x \in d.items}
<1>1. d.next \in Nat /\ \A x \in d.items : x.pos \in Nat /\ x.pos < d.next
  BY DEF Data, Entry, Stamped
<1>2. S \in SUBSET Nat /\ S # {} /\ \A p \in S : p < d.next
  BY <1>1
<1>3. PICK m \in S : \A p \in S : p <= m
  <2> HIDE DEF S
  <2> QED
    BY <1>1, <1>2, Greatest
<1>4. \E e \in d.items : \A x \in d.items : x.pos <= e.pos
  BY <1>3
<1> QED
  BY <1>4 DEF Latest

(* What a resume keeps of an execution holds an open question.             *)
LEMMA KeptIsOpen ==
  ASSUME NEW row \in Row, SoundRow(row), Resumable(row)
  PROVE  /\ KeptData(row) \in Data
         /\ KeptData(row).items \subseteq row.data.items
         /\ Has(KeptData(row), "STOPPED")
<1>1. row.data \in Data
  BY DEF Row
<1>2. /\ DropLatest(row.data) \in Data
      /\ DropLatest(row.data).items \subseteq row.data.items
  BY <1>1 DEF DropLatest, Data
<1>3. CASE row.state = "STOPPED"
  BY <1>1, <1>3 DEF SoundRow, Agrees, KeptData
<1>4. CASE ErrorAfterStop(row)
  <2>1. row.state = "ERROR" /\ DropLatest(row.data).items # {}
        /\ Latest(DropLatest(row.data).items).status = "STOPPED"
    BY <1>4 DEF ErrorAfterStop
  <2>2. Stamped(DropLatest(row.data))
    BY <1>1, <1>2 DEF SoundRow, Stamped, DropLatest, Data
  <2>3. Latest(DropLatest(row.data).items) \in DropLatest(row.data).items
    BY <1>2, <2>1, <2>2, LatestIsEntry
  <2> QED
    BY <1>2, <2>1, <2>3 DEF Has, KeptData
<1> QED
  BY <1>3, <1>4 DEF Resumable

(* What a run in flight knows of the row it drives: nobody else writes it, *)
(* it is in progress while the run is in its main loop or about to settle  *)
(* it, and it holds an open question until the run has claimed it.         *)
Owns(l, row) ==
  /\ row # NoRow
  /\ l.pc = "save" => l.found = row
  /\ l.pc = "running" => row.state = "INPROGRESS"
  /\ l.pc \in {"find", "save"} =>
       \/ /\ l.phase = "retry" /\ row.state = "ERROR"
          /\ Has(row.data, "STOPPED") /\ Has(l.data, "STOPPED")
       \/ /\ l.phase = "claim" /\ row.state \in {"STOPPED", "INPROGRESS"}
          /\ Has(row.data, "STOPPED")
       \/ /\ l.phase \in {"settle", "error"} /\ row.state = "INPROGRESS"
          /\ l.status # "INPROGRESS"

Flying(l) == l.pc \in {"looking", "find", "save", "running"}

LifeInv ==
  /\ \A r, q \in Runs : Flying(run[r]) /\ Flying(run[q]) => r = q
  /\ sharing.exec = 0 /\ budget["delete"] = 0 /\ budget["share"] = 0
  /\ \A e \in Exec : rows[e] # NoRow => e <= created
  /\ \A r \in Runs : Flying(run[r]) /\ run[r].pc # "looking" =>
                      Owns(run[r], rows[run[r].exec])

(* A step of the run in flight.                                            *)
LEMMA FlightStep ==
  ASSUME TypeInv, LifeInv, NEW r \in Runs, NEW l, Becomes(r, l), Flying(run[r]),
         Flying(l) /\ l.pc # "looking" => Owns(l, rows'[l.exec]),
         UNCHANGED <<sharing, budget>> \/ (UNCHANGED sharing /\ (Spend("crash") \/ Spend("abort"))),
         \A e \in Exec : rows'[e] # NoRow => e <= created'
  PROVE  LifeInv'
<1>1. run'[r] = l /\ \A p \in Runs : p # r => run'[p] = run[p]
  BY DEF Becomes, TypeInv, TypeOK
<1>2. \A p \in Runs : p # r => ~Flying(run'[p])
  BY <1>1 DEF LifeInv
<1>3. sharing'.exec = 0 /\ budget'["delete"] = 0 /\ budget'["share"] = 0
  BY DEF LifeInv, Spend, TypeInv, TypeOK, Disturbances
<1> QED
  BY <1>1, <1>2, <1>3 DEF LifeInv

LEMMA StartLife ==
  ASSUME TypeInv, SoundInv, LifeInv, NEW r \in Runs, Concurrent = FALSE,
         Submit(r) \/ CreateExecution(r) \/ RefuseRequest(r)
  PROVE  LifeInv'
<1>1. run[r] \in RunState
  BY DEF TypeInv, TypeOK
<1>2. CASE Submit(r)
  <2>1. PICK b \in BOOLEAN, s \in Node \cup {NoNode} :
          Becomes(r, [IdleRun(canvas) EXCEPT !.pc = "looking", !.resume = b, !.start = s])
    BY <1>2, ClientAssumption DEF Submit
  <2>2. \A p \in Runs : ~Flying(run[p])
    BY <1>2 DEF Submit, InFlight, Flying
  <2>3. \A p \in Runs : p # r => run'[p] = run[p]
    BY <2>1 DEF Becomes, TypeInv, TypeOK
  <2>4. run'[r].pc = "looking"
    BY <2>1 DEF Becomes, TypeInv, TypeOK, IdleRun
  <2> QED
    BY <1>2, <2>2, <2>3, <2>4 DEF LifeInv, Submit
<1>3. CASE CreateExecution(r)
  <2> DEFINE Q   == {[turn |-> <<0, 0>>, node |-> n] : n \in StartingNodes(FlowOf(r))}
             row == [state |-> "INPROGRESS", data |-> EmptyData]
             l   == [run[r] EXCEPT !.pc = "running", !.exec = created + 1, !.queue = Q]
  <2>1. /\ Becomes(r, l) /\ run[r].pc = "looking" /\ created' = created + 1
        /\ rows' = [rows EXCEPT ![created + 1] = row] /\ UNCHANGED <<sharing, budget>>
    BY <1>3 DEF CreateExecution
  <2>2. l.pc = "running" /\ l.exec = created + 1
    BY <1>1 DEF RunState
  <2>3. row \in Row
    BY EmptyIsData DEF Row, ExecutionState
  <2>4. created + 1 \in Exec
    BY <1>3, BoundsAssumption DEF CreateExecution, TypeInv, TypeOK, Exec
  <2>5. row.state = "INPROGRESS"
    OBVIOUS
  <2> HIDE DEF l, row
  <2>6. Owns(l, rows'[l.exec])
    BY <2>1, <2>2, <2>3, <2>4, <2>5, RowAssumption DEF Owns, TypeInv, TypeOK
  <2>7. \A e \in Exec : rows'[e] # NoRow => e <= created'
    BY <2>1 DEF LifeInv, TypeInv, TypeOK, Exec
  <2> QED
    BY <2>1, <2>6, <2>7, FlightStep DEF Flying
<1>4. CASE RefuseRequest(r)
  <2> DEFINE l == [run[r] EXCEPT !.pc = "rejected"]
  <2>1. /\ Becomes(r, l) /\ run[r].pc = "looking" /\ UNCHANGED <<rows, created, sharing, budget>>
    BY <1>4 DEF RefuseRequest
  <2>2. ~Flying(l)
    BY <1>1 DEF RunState, Flying
  <2> HIDE DEF l
  <2> QED
    BY <2>1, <2>2, FlightStep DEF Flying, LifeInv
<1> QED
  BY <1>2, <1>3, <1>4

LEMMA ResumeLife ==
  ASSUME TypeInv, SoundInv, LifeInv, NEW r \in Runs, NEW e \in Exec, ResumeExecution(r, e)
  PROVE  LifeInv'
<1> DEFINE kept == KeptData(rows[e])
           s    == StartOf(kept, run[r].start)
           ph   == IF rows[e].state = "ERROR" THEN "retry" ELSE "claim"
           Q    == {[turn |-> <<0, 0>>, node |-> s]}
           l    == [run[r] EXCEPT !.pc = "find", !.phase = ph, !.exec = e, !.data = kept,
                                  !.start = s, !.human = s, !.queue = Q]
<1>1. /\ Becomes(r, l) /\ run[r].pc = "looking" /\ UNCHANGED <<rows, created, sharing, budget>>
  BY DEF ResumeExecution
<1>2. run[r] \in RunState /\ rows[e] \in Row /\ rows[e] # NoRow
      /\ SoundRow(rows[e]) /\ Resumable(rows[e])
  BY DEF TypeInv, TypeOK, SoundInv, ResumeExecution, CanResume, IsNewest
<1>3. l.data = kept /\ l.pc = "find" /\ l.phase = ph /\ l.exec = e
  BY <1>2 DEF RunState
<1>4. Has(kept, "STOPPED") /\ kept.items \subseteq rows[e].data.items
  BY <1>2, KeptIsOpen
<1>5. rows[e].state \in {"STOPPED", "ERROR"} /\ Has(rows[e].data, "STOPPED")
  BY <1>2, <1>4 DEF Resumable, ErrorAfterStop, Has
<1> HIDE DEF l, kept
<1>6. Owns(l, rows[e])
  BY <1>2, <1>3, <1>4, <1>5 DEF Owns
<1> QED
  BY <1>1, <1>3, <1>6, FlightStep DEF Flying, LifeInv

LEMMA FindLife ==
  ASSUME TypeInv, LifeInv, NEW r \in Runs, FindRow(r)
  PROVE  LifeInv'
<1> DEFINE row == rows[run[r].exec]
           l == [run[r] EXCEPT !.pc = "save", !.found = row]
<1>1. /\ run[r] \in RunState /\ run[r].pc = "find"
      /\ Owns(run[r], row) /\ UNCHANGED <<rows, created, sharing, budget>>
  BY DEF TypeInv, TypeOK, LifeInv, Flying, FindRow
<1>2. Becomes(r, l)
  BY <1>1 DEF FindRow, Owns
<1>3. /\ l.data = run[r].data /\ l.pc = "save" /\ l.phase = run[r].phase
      /\ l.exec = run[r].exec /\ l.found = row /\ l.status = run[r].status
  BY <1>1 DEF RunState
<1> HIDE DEF l
<1>4. Owns(l, row)
  BY <1>1, <1>3 DEF Owns
<1> QED
  BY <1>1, <1>2, <1>3, <1>4, FlightStep DEF Flying, LifeInv

LEMMA SaveLife ==
  ASSUME TypeInv, SoundInv, LifeInv, NEW r \in Runs, SaveRow(r)
  PROVE  LifeInv'
<1> DEFINE e  == run[r].exec
           ph == IF run[r].phase = "retry" THEN "claim" ELSE run[r].phase
           l  == [run[r] EXCEPT !.pc = AfterSave(r), !.phase = ph]
<1>1. /\ run[r] \in RunState /\ run[r].pc = "save" /\ SoundRun(run[r]) /\ e \in Exec
      /\ Owns(run[r], rows[e]) /\ UNCHANGED <<created, sharing, budget>>
  BY DEF TypeInv, TypeOK, HoldsRow, SoundInv, LifeInv, Flying, SaveRow
<1>2. Becomes(r, l) /\ rows'[e] = Merged(r)
  BY <1>1 DEF SaveRow, TypeInv, TypeOK
<1>3. l.data = run[r].data /\ l.pc = AfterSave(r) /\ l.phase = ph /\ l.exec = e
  BY <1>1 DEF RunState
<1>4. Merged(r) \in Row
  BY <1>1 DEF Merged, Owns, RunState, Row, TypeInv, TypeOK
<1>5. Flying(l) =>
        /\ run[r].phase \in {"retry", "claim"}
        /\ Merged(r).state = "INPROGRESS" /\ Has(Merged(r).data, "STOPPED")
        /\ IF run[r].phase = "retry" THEN l.pc = "find" /\ l.phase = "claim"
           ELSE l.pc = "running"
  <2>1. AfterSave(r) \in {"find", "running"} => run[r].phase \in {"retry", "claim"}
    BY DEF AfterSave
  <2>2. run[r].phase \in {"retry", "claim"} => Merged(r).state = "INPROGRESS"
    BY <1>1 DEF SoundRun, Merged
  <2>3. run[r].phase \in {"retry", "claim"} => Has(Merged(r).data, "STOPPED")
    BY <1>1 DEF Owns, Merged
  <2>4. AfterSave(r) \in {"find", "running", "done", "failed"}
    BY DEF AfterSave
  <2>5. /\ run[r].phase = "retry" => AfterSave(r) = "find"
        /\ run[r].phase = "claim" => AfterSave(r) = "running"
    BY DEF AfterSave
  <2> QED
    BY <1>3, <2>1, <2>2, <2>3, <2>4, <2>5 DEF Flying
<1> HIDE DEF l
<1>6. Flying(l) => Owns(l, Merged(r))
  BY <1>4, <1>5, RowAssumption DEF Owns
<1>7. \A x \in Exec : rows'[x] # NoRow => x <= created'
  BY <1>1 DEF SaveRow, Owns, LifeInv, TypeInv, TypeOK
<1> QED
  BY <1>1, <1>2, <1>3, <1>6, <1>7, FlightStep DEF Flying

(* A step of the main loop leaves the row alone.                           *)
LEMMA LoopLife ==
  ASSUME TypeInv, SoundInv, LifeInv, NEW r \in Runs,
         NodeStep(r) \/ ExceedIterations(r) \/ EndLoop(r)
  PROVE  LifeInv'
<1>1. /\ run[r] \in RunState /\ run[r].pc = "running" /\ run[r].exec \in Exec
      /\ rows[run[r].exec] # NoRow /\ rows[run[r].exec].state = "INPROGRESS"
      /\ UNCHANGED <<rows, created, sharing, budget>>
  <2>1. run[r].pc = "running" /\ UNCHANGED <<rows, created, sharing, budget>>
    BY DEF NodeStep, FinishNode, StopForHuman, FailNode, AbortNode, SkipMissingNode,
           ExceedIterations, EndLoop, Executes
  <2> QED
    BY <2>1 DEF TypeInv, TypeOK, HoldsRow, LifeInv, Flying, Owns
<1>2. ASSUME NEW l, Becomes(r, l), l.exec = run[r].exec,
             \/ l.pc \in {"running", "failed"}
             \/ l.pc = "find" /\ l.phase \in {"settle", "error"} /\ l.status # "INPROGRESS"
      PROVE  LifeInv'
  <2>1. Flying(l) => Owns(l, rows[l.exec])
    BY <1>1, <1>2 DEF Flying, Owns
  <2> QED
    BY <1>1, <1>2, <2>1, FlightStep DEF Flying, LifeInv
<1>3. CASE ExceedIterations(r)
  <2>1. PICK l : l = [run[r] EXCEPT !.pc = "failed"]
    OBVIOUS
  <2>2. Becomes(r, l) /\ l.exec = run[r].exec /\ l.pc = "failed"
    BY <1>1, <1>3, <2>1 DEF ExceedIterations, RunState
  <2> QED
    BY <1>2, <2>2
<1>4. CASE EndLoop(r)
  <2>1. PICK l : l = [run[r] EXCEPT !.pc = "find", !.phase = "settle",
                                    !.status = FinalStatus(run[r].data)]
    OBVIOUS
  <2>2. FinalStatus(run[r].data) # "INPROGRESS"
    BY DEF FinalStatus
  <2>3. Becomes(r, l) /\ l.exec = run[r].exec /\ l.pc = "find" /\ l.phase = "settle"
        /\ l.status # "INPROGRESS"
    BY <1>1, <1>4, <2>1, <2>2 DEF EndLoop, RunState
  <2> QED
    BY <1>2, <2>3
<1>5. ASSUME NEW q \in run[r].queue, NEW s \in {"ERROR", "TERMINATED"}, Catch(r, q, s)
      PROVE  LifeInv'
  <2>1. PICK l : l = [run[r] EXCEPT !.data = Push(@, q.node, s, r), !.status = s,
                            !.queue = @ \ {q}, !.steps = @ + 1,
                            !.pc = "find", !.phase = "error"]
    OBVIOUS
  <2>2. Becomes(r, l) /\ l.exec = run[r].exec /\ l.pc = "find" /\ l.phase = "error"
        /\ l.status # "INPROGRESS"
    BY <1>1, <1>5, <2>1 DEF Catch, RunState
  <2> QED
    BY <1>2, <2>2
<1>6. CASE NodeStep(r)
  <2>1. PICK q \in run[r].queue :
          \/ FinishNode(r, q) \/ StopForHuman(r, q) \/ FailNode(r, q)
          \/ AbortNode(r, q) \/ SkipMissingNode(r, q)
    BY <1>6 DEF NodeStep
  <2>2. CASE FailNode(r, q) \/ AbortNode(r, q)
    BY <1>5, <2>2 DEF FailNode, AbortNode
  <2>3. CASE FinishNode(r, q) \/ StopForHuman(r, q) \/ SkipMissingNode(r, q)
    <3>1. PICK l : l = run'[r]
      OBVIOUS
    <3>2. ASSUME FinishNode(r, q)
          PROVE  l.exec = run[r].exec /\ l.pc = "running" /\ Becomes(r, l)
      <4> DEFINE n == q.node
                 m(o) == [run[r] EXCEPT
                 !.data    = Push(DataBefore(r, n), n, "FINISHED", r),
                 !.human   = IF LoopsBack(r, n) THEN NoNode ELSE HumanAfter(r, n),
                 !.waiting = WaitingAfter(r, n, DeliveryEdges(FlowOf(r), n, o)),
                 !.queue   = QueueAfter(r, q, DeliveryEdges(FlowOf(r), n, o)),
                 !.loops   = LoopsAfter(r, n),
                 !.steps   = @ + 1]
      <4>1. PICK o \in Outcomes(FlowOf(r), n) : Becomes(r, m(o))
        BY <3>2 DEF FinishNode
      <4>2. l = m(o)
        BY <3>1, <4>1 DEF Becomes, TypeInv, TypeOK
      <4> QED
        BY <1>1, <4>1, <4>2 DEF RunState
    <3>3. ASSUME StopForHuman(r, q)
          PROVE  l.exec = run[r].exec /\ l.pc = "running" /\ Becomes(r, l)
      <4>1. PICK m : m = [run[r] EXCEPT
                 !.data  = Push(DataBefore(r, q.node), q.node, "STOPPED", r),
                 !.human = HumanAfter(r, q.node),
                 !.queue = {}, !.steps = @ + 1, !.status = "STOPPED"]
        OBVIOUS
      <4>2. Becomes(r, m)
        BY <3>3, <4>1 DEF StopForHuman
      <4>3. l = m
        BY <3>1, <4>2 DEF Becomes, TypeInv, TypeOK
      <4> QED
        BY <1>1, <4>1, <4>2, <4>3 DEF RunState
    <3>4. ASSUME SkipMissingNode(r, q)
          PROVE  l.exec = run[r].exec /\ l.pc = "running" /\ Becomes(r, l)
      BY <1>1, <3>1, <3>4 DEF SkipMissingNode, Becomes, TypeInv, TypeOK, RunState
    <3>5. l.exec = run[r].exec /\ l.pc = "running" /\ Becomes(r, l)
      BY <2>3, <3>2, <3>3, <3>4
    <3> QED
      BY <1>2, <3>5
  <2> QED
    BY <2>1, <2>2, <2>3
<1> QED
  BY <1>3, <1>4, <1>6

LEMMA DisturbLife ==
  ASSUME TypeInv, LifeInv, Disturb
  PROVE  LifeInv' /\ UNCHANGED <<rows, created>>
<1>1. ASSUME NEW r \in Runs, Crash(r) \/ Abort(r)
      PROVE  LifeInv' /\ UNCHANGED <<rows, created>>
  <2>1. /\ run[r] \in RunState /\ Flying(run[r]) /\ UNCHANGED <<rows, created, sharing>>
        /\ Spend("crash") \/ Spend("abort")
    BY <1>1 DEF Crash, Abort, InFlight, Flying, TypeInv, TypeOK
  <2>2. PICK l : l = run'[r]
    OBVIOUS
  <2>3. /\ Becomes(r, l)
        /\ \/ l.pc = "crashed"
           \/ /\ l.pc = run[r].pc /\ l.exec = run[r].exec /\ l.phase = run[r].phase
              /\ l.data = run[r].data /\ l.status = run[r].status /\ l.found = run[r].found
    BY <1>1, <2>1, <2>2 DEF Crash, Abort, Becomes, TypeInv, TypeOK, RunState
  <2>4. Flying(l) /\ l.pc # "looking" => Owns(l, rows[l.exec])
    BY <2>1, <2>3 DEF LifeInv, Owns, Flying
  <2> QED
    BY <2>1, <2>3, <2>4, FlightStep DEF LifeInv
<1>2. ASSUME NEW e \in Exec, DeleteExecution(e) \/ ShareFind(e) PROVE FALSE
  BY <1>2 DEF DeleteExecution, ShareFind, Spend, LifeInv
<1>3. ShareSave => FALSE
  BY DEF ShareSave, LifeInv
<1>4. ASSUME NEW f \in Flows, EditFlow(f) PROVE LifeInv' /\ UNCHANGED <<rows, created>>
  BY <1>4 DEF EditFlow, LifeInv, Spend, TypeInv, TypeOK, Disturbances
<1> QED
  BY <1>1, <1>2, <1>3, <1>4 DEF Disturb
-----------------------------------------------------------------------------
(* Steps seen from the lifecycle.                                          *)

(* A new row is created.                                                   *)
LEMMA CreateMaps ==
  ASSUME TypeInv, LifeInv, NEW r \in Runs, CreateExecution(r)
  PROVE  \E e \in Exec : Lifecycle!Create(e)
<1> DEFINE row == [state |-> "INPROGRESS", data |-> EmptyData]
<1>1. PICK e \in Exec : e = created + 1
  BY BoundsAssumption DEF CreateExecution, TypeInv, TypeOK, Exec
<1>2. /\ rows' = [rows EXCEPT ![e] = row] /\ created' = created + 1
      /\ rows \in [Exec -> Row \cup {NoRow}] /\ created \in Nat
  BY <1>1 DEF CreateExecution, TypeInv, TypeOK
<1>3. row \in Row /\ row.state = "INPROGRESS" /\ ~Has(row.data, "STOPPED")
  BY EmptyIsData DEF Row, ExecutionState, Has, EmptyData
<1> HIDE DEF row
<1>4. row # NoRow /\ rows[e] = NoRow
  BY <1>1, <1>2, <1>3, RowAssumption DEF LifeInv, Exec
<1>5. lifeBar[e] = "NONE"
  <2>1. ~(e <= created)
    BY <1>1, <1>2
  <2> QED
    BY <1>4, <2>1 DEF lifeBar
<1>6. lifeBar' = [lifeBar EXCEPT ![e] = "INPROGRESS"]
  <2>1. \A x \in Exec : x # e => ((x <= created + 1) <=> (x <= created))
    BY <1>1, <1>2 DEF Exec
  <2>2. \A x \in Exec :
          lifeBar'[x] = IF x = e THEN "INPROGRESS" ELSE lifeBar[x]
    BY <1>2, <1>3, <1>4, <2>1 DEF lifeBar
  <2> QED
    BY <2>2 DEF lifeBar
<1>7. UNCHANGED askedBar
  <2>1. \A x \in Exec :
          (rows'[x] # NoRow /\ Has(rows'[x].data, "STOPPED"))
            <=> (rows[x] # NoRow /\ Has(rows[x].data, "STOPPED"))
    BY <1>2, <1>3, <1>4
  <2> QED
    BY <2>1 DEF askedBar
<1> QED
  BY <1>5, <1>6, <1>7 DEF Lifecycle!Create

(* Replacing a row by another changes the life of that execution alone.    *)
LEMMA RowMaps ==
  ASSUME TypeInv, NEW e \in Exec, NEW row \in Row, rows[e] # NoRow,
         rows' = [rows EXCEPT ![e] = row], UNCHANGED created
  PROVE  /\ lifeBar[e] = rows[e].state /\ askedBar[e] = Has(rows[e].data, "STOPPED")
         /\ lifeBar' = [lifeBar EXCEPT ![e] = row.state]
         /\ askedBar' = [askedBar EXCEPT ![e] = Has(row.data, "STOPPED")]
<1>1. rows \in [Exec -> Row \cup {NoRow}] /\ row # NoRow
  BY RowAssumption DEF TypeInv, TypeOK
<1>2. lifeBar[e] = rows[e].state
  BY DEF lifeBar
<1>3. askedBar[e] = Has(rows[e].data, "STOPPED")
  BY DEF askedBar, Has
<1>4. lifeBar' = [lifeBar EXCEPT ![e] = row.state]
  <2>1. \A x \in Exec : lifeBar'[x] = IF x = e THEN row.state ELSE lifeBar[x]
    BY <1>1 DEF lifeBar
  <2> QED
    BY <2>1 DEF lifeBar
<1>5. askedBar' = [askedBar EXCEPT ![e] = Has(row.data, "STOPPED")]
  <2>1. rows'[e] = row /\ \A x \in Exec : x # e => rows'[x] = rows[x]
    BY <1>1
  <2>2. askedBar'[e] = Has(row.data, "STOPPED")
    BY <1>1, <2>1 DEF askedBar, Has
  <2>3. \A x \in Exec : x # e => askedBar'[x] = askedBar[x]
    BY <2>1 DEF askedBar
  <2>4. askedBar' = [x \in Exec |-> askedBar'[x]] /\ askedBar = [x \in Exec |-> askedBar[x]]
    BY DEF askedBar
  <2> QED
    BY <2>2, <2>3, <2>4
<1> QED
  BY <1>2, <1>3, <1>4, <1>5

(* A save resumes the execution, settles it or, the second of a retry,     *)
(* writes what is there.                                                   *)
LEMMA SaveMaps ==
  ASSUME TypeInv, SoundInv, LifeInv, NEW r \in Runs, SaveRow(r)
  PROVE  \/ \E e \in Exec : Lifecycle!Settle(e) \/ Lifecycle!Resume(e)
         \/ UNCHANGED <<lifeBar, askedBar>>
<1>1. PICK e \in Exec, row \in Row : e = run[r].exec /\ row = Merged(r)
  BY DEF TypeInv, TypeOK, HoldsRow, RunState, Row, SaveRow, Merged
<1>2. /\ run[r] \in RunState /\ run[r].pc = "save" /\ SoundRun(run[r])
      /\ Owns(run[r], rows[e]) /\ rows[e] \in Row /\ SoundRow(rows[e])
      /\ rows' = [rows EXCEPT ![e] = row] /\ UNCHANGED created
  BY <1>1 DEF TypeInv, TypeOK, SoundInv, LifeInv, Flying, SaveRow, Owns
<1>3. /\ lifeBar[e] = rows[e].state /\ askedBar[e] = Has(rows[e].data, "STOPPED")
      /\ lifeBar' = [lifeBar EXCEPT ![e] = row.state]
      /\ askedBar' = [askedBar EXCEPT ![e] = Has(row.data, "STOPPED")]
  BY <1>2, RowMaps DEF Owns
<1>4. DOMAIN lifeBar = Exec /\ lifeBar = [x \in Exec |-> lifeBar[x]]
      /\ DOMAIN askedBar = Exec /\ askedBar = [x \in Exec |-> askedBar[x]]
  BY DEF lifeBar, askedBar
<1>5. CASE run[r].phase \in {"retry", "claim"}
  <2>1. row.state = "INPROGRESS" /\ Has(row.data, "STOPPED") /\ Has(rows[e].data, "STOPPED")
        /\ rows[e].state \in {"STOPPED", "ERROR", "INPROGRESS"}
    BY <1>1, <1>2, <1>5 DEF SoundRun, Owns, Merged
  <2>2. Has(row.data, "STOPPED") = askedBar[e]
    BY <1>3, <2>1 DEF Has
  <2>3. UNCHANGED askedBar
    BY <1>3, <1>4, <2>2
  <2>4. CASE rows[e].state \in {"STOPPED", "ERROR"}
    <3>1. askedBar[e]
      BY <1>3, <2>1
    <3> QED
      BY <1>3, <2>1, <2>3, <2>4, <3>1 DEF Lifecycle!Resume
  <2>5. CASE rows[e].state = "INPROGRESS"
    BY <1>3, <1>4, <2>1, <2>3, <2>5
  <2> QED
    BY <2>1, <2>4, <2>5
<1>6. CASE run[r].phase \notin {"retry", "claim"}
  <2>1. row.state = run[r].status /\ row.data = run[r].data
    BY <1>1, <1>6 DEF Merged
  <2>2. rows[e].state = "INPROGRESS" /\ row.state # "INPROGRESS"
    BY <1>2, <1>6, <2>1 DEF Owns
  <2>3. row.state \in Lifecycle!Settled
    BY <1>2, <2>1, <2>2 DEF RunState, ExecutionState, Lifecycle!Settled
  <2>4. /\ row.state = "FINISHED" => ~Has(row.data, "STOPPED")
        /\ row.state = "STOPPED" => Has(row.data, "STOPPED")
    BY <1>2, <2>1 DEF SoundRun, Agrees, Has
  <2>5. PICK q \in BOOLEAN : q = Has(row.data, "STOPPED")
    BY DEF Has
  <2>6. lifeBar[e] = "INPROGRESS"
    BY <1>3, <2>2
  <2>7. askedBar' = [askedBar EXCEPT ![e] = q]
    BY <1>3, <2>5
  <2>8. /\ row.state = "FINISHED" => ~q
        /\ row.state = "STOPPED" => q
    BY <2>4, <2>5
  <2>9. Lifecycle!Settle(e)
    BY <1>3, <2>3, <2>6, <2>7, <2>8 DEF Lifecycle!Settle
  <2> QED
    BY <2>9
<1> QED
  BY <1>5, <1>6

-----------------------------------------------------------------------------
LEMMA LifeInit ==
  ASSUME Init, Budget["delete"] = 0, Budget["share"] = 0
  PROVE  LifeInv /\ Lifecycle!Init
<1>1. \A r \in Runs : run[r].pc = "idle"
  BY DEF Init, IdleRun
<1>2. LifeInv
  BY <1>1 DEF Init, LifeInv, Flying
<1>3. \A e \in Exec : rows[e] = NoRow /\ ~(e <= created)
  BY DEF Init, Exec
<1>4. lifeBar = [e \in Exec |-> "NONE"]
  BY <1>3 DEF lifeBar
<1>5. askedBar = [e \in Exec |-> FALSE]
  BY <1>3 DEF askedBar
<1> QED
  BY <1>2, <1>4, <1>5 DEF Lifecycle!Init

LEMMA LifeStep ==
  ASSUME TypeInv, SoundInv, LifeInv, [Next]_vars, Concurrent = FALSE
  PROVE  LifeInv' /\ [Lifecycle!Next]_(Lifecycle!lifecycleVars)
<1>1. UNCHANGED <<rows, created>> => UNCHANGED <<lifeBar, askedBar>>
  BY DEF lifeBar, askedBar
<1>2. \A r \in Runs : CreateExecution(r) => Lifecycle!Next
  BY CreateMaps DEF Lifecycle!Next
<1>3. \A r \in Runs : SaveRow(r) => Lifecycle!Next \/ UNCHANGED <<lifeBar, askedBar>>
  BY SaveMaps DEF Lifecycle!Next
<1>4. ASSUME NEW r \in Runs, Submit(r) \/ Progress(r)
      PROVE  LifeInv' /\ (Lifecycle!Next \/ UNCHANGED <<lifeBar, askedBar>>)
  <2>1. LifeInv'
    BY <1>4, StartLife, ResumeLife, FindLife, SaveLife, LoopLife DEF Progress
  <2>2. \/ CreateExecution(r) \/ SaveRow(r)
        \/ UNCHANGED <<rows, created>>
    BY <1>4 DEF Submit, Progress, RefuseRequest, ResumeExecution, FindRow, NodeStep, FinishNode,
                StopForHuman, FailNode, AbortNode, SkipMissingNode, ExceedIterations, EndLoop
  <2> QED
    BY <1>1, <1>2, <1>3, <2>1, <2>2
<1>5. ASSUME Disturb PROVE LifeInv' /\ UNCHANGED <<lifeBar, askedBar>>
  BY <1>1, <1>5, DisturbLife
<1>6. ASSUME UNCHANGED vars PROVE LifeInv' /\ UNCHANGED <<lifeBar, askedBar>>
  BY <1>1, <1>6 DEF vars, LifeInv
<1> QED
  BY <1>4, <1>5, <1>6 DEF Next, Lifecycle!lifecycleVars

(* The executor implements the lifecycle as long as requests of a session  *)
(* do not overlap and nothing outside the executor writes its rows:        *)
(* whatever crashes, aborts and edits happen, an execution settles and is  *)
(* resumed as ExecutionLifecycle promises.                                 *)
THEOREM ImplementsLifecycle ==
  ASSUME Concurrent = FALSE, Budget["delete"] = 0, Budget["share"] = 0
  PROVE  Spec => RefinesLifecycle
<1>1. Init => LifeInv /\ Lifecycle!Init
  BY LifeInit
<1>2. TypeInv /\ SoundInv /\ LifeInv /\ [Next]_vars
        => LifeInv' /\ [Lifecycle!Next]_(Lifecycle!lifecycleVars)
  BY LifeStep
<1> QED
  BY <1>1, <1>2, TypeInvariant, RowsSound, PTL DEF Spec, RefinesLifecycle, Lifecycle!Spec
=============================================================================
