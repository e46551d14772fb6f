------------------------- MODULE ExecutionLifecycle -------------------------
(***************************************************************************)
(* What an Execution row promises whoever reads it (Interface.ts,          *)
(* ExecutionState): an execution is in progress until it settles; FINISHED *)
(* and TERMINATED are final; only an execution that has put a question to  *)
(* a human and is STOPPED, or failed while it was being resumed, is taken  *)
(* up again.  AgentflowExecutor implements this.                           *)
(***************************************************************************)
CONSTANT Exec            \* execution ids

VARIABLES
  life,    \* the state column, NONE before the row exists, DELETED after
  asked    \* does the executed data hold an unanswered question?

lifecycleVars == <<life, asked>>

Settled == {"FINISHED", "STOPPED", "ERROR", "TERMINATED"}

Init ==
  /\ life = [e \in Exec |-> "NONE"]
  /\ asked = [e \in Exec |-> FALSE]

Create(e) ==
  /\ life[e] = "NONE"
  /\ life' = [life EXCEPT ![e] = "INPROGRESS"]
  /\ UNCHANGED asked

Settle(e) ==
  /\ life[e] = "INPROGRESS"
  /\ \E s \in Settled, q \in BOOLEAN :
       /\ s = "FINISHED" => ~q
       /\ s = "STOPPED" => q
       /\ life' = [life EXCEPT ![e] = s]
       /\ asked' = [asked EXCEPT ![e] = q]

Resume(e) ==
  /\ life[e] \in {"STOPPED", "ERROR"} /\ asked[e]
  /\ life' = [life EXCEPT ![e] = "INPROGRESS"]
  /\ UNCHANGED asked

Delete(e) ==
  /\ life[e] \in Settled \cup {"INPROGRESS"}
  /\ life' = [life EXCEPT ![e] = "DELETED"]
  /\ asked' = [asked EXCEPT ![e] = FALSE]

Next == \E e \in Exec : Create(e) \/ Settle(e) \/ Resume(e) \/ Delete(e)

Spec == Init /\ [][Next]_lifecycleVars
=============================================================================
