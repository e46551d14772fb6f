--------------------------- MODULE ResponseStream ---------------------------
(***************************************************************************)
(* What a streaming endpoint promises its caller: a response opens once,   *)
(* shows the events of its execution in their order, those of a retry      *)
(* after those of the attempt before, and is ended once, or left by its    *)
(* caller; it shows nothing before it opens or after either.               *)
(* What it may leave out before an event that it shows is known when it    *)
(* opens, and becomes more only (when another request names its chat);     *)
(* that it shows the last events of the execution is not promised.         *)
(* PredictionJobs implements this.                                         *)
(***************************************************************************)
EXTENDS Naturals

CONSTANT Response

VARIABLES
  line,    \* response -> "none", "open", "gone" or "ended"
  shown,   \* response -> {} or {<<try, n>>}, the last event it shows
  misses   \* response -> what it may leave out: "start", "middle" of a try

streamVars == <<line, shown, misses>>

States ==
  /\ line \in [Response -> {"none", "open", "gone", "ended"}]
  /\ shown \in [Response -> SUBSET (Nat \X Nat)]
  /\ misses \in [Response -> SUBSET {"start", "middle"}]

Init ==
  /\ States
  /\ \A r \in Response : line[r] = "none" /\ shown[r] = {}

(* The event n of the attempt try is later than the last one shown, and    *)
(* the next one unless some may be left out.                               *)
Follows(r, try, n) ==
  /\ shown[r] = {} => n = 1 \/ "start" \in misses[r]
  /\ \A x \in shown[r] :
       IF try = x[1] THEN n > x[2] /\ (n = x[2] + 1 \/ "middle" \in misses[r])
       ELSE try > x[1] /\ (n = 1 \/ "middle" \in misses[r])

Awaits(r) == line[r] = "none" /\ line'[r] = "none" /\ shown'[r] = {}

Opens(r) == line[r] = "none" /\ line'[r] = "open" /\ shown'[r] = {}

Rests(r) ==
  line'[r] = line[r] /\ shown'[r] = shown[r] /\ misses[r] \subseteq misses'[r]

Shows(r) ==
  /\ line[r] = "open" /\ line'[r] = "open" /\ misses[r] \subseteq misses'[r]
  /\ \E x \in shown'[r] : shown'[r] = {x} /\ Follows(r, x[1], x[2])

Closes(r) ==
  /\ line[r] = "open" /\ line'[r] \in {"gone", "ended"}
  /\ shown'[r] = shown[r] /\ misses[r] \subseteq misses'[r]

Next ==
  /\ States'
  /\ \A r \in Response : Awaits(r) \/ Opens(r) \/ Rests(r) \/ Shows(r) \/ Closes(r)

Spec == Init /\ [][Next]_streamVars
=============================================================================
