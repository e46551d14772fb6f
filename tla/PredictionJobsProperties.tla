---------------------- MODULE PredictionJobsProperties ----------------------
(***************************************************************************)
(* What predictions and webhook executions promise when the requests of a  *)
(* chat do not overlap, while clients hang up, workers die, flows are      *)
(* aborted and webhook listeners come and go.                              *)
(***************************************************************************)
EXTENDS PredictionJobs, FiniteSets

Succeeded == {r \in Request : job[r].pc = "done"}

(* Every variable has its type; a client of a chat is the request that     *)
(* came last, and only listeners observe.                                  *)
RelayTypeOK ==
  /\ relay.clients \in [Server -> [ClientId -> Conn \cup {NoConn}]]
  /\ relay.observers \in [Server -> [Chat -> SUBSET Listener]]
  /\ relay.line \in [Conn -> {"none", "open", "gone", "ended"}]
  /\ subscribed \in [Server -> SUBSET Chat]
  /\ pool \in [Server \cup Worker -> [Chat -> Request \cup {NoJob}]]
  /\ usage \in Int
  /\ \A s \in Server, c \in Chat :
       relay.clients[s][c] # NoConn =>
         LET r == relay.clients[s][c]
         IN  r \in Request /\ Busy(r) /\ ServerOf(r) = s /\ ChatOf(r) = c

(* The events of a job shown by a response whose log was log.              *)
Shown(log, j) == {x \in log : x.what = "event" /\ x.job = j}

Later(e, x) == e.try > x.try \/ (e.try = x.try /\ e.n > x.n)

(* The only request of its chat.  (A chat is reused only by a caller that  *)
(* names it, webhook 64, predictions 67.)                                  *)
AloneInChat(r) == \A q \in Request : q # r => ChatOf(q) # ChatOf(r)

(* Of the events of its own job, the response to r has missed none before  *)
(* e since the first that it showed, and a prediction shows the first: the *)
(* handler subscribes before it enqueues the job (predictions 77-80).      *)
NoneMissed(e, r, log) ==
  IF Shown(log, r) = {} THEN req[r].kind = "predict" => e.n = 1
  ELSE \A x \in Shown(log, r) : e.n = IF e.try = x.try THEN x.n + 1 ELSE 1

(* A response shows the events of a job in their order, those of a retry   *)
(* after the first attempt; and the response to a request that is alone in *)
(* its chat shows none after a gap: when it shows an event, it has shown   *)
(* the one before it.  What it may still miss is the end (the response is  *)
(* ended when the queue reports the job, whatever its events are worth),   *)
(* and that to a webhook the start, before its server is subscribed.       *)
(* (With two requests of a chat, events of the first may reach a listener  *)
(* that the second bound, and an unsubscription of the cleanup may meet    *)
(* the second one.)                                                        *)
StreamInOrder ==
  [][\A k \in Conn : \A e \in relay'.log[k] \ relay.log[k] :
       e.what = "event" =>
         /\ \A x \in Shown(relay.log[k], e.job) : Later(e, x)
         /\ e.job = k /\ AloneInChat(k) => NoneMissed(e, k, relay.log[k])]_vars

(* The handlers and the relay implement the stream of a response: before   *)
(* an event it shows, the response to a prediction that is alone in its    *)
(* chat has left out no event of its job, that to a webhook only those     *)
(* before the first shown.                                                 *)
lineBar == [r \in Request |-> relay.line[r]]

shownBar == [r \in Request |-> {<<x.try, x.n>> : x \in Shown(relay.log[r], r)}]

missesBar ==
  [r \in Request |-> IF ~AloneInChat(r) THEN {"start", "middle"}
                     ELSE IF req[r].kind = "predict" THEN {} ELSE {"start"}]

Stream == INSTANCE ResponseStream WITH
            Response <- Request, line <- lineBar, shown <- shownBar, misses <- missesBar

(* A response opens, shows its events in order and without gaps up to the  *)
(* last one shown, and closes, each once, however workers, Redis and other *)
(* requests interleave.                                                    *)
RefinesStream == Stream!Spec

(* Nothing is written to a response after its end: the note of the end is  *)
(* still the last thing noted about its chat.                              *)
NothingAfterEnd ==
  \A r \in Request :
    relay.line[r] = "ended" <=> Note("end", ChatOf(r)) \in relay.log[r]

(* A listener on the server of a finished request that is alone in its     *)
(* chat was told that it is over after the last event it was shown.        *)
ListenersTold ==
  \A r \in Request, l \in Listener :
    /\ At(r, "done") /\ listener[l].pc = "open" /\ listener[l].server = ServerOf(r)
    /\ AloneInChat(r) /\ \E e \in relay.log[l] : e.chat = ChatOf(r)
    => Note("executionEnd", ChatOf(r)) \in relay.log[l]

(* A flow that runs can be aborted: the controller under the id of its     *)
(* chat is its own.                                                        *)
RunningIsAbortable ==
  \A r \in Request : job[r].pc = "active" /\ ~job[r].aborted =>
    pool[job[r].at][ChatOf(r)] = r

(* A request is refused only when that many predictions were made, and the *)
(* count never runs ahead of them.                                         *)
QuotaNeverEarly ==
  /\ usage =< Cardinality(Succeeded)
  /\ \A r \in Request : req[r].refused => limit # -1 /\ limit =< Cardinality(Succeeded)

(* Every request is answered, whatever its job and its worker go through,  *)
(* and a streaming response is ended.                                      *)
Answered ==
  \A r \in Request :
    Busy(r) ~> At(r, "done") /\ relay.line[r] # "open"

(* When nobody is there any more, no server stays subscribed to a chat.    *)
(* A listener that left unnoticed counts as there: it remains a client and *)
(* an observer for good, and its server subscribed to the chats it is      *)
(* bound to.                                                               *)
Deserted ==
  /\ \A r \in Request : ~Busy(r)
  /\ \A l \in Listener : listener[l].pc \in {"idle", "closed"}
ChannelsReleased ==
  Deserted ~> ~Deserted \/ \A s \in Server : subscribed[s] = {}
=============================================================================
