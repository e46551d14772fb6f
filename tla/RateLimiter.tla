---------------------------- MODULE RateLimiter ----------------------------
(***************************************************************************)
(* The rate limiter of a flow.  Each server keeps one in memory: it is set *)
(* from the stored flows when the server starts, and changed while a flow  *)
(* is being saved, in main mode in the server itself, in queue mode by an  *)
(* event that every server handles.                                        *)
(*                                                                         *)
(* Limiters of different flows are independent: the module has one flow.   *)
(* Left out: the counters of a limiter, which express-rate-limit keeps;    *)
(* and the creation of a flow with a rate limit, which sets no limiter: it *)
(* is not enforced before a server starts or the flow is saved again.      *)
(***************************************************************************)
EXTENDS Naturals, Sequences, FiniteSets

CONSTANTS
  Server, Request,
  Limit,         \* what a user can set: maximum, duration and message
  NoLimit,       \* the fields are not filled in
  NoLimiter,     \* there is no limiter
  NoRateLimit,   \* apiConfig says nothing of rate limits
  MaxStarts, MaxFailures   \* bounds

ASSUME LimiterValues ==
  /\ NoLimit \notin Limit /\ NoLimiter \notin Limit \cup {NoLimit}
  /\ {MaxStarts, MaxFailures} \subseteq Nat

RateLimit == [status : BOOLEAN, limit : Limit \cup {NoLimit}] \cup {NoRateLimit}

VARIABLES
  mode,
  apiConfig,     \* the stored rateLimit of the flow
  limiter,       \* server -> its limiter, NoLimit when it has empty fields
  server,        \* server -> what it does, and the flow it read
  events,        \* server -> events it has not received
  save,          \* requests that save the flow
  starts, failures,
  heard,         \* history: servers that handled an event since they are ready
  drift          \* history: what may have parted limiters and apiConfig

vars == <<mode, apiConfig, limiter, server, events, save, starts, failures, heard, drift>>

Init ==
  /\ mode \in {"main", "queue"}
  /\ apiConfig \in RateLimit
  /\ limiter = [s \in Server |-> NoLimiter]
  /\ server = [s \in Server |-> [pc |-> "down", read |-> NoRateLimit]]
  /\ events = [s \in Server |-> <<>>]
  /\ save = [r \in Request |-> [pc |-> "idle", by |-> {}, sent |-> FALSE, body |-> NoRateLimit]]
  /\ starts = 0 /\ failures = 0
  /\ heard = {} /\ drift = {}

Up(s) == server[s].pc = "ready"
Saving == {r \in Request : save[r].pc \in {"read", "update"}}
Starting == {s \in Server : server[s].pc \notin {"down", "ready"}}

(* Mutant: a limiter that was switched off stays.                          *)
UpdatedKept(old, body) ==
  IF body = NoRateLimit \/ ~body.status \/ body.limit = NoLimit THEN old ELSE body.limit

(* updateRateLimiter, in the server itself: switched off, set, or left as  *)
(* it is.                                                                  *)
Updated(old, body) ==
  IF body = NoRateLimit THEN old
  ELSE IF ~body.status THEN NoLimiter
  ELSE IF body.limit = NoLimit THEN old ELSE body.limit

-----------------------------------------------------------------------------
(* A server starts: it listens to events, reads the flows, sets their      *)
(* limiters and attaches the handler of events.                            *)

Start(s) ==
  /\ server[s].pc = "down" /\ starts < MaxStarts
  /\ mode = "main" => \A t \in Server : server[t].pc = "down"
  /\ server' = [server EXCEPT ![s].pc = "starting"]
  /\ starts' = starts + 1
  /\ drift' = IF Saving = {} THEN drift ELSE drift \cup {"start"}
  /\ UNCHANGED <<mode, apiConfig, limiter, events, save, failures, heard>>

ReadFlows(s) ==
  /\ server[s].pc = "starting"
  /\ server' = [server EXCEPT ![s] = [pc |-> "loading", read |-> apiConfig]]
  /\ UNCHANGED <<mode, apiConfig, limiter, events, save, starts, failures, heard, drift>>

InitializeRateLimiters(s) ==
  /\ server[s].pc = "loading"
  /\ limiter' = [limiter EXCEPT ![s] = Updated(NoLimiter, server[s].read)]
  /\ server' = [server EXCEPT ![s] = [pc |-> "ready", read |-> NoRateLimit]]
  /\ UNCHANGED <<mode, apiConfig, events, save, starts, failures, heard, drift>>

Stop(s) ==
  /\ server[s].pc # "down"
  /\ server' = [server EXCEPT ![s] = [pc |-> "down", read |-> NoRateLimit]]
  /\ limiter' = [limiter EXCEPT ![s] = NoLimiter]
  /\ events' = [events EXCEPT ![s] = <<>>]
  /\ heard' = heard \ {s}
  /\ save' = [r \in Request |->
                IF r \in Saving /\ save[r].by = {s} THEN [save[r] EXCEPT !.pc = "done"]
                ELSE save[r]]
  /\ drift' = IF \E r \in Saving : save[r].by = {s} THEN drift \cup {"failed"} ELSE drift
  /\ UNCHANGED <<mode, apiConfig, starts, failures>>

(* Mutant: the handler is attached before the limiters are initialised.    *)
HandlesAtOnce(s) == server[s].pc # "down"

(* The handler is attached last.                                           *)
Handles(s) == Up(s)

(* An event that arrives before there is a handler is lost.                *)
Receive(s) ==
  /\ events[s] # <<>>
  /\ events' = [events EXCEPT ![s] = Tail(@)]
  /\ IF Handles(s)
     THEN /\ limiter' = [limiter EXCEPT ![s] = Head(events[s])]
          /\ heard' = heard \cup {s}
     ELSE UNCHANGED <<limiter, heard>>
  /\ UNCHANGED <<mode, apiConfig, server, save, starts, failures, drift>>

-----------------------------------------------------------------------------
(* A save reads the flow, changes the limiters and stores the flow.        *)

(* Mutant: the server that saves applies the change, and tells the others. *)
EventsAfterOthers(s, limit) ==
  [t \in Server |-> IF server[t].pc = "down" \/ s = t THEN events[t]
                    ELSE Append(events[t], limit)]

(* The event has no status; without fields it makes a limiter without them.*)
EventsAfter(s, limit) ==
  [t \in Server |-> IF server[t].pc = "down" THEN events[t] ELSE Append(events[t], limit)]

(* What parts the limiters from the stored flow: another save or a start   *)
(* at the same time, and settings without limits: an event cannot switch a *)
(* limiter off, and a server leaves its limiter as it is.                  *)
Drifts(sent, body) ==
  {why \in {"overlap", "start", "fields"} :
     \/ why = "overlap" /\ Saving # {}
     \/ why = "start" /\ Starting # {}
     \/ /\ why = "fields" /\ sent
        /\ IF body = NoRateLimit THEN TRUE
           ELSE IF mode = "queue" THEN ~body.status \/ body.limit = NoLimit
           ELSE body.status /\ body.limit = NoLimit}

(* The body of the request is merged into the flow as it is read now:      *)
(* without an apiConfig of its own (sent = FALSE) it stores this one again.*)
ReadChatflow(r, s, sent, body) ==
  /\ save[r].pc = "idle" /\ Up(s)
  /\ save' = [save EXCEPT ![r] = [pc |-> "read", by |-> {s}, sent |-> sent,
                                  body |-> IF sent THEN body ELSE apiConfig]]
  /\ drift' = drift \cup Drifts(sent, body)
  /\ UNCHANGED <<mode, apiConfig, limiter, server, events, starts, failures, heard>>

(* What the body says of rate limits.                                      *)
Sent(r) == IF save[r].sent THEN save[r].body ELSE NoRateLimit

UpdateRateLimiter(r, s) ==
  /\ save[r].pc = "read" /\ save[r].by = {s}
  /\ save' = [save EXCEPT ![r].pc = "update"]
  /\ IF mode = "queue"
     THEN /\ events' = IF Sent(r) = NoRateLimit THEN events ELSE EventsAfter(s, Sent(r).limit)
          /\ UNCHANGED limiter
     ELSE limiter' = [limiter EXCEPT ![s] = Updated(@, Sent(r))] /\ UNCHANGED events
  /\ UNCHANGED <<mode, apiConfig, server, starts, failures, heard, drift>>

UpdateChatflow(r) ==
  /\ save[r].pc = "update"
  /\ save' = [save EXCEPT ![r].pc = "done"]
  /\ \/ /\ apiConfig' = save[r].body
        /\ UNCHANGED <<failures, drift>>
     \/ /\ failures < MaxFailures /\ failures' = failures + 1
        /\ drift' = drift \cup {"failed"}
        /\ UNCHANGED apiConfig
  /\ UNCHANGED <<mode, limiter, server, events, starts, heard>>

-----------------------------------------------------------------------------
Next ==
  \/ \E s \in Server :
       \/ Start(s) \/ ReadFlows(s) \/ InitializeRateLimiters(s) \/ Stop(s) \/ Receive(s)
       \/ \E r \in Request :
            \/ UpdateRateLimiter(r, s)
            \/ \E sent \in BOOLEAN, body \in RateLimit : ReadChatflow(r, s, sent, body)
  \/ \E r \in Request : UpdateChatflow(r)

Spec == Init /\ [][Next]_vars
=============================================================================
