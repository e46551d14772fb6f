----------------------- MODULE RateLimiterProperties -----------------------
(***************************************************************************)
(* What the limiters of a flow on several servers promise.                 *)
(***************************************************************************)
EXTENDS RateLimiter

(* Every variable has its type, and only a server that is up has a limiter.*)
RateLimiterTypeOK ==
  /\ apiConfig \in RateLimit
  /\ limiter \in [Server -> Limit \cup {NoLimit, NoLimiter}]
  /\ events \in [Server -> Seq(Limit \cup {NoLimit})]
  /\ heard \subseteq Server
  /\ \A s \in Server : ~Up(s) => limiter[s] = NoLimiter /\ s \notin heard
  /\ mode = "main" => heard = {} /\ Cardinality({s \in Server : server[s].pc # "down"}) =< 1

(* Servers that have handled every event, and at least one, enforce the    *)
(* same limit, in whatever order saves, starts and failures went: in queue *)
(* mode a limiter is changed by events only (160, 184).                    *)
ServersAgree ==
  \A s, t \in heard : events[s] = <<>> /\ events[t] = <<>> => limiter[s] = limiter[t]

(* When nothing is under way, a server that is up enforces what is stored, *)
(* unless saves overlapped, failed, or had no limits, or a server started  *)
(* during one.  So switching a limiter off in main mode removes it, and    *)
(* every server enforces a changed one.                                    *)
Stored ==
  IF apiConfig # NoRateLimit /\ apiConfig.status /\ apiConfig.limit # NoLimit
  THEN apiConfig.limit ELSE NoLimiter
StoredIsEnforced ==
  Saving = {} /\ drift = {} =>
    \A s \in Server : Up(s) /\ events[s] = <<>> => limiter[s] = Stored
=============================================================================
