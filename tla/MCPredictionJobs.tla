-------------------------- MODULE MCPredictionJobs --------------------------
(* Instances of predictions and their relay for TLC.                       *)
EXTENDS PredictionJobsProperties

CONSTANTS s1, s2, c1, c2

(* Servers and chats are interchangeable: the first request is for chat c1 *)
(* of server s1.                                                           *)
Calls(first, second, servers, chats) ==
  ({1} \X first \X {s1} \X {c1}) \cup ({2} \X second \X servers \X chats)

MCSetups ==
  { \* one server, with requests that run at the same time
    [mode |-> "main", limit |-> 1, faults |-> 1,
     calls |-> Calls({"predict", "hook"}, {"predict", "hookStream"}, {s1}, {c1, c2})],
    [mode |-> "main", limit |-> -1, faults |-> 0,
     calls |-> Calls({"predict"}, {"predict"}, {s1}, {c2})],
    \* two servers and a worker, two requests of a chat
    [mode |-> "queue", limit |-> -1, faults |-> 0,
     calls |-> Calls({"predict", "hook"}, {"predict", "hookStream"}, {s1, s2}, {c1})],
    \* what can happen to one
    [mode |-> "queue", limit |-> -1, faults |-> 1, calls |-> Calls(Kinds, {}, {}, {})],
    [mode |-> "queue", limit |-> 0, faults |-> 1,
     calls |-> Calls(Kinds, {}, {}, {})] }
=============================================================================
