----------------------------- MODULE MCSchedule -----------------------------
(* Settings for model checking scheduled agentflows.                       *)
EXTENDS ScheduleProperties

Sched(cron, input, ends) ==
  [scheduled |-> TRUE, cron |-> cron, input |-> input, ends |-> ends]

Chat == [scheduled |-> FALSE, cron |-> "daily", input |-> "given", ends |-> FALSE]

(* Two good schedules, one of them with an end date, one that cannot be    *)
(* parsed, one without input, one without input mode, and none.            *)
AllSettings ==
  {Sched("daily", "given", FALSE), Sched("hourly", "given", TRUE),
   Sched(Invalid, "given", FALSE), Sched("daily", "empty", FALSE),
   Sched("hourly", "unset", FALSE), Chat}

FewSettings == {Sched("daily", "given", FALSE), Sched("hourly", "given", TRUE), Chat}

FallbackSettings == {Sched("daily", "given", FALSE), Sched(Invalid, "given", FALSE)}
=============================================================================
