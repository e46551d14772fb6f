------------------------- MODULE ScheduleProperties -------------------------
(***************************************************************************)
(* What keeping the jobs "in sync with the ScheduleRecord table" means     *)
(* (schedule/ScheduleBeat.ts).                                             *)
(***************************************************************************)
EXTENDS ScheduleSync

(* The variables have the shape of the tables, maps and locals they stand  *)
(* for; in particular no record and no job carries an expression that does *)
(* not validate.                                                           *)
RequestState ==
  [pc : {"idle", "save", "find", "write", "findGone", "erase", "findToggle", "recheck",
         "status", "toggle", "reread", "apply", "remove", "done"},
   kind : {"none", "create", "update", "delete", "toggle"},
   target : Target, set : Settings, on : BOOLEAN, id : Id \cup {0},
   rec : Record \cup {NoRecord}, seen : Record \cup {NoRecord}]

FireState ==
  [pc : {"idle", "load", "judge", "unregister", "running"}, id : Id \cup {0},
   rec : Record \cup {NoRecord}]

ScheduleTypeOK ==
  /\ flow \in [Target -> Settings \cup {NoFlow}]
  /\ table \in [Id -> Record \cup {NoRecord}]
  /\ made \in 0 .. MaxRecords
  /\ jobs \in [Id -> Cron \cup {NoJob}]
  /\ beat \in [ready : BOOLEAN, skip : Nat, batch : SUBSET [id : Id, cron : Cron]]
  /\ req \in [Request -> RequestState]
  /\ fire \in [Fires -> FireState]
  /\ over \in BOOLEAN
  /\ crashes \in 0 .. MaxCrashes

(* Nothing is under way: the server has started, no request is being       *)
(* served and no fire is between its load and its verdict.                 *)
Quiet ==
  /\ beat.ready
  /\ \A r \in Request : ~Busy(r)
  /\ \A k \in Fires : ~Checking(k)

(* "Responsible for keeping BullMQ repeatable jobs (or in-process timers)  *)
(* in sync with the ScheduleRecord table": when nothing is under way, the  *)
(* records that are enabled have a job with their own expression, and      *)
(* nothing else has one.                                                   *)
InSync ==
  Quiet => \A i \in Id : jobs[i] = IF IsEnabled(i) THEN table[i].cron ELSE NoJob

(* When nothing is under way and the server never died in the middle of a  *)
(* request, a chatflow has one record if its Start node is scheduled and   *)
(* none otherwise; the record carries the settings last saved, and is      *)
(* disabled unless those settings could run (createOrUpdateSchedule,       *)
(* updateChatflow).  A save refused for want of an input mode leaves the   *)
(* flow without the matching record.                                       *)
RecordFollowsFlow ==
  (Quiet /\ crashes = 0) => \A t \in Target :
    LET s == flow[t]
    IN  /\ s = NoFlow \/ ~s.scheduled => RecordsOf(t) = {}
        /\ (s # NoFlow /\ s.scheduled /\ s.input # "unset") =>
             \E i \in Id :
               /\ RecordsOf(t) = {i}
               /\ table[i] = RecordOf(t, s, table[i].enabled)
               /\ table[i].enabled => s.cron # Invalid /\ s.input = "given"

(* A job whose record is gone or disabled does not fire for ever, whatever *)
(* raced to leave it behind: the next fire removes it, unless the record   *)
(* is enabled again (executeScheduleJob, onRecordNotFoundOrDisabled).      *)
GhostJobsVanish ==
  \A i \in Id :
    (jobs[i] # NoJob /\ ~IsEnabled(i)) ~> (jobs[i] = NoJob \/ IsEnabled(i))

(* A schedule whose end date has passed does not stay enabled while its    *)
(* job fires, whatever else is going on (onRecordExpiredOrInvalid).        *)
Overdue(i) == jobs[i] # NoJob /\ IsEnabled(i) /\ table[i].ends /\ over

OverdueGetDisabled == \A i \in Id : Overdue(i) ~> ~Overdue(i)

(* "The beat will skip execution if it detects this fallback expression":  *)
(* no run starts from a record that carries it.                            *)
FallbackNeverRuns ==
  \A k \in Fires : fire[k].pc = "running" => fire[k].rec.cron # Fallback
=============================================================================
