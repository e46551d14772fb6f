---------------------------- MODULE ScheduleSync ----------------------------
(***************************************************************************)
(* Scheduled agentflows: the ScheduleRecord table, the jobs registered for *)
(* it (node-cron tasks in the server process, or BullMQ job schedulers in  *)
(* queue mode), and everything that changes either of them: saves of a     *)
(* chatflow, its deletion, the enable switch, firing jobs and the server's *)
(* start.                                                                  *)
(*                                                                         *)
(* Each database or queue call is a step.  A record is read, changed in    *)
(* memory and saved whole; a save of a record that was deleted meanwhile   *)
(* inserts it again.                                                       *)
(*                                                                         *)
(* Left out: the trigger logs and lastRunAt/nextRunAt, which are written   *)
(* by a run and never decide about a job; a fire that comes before         *)
(* nextRunAt is one that may be skipped.  The input mode is 'text'.        *)
(***************************************************************************)
EXTENDS Naturals, FiniteSets

CONSTANTS
  Target,       \* chatflow ids
  UserCron,     \* valid cron expressions a user enters
  Fallback,     \* FALLBACK_CRON_EXPRESSION
  Invalid,      \* a cron expression that does not validate
  NoJob, NoFlow, NoRecord,
  Settings,     \* the Start-node settings users save
  QueueMode,    \* MODE = queue
  Overlap,      \* may requests and the checks of a fire overlap?
  MaxRequests,  \* bound: requests
  MaxRecords,   \* bound: records ever inserted
  Fires,        \* slots for firing jobs
  BatchSize,    \* SCHEDULE_BATCH_SIZE (100)
  MaxCrashes    \* bound: crashes of the server

Cron == UserCron \cup {Fallback}
Setting == [scheduled : BOOLEAN, cron : UserCron \cup {Invalid},
            input : {"given", "empty", "unset"}, ends : BOOLEAN]
Record == [target : Target, cron : Cron, input : BOOLEAN, ends : BOOLEAN, enabled : BOOLEAN]
Id == 1 .. MaxRecords
Request == 1 .. MaxRequests

ASSUME SettingsAssumption == Settings \subseteq Setting /\ Settings # {} /\ Target # {}
ASSUME ScheduleBounds == /\ {MaxRequests, MaxRecords, MaxCrashes} \subseteq Nat
                         /\ BatchSize \in Nat \ {0}
ASSUME ModeAssumption == QueueMode \in BOOLEAN /\ Overlap \in BOOLEAN
ASSUME DistinctAssumption ==
  NoJob \notin Cron /\ NoFlow \notin Setting /\ NoRecord \notin Record /\ Invalid \notin Cron

VARIABLES
  flow,      \* chatflow id -> the settings of its Start node
  table,     \* the ScheduleRecord table
  made,      \* records inserted so far (ids follow createdDate)
  jobs,      \* record id -> the expression its job is registered with
  beat,      \* ScheduleBeat.init: how far _syncAllJobs has come
  req,       \* requests
  fire,      \* fires of jobs
  over,      \* has the end date passed?
  crashes

vars == <<flow, table, made, jobs, beat, req, fire, over, crashes>>

Starting == [ready |-> FALSE, skip |-> 0, batch |-> {}]

NewRequest == [pc |-> "idle", kind |-> "none", target |-> CHOOSE t \in Target : TRUE,
               set |-> CHOOSE s \in Settings : TRUE, on |-> FALSE, id |-> 0, rec |-> NoRecord,
               seen |-> NoRecord]

NoFire == [pc |-> "idle", id |-> 0, rec |-> NoRecord]

Init ==
  /\ flow = [t \in Target |-> NoFlow]
  /\ table = [i \in Id |-> NoRecord]
  /\ made = 0
  /\ jobs = [i \in Id |-> NoJob]
  /\ beat = Starting
  /\ req = [r \in Request |-> NewRequest]
  /\ fire = [k \in Fires |-> NoFire]
  /\ over = FALSE
  /\ crashes = 0

-----------------------------------------------------------------------------
(* Settings and records.                                                   *)

(* canScheduleEnable.                                                      *)
CanEnable(s) == s.cron # Invalid /\ s.input = "given" /\ ~(s.ends /\ over)

(* Mutant: an invalid expression is stored as it is.                       *)
StoredCronRaw(s) == s.cron

(* A cron expression that does not validate is replaced by the fallback.   *)
StoredCron(s) == IF s.cron = Invalid THEN Fallback ELSE s.cron

RecordOf(t, s, enabled) ==
  [target |-> t, cron |-> StoredCron(s), input |-> s.input = "given",
   ends |-> s.ends, enabled |-> enabled]

(* getScheduleStatus validates the live flow; what its inputs leave open,  *)
(* the end date and the input mode, it takes from the record rec.          *)
Verdicts(t, rec) ==
  LET s    == flow[t]
      ends == s.ends \/ (rec # NoRecord /\ rec.ends)
  IN  IF s = NoFlow THEN {FALSE}
      ELSE IF ~s.scheduled \/ s.cron = Invalid \/ (ends /\ over) THEN {FALSE}
      ELSE CASE s.input = "given" -> {TRUE}
             [] s.input = "unset" /\ rec # NoRecord -> BOOLEAN
             [] OTHER -> {FALSE}

RecordsOf(t) == {i \in Id : table[i] # NoRecord /\ table[i].target = t}

IsEnabled(i) == table[i] # NoRecord /\ table[i].enabled

(* Mutant: the end date is not checked.                                    *)
LapsedInput(rec) == ~rec.input

(* The end date has passed, or the input is missing.                       *)
Lapsed(rec) == (rec.ends /\ over) \/ ~rec.input

-----------------------------------------------------------------------------
(* Requests: they are served once the server has started.                  *)

Busy(r) == req[r].pc \notin {"idle", "done"}
Checking(k) == fire[k].pc \notin {"idle", "running"}

Undisturbed == Overlap \/ ~((\E r \in Request : Busy(r)) \/ (\E k \in Fires : Checking(k)))

Begins(r) ==
  /\ beat.ready /\ Undisturbed
  /\ req[r].pc = "idle" /\ \A q \in Request : q < r => req[q].pc # "idle"

Becomes(r, locals) == req' = [req EXCEPT ![r] = locals]
At(r, pc) == req[r].pc = pc
Goto(r, pc) == Becomes(r, [req[r] EXCEPT !.pc = pc])

(* A chatflow is created, under an id of its own, or loaded for an update. *)
BeginSave(r, t, s) ==
  /\ Begins(r)
  /\ flow[t] = NoFlow => \A q \in Request : req[q].target # t \/ req[q].kind # "create"
  /\ Becomes(r, [req[r] EXCEPT !.pc = "save", !.target = t, !.set = s,
                               !.kind = IF flow[t] = NoFlow THEN "create" ELSE "update"])
  /\ UNCHANGED <<flow, table, made, jobs, beat, fire, over, crashes>>

(* The chatflow row is saved.  A schedule without an input mode is refused *)
(* after that; a flow that is no longer scheduled gives up its record.     *)
SaveFlow(r) ==
  /\ At(r, "save")
  /\ LET t == req[r].target
         s == req[r].set
     IN  /\ flow' = [flow EXCEPT ![t] = s]
         /\ Goto(r, IF s.scheduled THEN IF s.input = "unset" THEN "done" ELSE "find"
                    ELSE IF req[r].kind = "create" THEN "done" ELSE "findGone")
  /\ UNCHANGED <<table, made, jobs, beat, fire, over, crashes>>

(* The record of the chatflow a findOne returns: some record, or none.     *)
Found(r, i) ==
  \/ i \in RecordsOf(req[r].target)
  \/ i = 0 /\ RecordsOf(req[r].target) = {}

Take(r, i, pc) ==
  Becomes(r, [req[r] EXCEPT !.pc = pc, !.id = i,
                            !.rec = IF i = 0 THEN NoRecord ELSE table[i]])

FindRecord(r) ==
  /\ At(r, "find")
  /\ \E i \in Id \cup {0} : Found(r, i) /\ Take(r, i, "write")
  /\ UNCHANGED <<flow, table, made, jobs, beat, fire, over, crashes>>

(* Mutant: a record keeps its switch whatever the new settings.            *)
SwitchKept(r) == IF req[r].id = 0 THEN CanEnable(req[r].set) ELSE req[r].rec.enabled

(* A new record is enabled when it can be; an update disables a record     *)
(* that can no longer run and otherwise keeps its switch.                  *)
Switch(r) ==
  IF req[r].id = 0 THEN CanEnable(req[r].set)
  ELSE IF ~CanEnable(req[r].set) THEN FALSE ELSE req[r].rec.enabled

(* Mutant: a disabled record leaves its job alone.                         *)
NextOfSaveLazy(r) == IF Switch(r) THEN "reread" ELSE "done"

NextOfSave(r) ==
  IF Switch(r) THEN "reread"
  ELSE IF req[r].kind = "create" THEN "done" ELSE "remove"

(* createOrUpdateSchedule saves, and the beat is told.                     *)
WriteRecord(r) ==
  /\ At(r, "write")
  /\ LET fresh == req[r].id = 0
         i == IF fresh THEN made + 1 ELSE req[r].id
     IN  /\ i <= MaxRecords
         /\ made' = IF fresh THEN made + 1 ELSE made
         /\ table' = [table EXCEPT ![i] = RecordOf(req[r].target, req[r].set, Switch(r))]
         /\ Becomes(r, [req[r] EXCEPT !.pc = NextOfSave(r), !.id = i])
  /\ UNCHANGED <<flow, jobs, beat, fire, over, crashes>>

DeleteFlow(r, t) ==
  /\ Begins(r)
  /\ flow[t] # NoFlow
  /\ flow' = [flow EXCEPT ![t] = NoFlow]
  /\ Becomes(r, [req[r] EXCEPT !.pc = "findGone", !.kind = "delete", !.target = t])
  /\ UNCHANGED <<table, made, jobs, beat, fire, over, crashes>>

(* deleteScheduleForTarget.                                                *)
FindGone(r) ==
  /\ At(r, "findGone")
  /\ \E i \in Id \cup {0} : Found(r, i) /\ Take(r, i, IF i = 0 THEN "done" ELSE "erase")
  /\ UNCHANGED <<flow, table, made, jobs, beat, fire, over, crashes>>

EraseRecord(r) ==
  /\ At(r, "erase")
  /\ table' = [table EXCEPT ![req[r].id] = NoRecord]
  /\ Goto(r, "remove")
  /\ UNCHANGED <<flow, made, jobs, beat, fire, over, crashes>>

(* toggleScheduleEnabled: find the record, judge the flow when the switch  *)
(* goes on, save the record first found, tell the beat.                    *)
BeginToggle(r, t, on) ==
  /\ Begins(r)
  /\ Becomes(r, [req[r] EXCEPT !.pc = "findToggle", !.kind = "toggle", !.target = t, !.on = on])
  /\ UNCHANGED <<flow, table, made, jobs, beat, fire, over, crashes>>

FindToggle(r) ==
  /\ At(r, "findToggle")
  /\ \E i \in Id \cup {0} :
       /\ Found(r, i)
       /\ Take(r, i, IF i = 0 THEN "done" ELSE IF req[r].on THEN "recheck" ELSE "toggle")
  /\ UNCHANGED <<flow, table, made, jobs, beat, fire, over, crashes>>

(* getScheduleStatus finds the record once more, and then the chatflow.    *)
FindStatus(r) ==
  /\ At(r, "recheck")
  /\ \E i \in Id \cup {0} :
       /\ Found(r, i)
       /\ Becomes(r, [req[r] EXCEPT !.pc = "status",
                                    !.seen = IF i = 0 THEN NoRecord ELSE table[i]])
  /\ UNCHANGED <<flow, table, made, jobs, beat, fire, over, crashes>>

JudgeToggle(r) ==
  /\ At(r, "status")
  /\ \E can \in Verdicts(req[r].target, req[r].seen) : Goto(r, IF can THEN "toggle" ELSE "done")
  /\ UNCHANGED <<flow, table, made, jobs, beat, fire, over, crashes>>

WriteToggle(r) ==
  /\ At(r, "toggle")
  /\ table' = [table EXCEPT ![req[r].id] = [req[r].rec EXCEPT !.enabled = req[r].on]]
  /\ Goto(r, IF req[r].on THEN "reread" ELSE "remove")
  /\ UNCHANGED <<flow, made, jobs, beat, fire, over, crashes>>

(* onScheduleChanged: 'delete' removes the job, 'upsert' reads the record  *)
(* again and registers or removes accordingly.                             *)
Reread(r) ==
  /\ At(r, "reread")
  /\ Take(r, req[r].id, "apply")
  /\ UNCHANGED <<flow, table, made, jobs, beat, fire, over, crashes>>

(* _upsertCronJob stops the task there was, and skips an expression that   *)
(* cron.validate refuses.                                                  *)
Registered(cron) == IF cron \in Cron THEN cron ELSE NoJob

ApplyUpsert(r) ==
  /\ At(r, "apply")
  /\ LET rec == req[r].rec
     IN  jobs' = [jobs EXCEPT ![req[r].id] =
                    IF rec # NoRecord /\ rec.enabled THEN Registered(rec.cron) ELSE NoJob]
  /\ Goto(r, "done")
  /\ UNCHANGED <<flow, table, made, beat, fire, over, crashes>>

RemoveJob(r) ==
  /\ At(r, "remove")
  /\ jobs' = [jobs EXCEPT ![req[r].id] = NoJob]
  /\ Goto(r, "done")
  /\ UNCHANGED <<flow, table, made, beat, fire, over, crashes>>

-----------------------------------------------------------------------------
(* A job fires: executeScheduleJob.                                        *)

FireBecomes(k, locals) == fire' = [fire EXCEPT ![k] = locals]

Fire(k, i) ==
  /\ fire[k].pc = "idle" /\ jobs[i] # NoJob /\ Undisturbed
  /\ FireBecomes(k, [NoFire EXCEPT !.pc = "load", !.id = i])
  /\ UNCHANGED <<flow, table, made, jobs, beat, req, over, crashes>>

LoadRecord(k) ==
  /\ fire[k].pc = "load"
  /\ FireBecomes(k, [fire[k] EXCEPT !.pc = "judge", !.rec = table[fire[k].id]])
  /\ UNCHANGED <<flow, table, made, jobs, beat, req, over, crashes>>

(* Mutant: only a missing record drops its job.                            *)
DropsMissing(rec) == rec = NoRecord

(* onRecordNotFoundOrDisabled removes the job.                             *)
Drops(rec) == rec # NoRecord => ~rec.enabled

DropJob(k) ==
  /\ fire[k].pc = "judge" /\ Drops(fire[k].rec)
  /\ jobs' = [jobs EXCEPT ![fire[k].id] = NoJob]
  /\ FireBecomes(k, NoFire)
  /\ UNCHANGED <<flow, table, made, beat, req, over, crashes>>

(* onRecordExpiredOrInvalid saves the record it was handed, disabled, and  *)
(* then removes the job.                                                   *)
Expire(k) ==
  LET rec == fire[k].rec IN
  /\ fire[k].pc = "judge" /\ rec # NoRecord
  /\ rec.enabled /\ Lapsed(rec)
  /\ table' = [table EXCEPT ![fire[k].id] = [rec EXCEPT !.enabled = FALSE]]
  /\ FireBecomes(k, [fire[k] EXCEPT !.pc = "unregister"])
  /\ UNCHANGED <<flow, made, jobs, beat, req, over, crashes>>

Unregister(k) ==
  /\ fire[k].pc = "unregister"
  /\ jobs' = [jobs EXCEPT ![fire[k].id] = NoJob]
  /\ FireBecomes(k, NoFire)
  /\ UNCHANGED <<flow, table, made, beat, req, over, crashes>>

(* The flow is executed, unless the fire comes before nextRunAt.           *)
StartRun(k) ==
  LET rec == fire[k].rec IN
  /\ fire[k].pc = "judge" /\ rec # NoRecord
  /\ rec.enabled /\ ~Lapsed(rec)
  /\ \E early \in BOOLEAN :
       FireBecomes(k, IF early THEN NoFire ELSE [fire[k] EXCEPT !.pc = "running"])
  /\ UNCHANGED <<flow, table, made, jobs, beat, req, over, crashes>>

EndRun(k) ==
  /\ fire[k].pc = "running"
  /\ FireBecomes(k, NoFire)
  /\ UNCHANGED <<flow, table, made, jobs, beat, req, over, crashes>>

-----------------------------------------------------------------------------
(* The start of the server: _syncAllJobs registers the enabled records,    *)
(* one batch after the other.                                              *)

Enabled == {i \in Id : IsEnabled(i)}
Rank(i) == Cardinality({j \in Enabled : j < i})

ReadBatch ==
  /\ ~beat.ready /\ beat.batch = {}
  /\ LET ids == {i \in Enabled : beat.skip <= Rank(i) /\ Rank(i) < beat.skip + BatchSize}
     IN  beat' = [ready |-> ids = {}, skip |-> beat.skip + Cardinality(ids),
                  batch |-> {[id |-> i, cron |-> table[i].cron] : i \in ids}]
  /\ UNCHANGED <<flow, table, made, jobs, req, fire, over, crashes>>

RegisterNext ==
  /\ \E b \in beat.batch :
       /\ \A x \in beat.batch : b.id <= x.id
       /\ jobs' = [jobs EXCEPT ![b.id] = Registered(b.cron)]
       /\ beat' = [beat EXCEPT !.batch = @ \ {b}]
  /\ UNCHANGED <<flow, table, made, req, fire, over, crashes>>

(* The server dies and starts again.  Node-cron tasks and the fires they   *)
(* started die with it; BullMQ keeps its schedulers, and fires run in      *)
(* workers.                                                                *)
Crash ==
  /\ crashes < MaxCrashes
  /\ crashes' = crashes + 1
  /\ beat' = Starting
  /\ req' = [r \in Request |-> IF Busy(r) THEN [req[r] EXCEPT !.pc = "done"] ELSE req[r]]
  /\ jobs' = IF QueueMode THEN jobs ELSE [i \in Id |-> NoJob]
  /\ fire' = IF QueueMode THEN fire ELSE [k \in Fires |-> NoFire]
  /\ UNCHANGED <<flow, table, made, over>>

EndDatePasses ==
  /\ ~over /\ over' = TRUE
  /\ UNCHANGED <<flow, table, made, jobs, beat, req, fire, crashes>>

-----------------------------------------------------------------------------
Serve(r) ==
  \/ SaveFlow(r) \/ FindRecord(r) \/ WriteRecord(r)
  \/ FindGone(r) \/ EraseRecord(r)
  \/ FindToggle(r) \/ FindStatus(r) \/ JudgeToggle(r) \/ WriteToggle(r)
  \/ Reread(r) \/ ApplyUpsert(r) \/ RemoveJob(r)

Arrive(r) ==
  \E t \in Target :
    \/ \E s \in Settings : BeginSave(r, t, s)
    \/ DeleteFlow(r, t)
    \/ \E on \in BOOLEAN : BeginToggle(r, t, on)

Check(k) ==
  LoadRecord(k) \/ DropJob(k) \/ Expire(k) \/ Unregister(k) \/ StartRun(k) \/ EndRun(k)

Tick(i) == \E k \in Fires : Fire(k, i)

Sync == ReadBatch \/ RegisterNext

Next ==
  \/ \E r \in Request : Arrive(r) \/ Serve(r)
  \/ \E k \in Fires : Check(k)
  \/ \E i \in Id : Tick(i)
  \/ Sync \/ Crash \/ EndDatePasses

Spec == Init /\ [][Next]_vars

(* The event loop runs every continuation; a registered job fires again    *)
(* and again, whatever the other fires are doing.                          *)
FairSpec ==
  /\ Spec
  /\ \A r \in Request : WF_vars(Serve(r))
  /\ \A k \in Fires : WF_vars(Check(k))
  /\ \A i \in Id : SF_vars(Tick(i))
  /\ WF_vars(Sync)
=============================================================================
