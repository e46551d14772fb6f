--------------------------- MODULE ScheduleProofs ---------------------------
(***************************************************************************)
(* Machine-checked proofs about schedules, for any number of chatflows,    *)
(* settings, requests, records and fires.                                  *)
(***************************************************************************)
EXTENDS ScheduleProperties, FiniteSetTheorems, TLAPS

(* The steps at which a request has named a record, and at which it holds  *)
(* a copy of it.                                                           *)
NamesRecord == {"erase", "recheck", "status", "toggle", "reread", "apply", "remove"}
HoldsRecord == {"erase", "recheck", "status", "toggle"}

RequestStep ==
  {"idle", "save", "find", "write", "findGone", "erase", "findToggle", "recheck",
   "status", "toggle", "reread", "apply", "remove", "done"}

RequestOK(l) ==
  /\ l.pc \in NamesRecord => l.id \in Id
  /\ l.pc \in HoldsRecord => l.rec # NoRecord
  /\ l.pc = "write" /\ l.id # 0 => l.rec # NoRecord
FireOK(l) == l.pc # "idle" => l.id \in Id

StoreOK ==
  /\ flow \in [Target -> Settings \cup {NoFlow}]
  /\ table \in [Id -> Record \cup {NoRecord}]
  /\ made \in 0 .. MaxRecords
  /\ jobs \in [Id -> Cron \cup {NoJob}]
  /\ beat \in [ready : BOOLEAN, skip : Nat, batch : SUBSET [id : Id, cron : Cron]]
  /\ over \in BOOLEAN
  /\ crashes \in 0 .. MaxCrashes
RequestsOK ==
  /\ req \in [Request -> RequestState]
  /\ \A r \in Request : RequestOK(req[r])
FiresOK ==
  /\ fire \in [Fires -> FireState]
  /\ \A k \in Fires : FireOK(fire[k])

TypeInv == StoreOK /\ RequestsOK /\ FiresOK

-----------------------------------------------------------------------------
(* What holds of requests and fires when they do not overlap.              *)

Exclusive ==
  /\ \A q, r \in Request : Busy(q) /\ Busy(r) => q = r
  /\ \A k, l \in Fires : Checking(k) /\ Checking(l) => k = l
  /\ \A r \in Request, k \in Fires : ~(Busy(r) /\ Checking(k))

(* The chatflow was created: its records, and the requests about it, came  *)
(* later.                                                                  *)
Created(t) == \E q \in Request : req[q].kind = "create" /\ req[q].target = t

StoreOrigin ==
  /\ \A i \in Id : i > made => table[i] = NoRecord
  /\ \A i \in Id : table[i] # NoRecord => Created(table[i].target)
  /\ \A t \in Target : flow[t] # NoFlow => Created(t)

RequestOrigin(r) ==
  /\ At(r, "idle") => req[r].kind = "none"
  /\ req[r].pc \in {"save", "find", "write"} =>
       /\ Created(req[r].target)
       /\ req[r].kind = "create" => RecordsOf(req[r].target) = {}

OriginInv == StoreOrigin /\ \A r \in Request : RequestOrigin(r)

(* A copy is what the table holds: nobody else is at work.                 *)
RequestCopy(r) ==
  /\ req[r].pc \in HoldsRecord \/ (At(r, "write") /\ req[r].id # 0) =>
       req[r].id \in RecordsOf(req[r].target) /\ req[r].rec = table[req[r].id]
  /\ At(r, "write") /\ req[r].id = 0 => RecordsOf(req[r].target) = {}
  /\ At(r, "apply") => req[r].rec = table[req[r].id]
  /\ At(r, "remove") => ~IsEnabled(req[r].id)

FireCopy(k) ==
  /\ fire[k].pc = "judge" => fire[k].rec = table[fire[k].id]
  /\ fire[k].pc = "unregister" => ~IsEnabled(fire[k].id)

CopyInv ==
  /\ \A r \in Request : RequestCopy(r)
  /\ \A k \in Fires : FireCopy(k)

AloneInv == Exclusive /\ OriginInv /\ CopyInv

-----------------------------------------------------------------------------
(* Jobs and records.                                                       *)

Wanted(i) == IF IsEnabled(i) THEN table[i].cron ELSE NoJob

(* A request or a fire is about to mend the job of i.                      *)
Mended(i) ==
  \/ \E r \in Request : req[r].pc \in {"reread", "apply", "remove"} /\ req[r].id = i
  \/ \E k \in Fires : fire[k].pc = "unregister" /\ fire[k].id = i

(* The start has yet to look at i.                                         *)
Unread == ~beat.ready /\ beat.skip = 0
Pending(i) == Unread \/ \E b \in beat.batch : b.id = i

(* A start reads every enabled record at once, before any of them fires.   *)
BeatInv ==
  /\ \A r \in Request : Busy(r) => beat.ready
  /\ beat.ready => beat.batch = {}
  /\ \A b \in beat.batch :
       /\ IsEnabled(b.id) /\ b.cron = table[b.id].cron /\ jobs[b.id] = NoJob
       /\ \A k \in Fires : Checking(k) => fire[k].id # b.id
  /\ Unread =>
       /\ beat.batch = {}
       /\ \A i \in Id : jobs[i] = NoJob
       /\ \A k \in Fires : ~Checking(k)
  /\ ~beat.ready /\ ~Unread => Cardinality(Enabled) =< beat.skip
  /\ ~beat.ready /\ crashes = 0 => \A i \in Id : table[i] = NoRecord

SyncInv ==
  BeatInv /\ \A i \in Id : Mended(i) \/ Pending(i) \/ jobs[i] = Wanted(i)

-----------------------------------------------------------------------------
(* Records and chatflows.                                                  *)

Given(t) ==
  \E i \in RecordsOf(t) :
    /\ table[i] = RecordOf(t, flow[t], table[i].enabled)
    /\ table[i].enabled => flow[t].cron # Invalid /\ flow[t].input = "given"

Settled(t) ==
  /\ flow[t] = NoFlow \/ ~flow[t].scheduled => RecordsOf(t) = {}
  /\ flow[t] # NoFlow /\ flow[t].scheduled /\ flow[t].input # "unset" => Given(t)

(* A request is about to write the record of t, or to erase it.            *)
Writes(t) ==
  \E r \in Request : req[r].target = t /\ req[r].pc \in {"find", "write", "findGone", "erase"}

RequestFollow(r) ==
  LET t == req[r].target
  IN  /\ At(r, "save") /\ req[r].kind = "create" => flow[t] = NoFlow
      /\ req[r].pc \in {"find", "write"} =>
           /\ flow[t] = req[r].set
           /\ flow[t].scheduled /\ flow[t].input # "unset"
      /\ req[r].pc \in {"findGone", "erase"} => flow[t] = NoFlow \/ ~flow[t].scheduled
      /\ At(r, "toggle") /\ req[r].on =>
           /\ flow[t] # NoFlow /\ flow[t].scheduled
           /\ flow[t].cron # Invalid /\ flow[t].input # "empty"

Single(t) == \A i, j \in RecordsOf(t) : i = j

FollowInv ==
  crashes = 0 =>
    /\ \A t \in Target : Single(t) /\ (Writes(t) \/ Settled(t))
    /\ \A r \in Request : RequestFollow(r)

-----------------------------------------------------------------------------
(* Types.                                                                  *)

LEMMA IdFinite == IsFiniteSet(Id) /\ 0 \notin Id /\ Id \subseteq Nat
BY ScheduleBounds, FS_Interval DEF Id

(* Whatever settings are saved, the record has an expression that is valid.*)
LEMMA RecordTypes ==
  ASSUME NEW t \in Target, NEW s \in Settings, NEW b \in BOOLEAN
  PROVE  RecordOf(t, s, b) \in Record
BY SettingsAssumption DEF RecordOf, Record, StoredCron, Cron, Setting

LEMMA NewTypes ==
  /\ NewRequest \in RequestState /\ RequestOK(NewRequest)
  /\ NoFire \in FireState /\ FireOK(NoFire)
  /\ NewRequest.pc = "idle" /\ NewRequest.kind = "none" /\ NoFire.pc = "idle"
<1>1. (CHOOSE t \in Target : TRUE) \in Target /\ (CHOOSE s \in Settings : TRUE) \in Settings
  BY SettingsAssumption
<1> QED
  BY <1>1 DEF NewRequest, NoFire, RequestState, FireState, RequestOK, FireOK, NamesRecord,
              HoldsRecord

LEMMA InitType == Init => TypeInv
<1> SUFFICES ASSUME Init PROVE TypeInv
  OBVIOUS
<1>1. req \in [Request -> RequestState] /\ fire \in [Fires -> FireState]
  BY NewTypes DEF Init
<1>2. made \in 0 .. MaxRecords /\ crashes \in 0 .. MaxCrashes
  BY ScheduleBounds DEF Init
<1>3. flow \in [Target -> Settings \cup {NoFlow}] /\ table \in [Id -> Record \cup {NoRecord}]
  BY DEF Init
<1>4. jobs \in [Id -> Cron \cup {NoJob}] /\ over \in BOOLEAN
  BY DEF Init
<1>5. beat \in [ready : BOOLEAN, skip : Nat, batch : SUBSET [id : Id, cron : Cron]]
  BY DEF Init, Starting
<1>6. (\A r \in Request : RequestOK(req[r])) /\ \A k \in Fires : FireOK(fire[k])
  BY NewTypes DEF Init
<1> QED
  BY <1>1, <1>2, <1>3, <1>4, <1>5, <1>6 DEF TypeInv, StoreOK, RequestsOK, FiresOK

LEMMA RequestTyped ==
  ASSUME TypeInv, NEW r \in Request, NEW l \in RequestState, RequestOK(l), Becomes(r, l)
  PROVE  /\ RequestsOK'
         /\ req'[r] = l /\ \A q \in Request \ {r} : req'[q] = req[q]
BY DEF TypeInv, RequestsOK, Becomes

LEMMA FireTyped ==
  ASSUME TypeInv, NEW k \in Fires, NEW l \in FireState, FireOK(l), FireBecomes(k, l)
  PROVE  /\ FiresOK'
         /\ fire'[k] = l /\ \A j \in Fires \ {k} : fire'[j] = fire[j]
BY DEF TypeInv, FiresOK, FireBecomes

(* A request moves on, or takes a record it found.                         *)
LEMMA GotoTyped ==
  ASSUME TypeInv, NEW r \in Request, NEW pc \in RequestStep, Goto(r, pc),
         pc \in NamesRecord => req[r].id \in Id,
         pc \in HoldsRecord => req[r].rec # NoRecord,
         pc # "write"
  PROVE  /\ RequestsOK'
         /\ req'[r] = [req[r] EXCEPT !.pc = pc]
         /\ \A q \in Request \ {r} : req'[q] = req[q]
<1> DEFINE l == [req[r] EXCEPT !.pc = pc]
<1>1. l \in RequestState /\ RequestOK(l)
  BY DEF TypeInv, RequestsOK, RequestState, RequestStep, RequestOK, NamesRecord, HoldsRecord
<1>2. Becomes(r, l)
  BY DEF Goto
<1> HIDE DEF l
<1>3. /\ RequestsOK'
      /\ req'[r] = l /\ \A q \in Request \ {r} : req'[q] = req[q]
  BY <1>1, <1>2, RequestTyped
<1> QED
  BY <1>3 DEF l

LEMMA TakeTyped ==
  ASSUME TypeInv, NEW r \in Request, NEW i \in Id \cup {0}, NEW pc \in RequestStep,
         Take(r, i, pc), i = 0 => pc \notin NamesRecord,
         pc \in HoldsRecord \cup {"write"} /\ i # 0 => table[i] # NoRecord
  PROVE  /\ RequestsOK'
         /\ req'[r] = [req[r] EXCEPT !.pc = pc, !.id = i,
                                     !.rec = IF i = 0 THEN NoRecord ELSE table[i]]
         /\ \A q \in Request \ {r} : req'[q] = req[q]
<1> DEFINE l == [req[r] EXCEPT !.pc = pc, !.id = i,
                               !.rec = IF i = 0 THEN NoRecord ELSE table[i]]
<1>0. (IF i = 0 THEN NoRecord ELSE table[i]) \in Record \cup {NoRecord}
  BY DEF TypeInv, StoreOK
<1>a. req[r] \in RequestState
  BY DEF TypeInv, RequestsOK
<1>b. l \in RequestState
  <2>1. PICK rec : rec = IF i = 0 THEN NoRecord ELSE table[i]
    OBVIOUS
  <2>2. l = [req[r] EXCEPT !.pc = pc, !.id = i, !.rec = rec]
    BY <2>1
  <2>3. rec \in Record \cup {NoRecord}
    BY <1>0, <2>1
  <2> HIDE DEF l
  <2> QED
    BY <1>a, <2>2, <2>3 DEF RequestState, RequestStep
<1>c. l.pc = pc /\ l.id = i /\ l.rec = IF i = 0 THEN NoRecord ELSE table[i]
  BY <1>a DEF RequestState
<1>1. l \in RequestState /\ RequestOK(l)
  BY <1>b, <1>c, IdFinite DEF RequestOK, NamesRecord, HoldsRecord
<1>2. Becomes(r, l)
  BY DEF Take
<1> HIDE DEF l
<1>3. /\ RequestsOK'
      /\ req'[r] = l /\ \A q \in Request \ {r} : req'[q] = req[q]
  BY <1>1, <1>2, RequestTyped
<1> QED
  BY <1>3 DEF l

LEMMA FoundSome ==
  ASSUME TypeInv, NEW r \in Request, NEW i \in Id \cup {0}, Found(r, i)
  PROVE  /\ i # 0 => /\ i \in RecordsOf(req[r].target) /\ i \in Id
                     /\ table[i] # NoRecord /\ table[i].target = req[r].target
         /\ i = 0 => RecordsOf(req[r].target) = {}
BY IdFinite DEF Found, RecordsOf
(* The locals a request or a fire may have.                                *)
LEMMA LocalTypes ==
  ASSUME TypeInv
  PROVE  /\ \A r \in Request :
              /\ req[r] \in RequestState /\ RequestOK(req[r])
              /\ req[r].target \in Target /\ req[r].set \in Settings
              /\ req[r].id \in Id \cup {0} /\ req[r].rec \in Record \cup {NoRecord}
              /\ req[r].seen \in Record \cup {NoRecord} /\ req[r].on \in BOOLEAN
         /\ \A k \in Fires :
              /\ fire[k] \in FireState /\ FireOK(fire[k])
              /\ fire[k].rec \in Record \cup {NoRecord}
BY DEF TypeInv, RequestsOK, FiresOK, RequestState, FireState

LEMMA ArriveType ==
  ASSUME TypeInv, NEW r \in Request, Arrive(r)
  PROVE  TypeInv'
<1>0. req[r] \in RequestState
  BY LocalTypes
<1>1. ASSUME NEW t \in Target, NEW s \in Settings, BeginSave(r, t, s)
      PROVE  TypeInv'
  <2> DEFINE l == [req[r] EXCEPT !.pc = "save", !.target = t, !.set = s,
                                 !.kind = IF flow[t] = NoFlow THEN "create" ELSE "update"]
  <2>1. l \in RequestState /\ RequestOK(l)
    BY <1>0 DEF RequestState, RequestOK, NamesRecord, HoldsRecord
  <2>2. Becomes(r, l)
    BY <1>1 DEF BeginSave
  <2> HIDE DEF l
  <2>3. RequestsOK'
    BY <2>1, <2>2, RequestTyped
  <2> QED
    BY <1>1, <2>3 DEF BeginSave, TypeInv, StoreOK, FiresOK
<1>2. ASSUME NEW t \in Target, DeleteFlow(r, t)
      PROVE  TypeInv'
  <2> DEFINE l == [req[r] EXCEPT !.pc = "findGone", !.kind = "delete", !.target = t]
  <2>1. l \in RequestState /\ RequestOK(l)
    BY <1>0 DEF RequestState, RequestOK, NamesRecord, HoldsRecord
  <2>2. Becomes(r, l)
    BY <1>2 DEF DeleteFlow
  <2> HIDE DEF l
  <2>3. RequestsOK'
    BY <2>1, <2>2, RequestTyped
  <2> QED
    BY <1>2, <2>3 DEF DeleteFlow, TypeInv, StoreOK, FiresOK
<1>3. ASSUME NEW t \in Target, NEW on \in BOOLEAN, BeginToggle(r, t, on)
      PROVE  TypeInv'
  <2> DEFINE l == [req[r] EXCEPT !.pc = "findToggle", !.kind = "toggle", !.target = t, !.on = on]
  <2>1. l \in RequestState /\ RequestOK(l)
    BY <1>0 DEF RequestState, RequestOK, NamesRecord, HoldsRecord
  <2>2. Becomes(r, l)
    BY <1>3 DEF BeginToggle
  <2> HIDE DEF l
  <2>3. RequestsOK'
    BY <2>1, <2>2, RequestTyped
  <2> QED
    BY <1>3, <2>3 DEF BeginToggle, TypeInv, StoreOK, FiresOK
<1> QED
  BY <1>1, <1>2, <1>3 DEF Arrive

LEMMA ServeType ==
  ASSUME TypeInv, NEW r \in Request, Serve(r)
  PROVE  TypeInv'
<1>0. /\ req[r] \in RequestState /\ RequestOK(req[r])
      /\ req[r].target \in Target /\ req[r].set \in Settings
      /\ req[r].id \in Id \cup {0} /\ req[r].rec \in Record \cup {NoRecord}
      /\ req[r].on \in BOOLEAN
  BY LocalTypes
<1>1. CASE SaveFlow(r)
  <2> DEFINE s == req[r].set
             pc == IF s.scheduled THEN IF s.input = "unset" THEN "done" ELSE "find"
                   ELSE IF req[r].kind = "create" THEN "done" ELSE "findGone"
  <2>1. pc \in {"done", "find", "findGone"} /\ Goto(r, pc)
    BY <1>1 DEF SaveFlow
  <2> HIDE DEF pc
  <2>2. RequestsOK'
    BY <2>1, GotoTyped DEF RequestStep, NamesRecord, HoldsRecord
  <2>3. flow' \in [Target -> Settings \cup {NoFlow}]
    BY <1>0, <1>1 DEF SaveFlow, TypeInv, StoreOK
  <2> QED
    BY <1>1, <2>2, <2>3 DEF SaveFlow, TypeInv, StoreOK, FiresOK
<1>2. CASE FindRecord(r)
  <2>1. PICK i \in Id \cup {0} : Found(r, i) /\ Take(r, i, "write")
    BY <1>2 DEF FindRecord
  <2>2. RequestsOK'
    BY <2>1, FoundSome, TakeTyped DEF RequestStep, NamesRecord
  <2> QED
    BY <1>2, <2>2 DEF FindRecord, TypeInv, StoreOK, FiresOK
<1>3. CASE WriteRecord(r)
  <2> DEFINE fresh == req[r].id = 0
             i == IF fresh THEN made + 1 ELSE req[r].id
             l == [req[r] EXCEPT !.pc = NextOfSave(r), !.id = i]
             rec == RecordOf(req[r].target, req[r].set, Switch(r))
  <2>1. i \in Id /\ made' \in 0 .. MaxRecords
    BY <1>0, <1>3, ScheduleBounds DEF WriteRecord, TypeInv, StoreOK, Id
  <2>2. Switch(r) \in BOOLEAN
    BY <1>0, <1>3 DEF Switch, CanEnable, Record, RequestOK, WriteRecord, At
  <2>3. NextOfSave(r) \in {"reread", "done", "remove"}
    BY DEF NextOfSave
  <2>4. rec \in Record
    BY <1>0, <2>2, RecordTypes
  <2>5. l \in RequestState
    BY <1>0, <2>1, <2>3 DEF RequestState
  <2>a. l.pc = NextOfSave(r) /\ l.id = i
    BY <1>0 DEF RequestState
  <2>6. Becomes(r, l) /\ table' = [table EXCEPT ![i] = rec]
    BY <1>3 DEF WriteRecord
  <2>7. table' \in [Id -> Record \cup {NoRecord}]
    BY <2>1, <2>4, <2>6 DEF TypeInv, StoreOK
  <2> HIDE DEF i, l
  <2>8. RequestOK(l)
    BY <2>1, <2>3, <2>a DEF RequestOK, NamesRecord, HoldsRecord
  <2>9. RequestsOK'
    BY <2>5, <2>6, <2>8, RequestTyped
  <2> QED
    BY <1>3, <2>1, <2>7, <2>9 DEF WriteRecord, TypeInv, StoreOK, FiresOK
<1>4. CASE FindGone(r)
  <2>1. PICK i \in Id \cup {0} : Found(r, i) /\ Take(r, i, IF i = 0 THEN "done" ELSE "erase")
    BY <1>4 DEF FindGone
  <2> DEFINE pc == IF i = 0 THEN "done" ELSE "erase"
  <2>2. pc \in RequestStep /\ (i = 0 => pc \notin NamesRecord)
    BY DEF RequestStep, NamesRecord
  <2>3. Take(r, i, pc) /\ (i # 0 => table[i] # NoRecord)
    BY <2>1, FoundSome
  <2> HIDE DEF pc
  <2>4. RequestsOK'
    BY <2>2, <2>3, TakeTyped
  <2> QED
    BY <1>4, <2>4 DEF FindGone, TypeInv, StoreOK, FiresOK
<1>5. CASE EraseRecord(r)
  <2>1. req[r].id \in Id
    BY <1>0, <1>5 DEF EraseRecord, At, RequestOK, NamesRecord
  <2>2. RequestsOK'
    BY <1>5, <2>1, GotoTyped DEF EraseRecord, RequestStep, HoldsRecord
  <2> QED
    BY <1>5, <2>2 DEF EraseRecord, TypeInv, StoreOK, FiresOK
<1>6. CASE FindToggle(r)
  <2>1. PICK i \in Id \cup {0} :
          /\ Found(r, i)
          /\ Take(r, i, IF i = 0 THEN "done" ELSE IF req[r].on THEN "recheck" ELSE "toggle")
    BY <1>6 DEF FindToggle
  <2> DEFINE pc == IF i = 0 THEN "done" ELSE IF req[r].on THEN "recheck" ELSE "toggle"
  <2>2. pc \in RequestStep /\ (i = 0 => pc \notin NamesRecord)
    BY DEF RequestStep, NamesRecord
  <2>3. Take(r, i, pc) /\ (i # 0 => table[i] # NoRecord)
    BY <2>1, FoundSome
  <2> HIDE DEF pc
  <2>4. RequestsOK'
    BY <2>2, <2>3, TakeTyped
  <2> QED
    BY <1>6, <2>4 DEF FindToggle, TypeInv, StoreOK, FiresOK
<1>12. CASE FindStatus(r)
  <2>1. PICK i \in Id \cup {0} :
          Becomes(r, [req[r] EXCEPT !.pc = "status", !.seen = IF i = 0 THEN NoRecord ELSE table[i]])
    BY <1>12 DEF FindStatus
  <2>2. PICK rec \in Record \cup {NoRecord} :
          Becomes(r, [req[r] EXCEPT !.pc = "status", !.seen = rec])
    BY <2>1 DEF TypeInv, StoreOK
  <2> DEFINE l == [req[r] EXCEPT !.pc = "status", !.seen = rec]
  <2>3. l \in RequestState /\ RequestOK(l)
    BY <1>0, <1>12 DEF FindStatus, At, RequestState, RequestOK, NamesRecord, HoldsRecord
  <2> HIDE DEF l
  <2>4. RequestsOK'
    BY <2>2, <2>3, RequestTyped DEF l
  <2> QED
    BY <1>12, <2>4 DEF FindStatus, TypeInv, StoreOK, FiresOK
<1>7. CASE JudgeToggle(r)
  <2>1. Goto(r, "toggle") \/ Goto(r, "done")
    BY <1>7 DEF JudgeToggle
  <2>2. req[r].id \in Id /\ req[r].rec # NoRecord
    BY <1>0, <1>7 DEF JudgeToggle, At, RequestOK, NamesRecord, HoldsRecord
  <2>3. RequestsOK'
    BY <2>1, <2>2, GotoTyped DEF RequestStep, NamesRecord
  <2> QED
    BY <1>7, <2>3 DEF JudgeToggle, TypeInv, StoreOK, FiresOK
<1>8. CASE WriteToggle(r)
  <2>1. req[r].id \in Id /\ req[r].rec \in Record
    BY <1>0, <1>8 DEF WriteToggle, At, RequestOK, NamesRecord, HoldsRecord
  <2>2. Goto(r, "reread") \/ Goto(r, "remove")
    BY <1>8 DEF WriteToggle
  <2>3. RequestsOK'
    BY <2>1, <2>2, GotoTyped DEF RequestStep, HoldsRecord
  <2>4. [req[r].rec EXCEPT !.enabled = req[r].on] \in Record
    BY <1>0, <2>1 DEF Record
  <2>5. table' \in [Id -> Record \cup {NoRecord}]
    BY <1>8, <2>4 DEF WriteToggle, TypeInv, StoreOK
  <2> QED
    BY <1>8, <2>3, <2>5 DEF WriteToggle, TypeInv, StoreOK, FiresOK
<1>9. CASE Reread(r)
  <2>1. req[r].id \in Id
    BY <1>0, <1>9 DEF Reread, At, RequestOK, NamesRecord
  <2>2. RequestsOK'
    BY <1>9, <2>1, IdFinite, TakeTyped DEF Reread, RequestStep, HoldsRecord
  <2> QED
    BY <1>9, <2>2 DEF Reread, TypeInv, StoreOK, FiresOK
<1>10. CASE ApplyUpsert(r)
  <2>1. RequestsOK'
    BY <1>10, GotoTyped DEF ApplyUpsert, RequestStep, NamesRecord, HoldsRecord
  <2>2. jobs' \in [Id -> Cron \cup {NoJob}]
    BY <1>0, <1>10 DEF ApplyUpsert, Registered, TypeInv, StoreOK
  <2> QED
    BY <1>10, <2>1, <2>2 DEF ApplyUpsert, TypeInv, StoreOK, FiresOK
<1>11. CASE RemoveJob(r)
  <2>1. RequestsOK'
    BY <1>11, GotoTyped DEF RemoveJob, RequestStep, NamesRecord, HoldsRecord
  <2> QED
    BY <1>11, <2>1 DEF RemoveJob, TypeInv, StoreOK, FiresOK
<1> QED
  BY <1>1, <1>2, <1>3, <1>4, <1>5, <1>6, <1>7, <1>8, <1>9, <1>10, <1>11, <1>12 DEF Serve
LEMMA FireType ==
  ASSUME TypeInv, NEW k \in Fires, Check(k) \/ (\E i \in Id : Fire(k, i))
  PROVE  TypeInv'
<1>0. /\ fire[k] \in FireState /\ FireOK(fire[k])
      /\ fire[k].rec \in Record \cup {NoRecord}
  BY LocalTypes
<1>1. ASSUME NEW i \in Id, Fire(k, i)
      PROVE  TypeInv'
  <2> DEFINE l == [NoFire EXCEPT !.pc = "load", !.id = i]
  <2>1. l \in FireState /\ FireOK(l) /\ FireBecomes(k, l)
    BY <1>1, NewTypes DEF Fire, FireState, FireOK, NoFire
  <2> HIDE DEF l
  <2>2. FiresOK'
    BY <2>1, FireTyped
  <2> QED
    BY <1>1, <2>2 DEF Fire, TypeInv, StoreOK, RequestsOK
<1>2. CASE LoadRecord(k)
  <2> DEFINE l == [fire[k] EXCEPT !.pc = "judge", !.rec = table[fire[k].id]]
  <2>1. fire[k].id \in Id
    BY <1>0, <1>2 DEF LoadRecord, FireOK
  <2>2. table[fire[k].id] \in Record \cup {NoRecord}
    BY <2>1 DEF TypeInv, StoreOK
  <2>3. l \in FireState /\ FireOK(l)
    BY <1>0, <2>1, <2>2 DEF FireState, FireOK
  <2>4. FireBecomes(k, l)
    BY <1>2 DEF LoadRecord
  <2> HIDE DEF l
  <2>5. FiresOK'
    BY <2>3, <2>4, FireTyped
  <2> QED
    BY <1>2, <2>5 DEF LoadRecord, TypeInv, StoreOK, RequestsOK
<1>3. CASE DropJob(k)
  <2>1. FiresOK'
    BY <1>3, NewTypes, FireTyped DEF DropJob
  <2>2. jobs' \in [Id -> Cron \cup {NoJob}]
    BY <1>3 DEF DropJob, TypeInv, StoreOK
  <2> QED
    BY <1>3, <2>1, <2>2 DEF DropJob, TypeInv, StoreOK, RequestsOK
<1>4. CASE Expire(k)
  <2> DEFINE l == [fire[k] EXCEPT !.pc = "unregister"]
             rec == [fire[k].rec EXCEPT !.enabled = FALSE]
  <2>1. l \in FireState /\ FireOK(l) /\ fire[k].id \in Id
    BY <1>0, <1>4 DEF Expire, FireState, FireOK
  <2>2. FireBecomes(k, l) /\ table' = [table EXCEPT ![fire[k].id] = rec]
    BY <1>4 DEF Expire
  <2>3. rec \in Record
    BY <1>0, <1>4 DEF Expire, Record
  <2> HIDE DEF l, rec
  <2>4. FiresOK'
    BY <2>1, <2>2, FireTyped
  <2>5. table' \in [Id -> Record \cup {NoRecord}]
    BY <2>2, <2>3 DEF TypeInv, StoreOK
  <2> QED
    BY <1>4, <2>4, <2>5 DEF Expire, TypeInv, StoreOK, RequestsOK
<1>5. CASE Unregister(k)
  <2>1. FiresOK'
    BY <1>5, NewTypes, FireTyped DEF Unregister
  <2>2. jobs' \in [Id -> Cron \cup {NoJob}]
    BY <1>5 DEF Unregister, TypeInv, StoreOK
  <2> QED
    BY <1>5, <2>1, <2>2 DEF Unregister, TypeInv, StoreOK, RequestsOK
<1>6. CASE StartRun(k)
  <2> DEFINE l == [fire[k] EXCEPT !.pc = "running"]
  <2>1. l \in FireState /\ FireOK(l)
    BY <1>0, <1>6 DEF StartRun, FireState, FireOK
  <2>2. FireBecomes(k, NoFire) \/ FireBecomes(k, l)
    BY <1>6 DEF StartRun
  <2> HIDE DEF l
  <2>3. FiresOK'
    BY <2>1, <2>2, NewTypes, FireTyped
  <2> QED
    BY <1>6, <2>3 DEF StartRun, TypeInv, StoreOK, RequestsOK
<1>7. CASE EndRun(k)
  <2>1. FiresOK'
    BY <1>7, NewTypes, FireTyped DEF EndRun
  <2> QED
    BY <1>7, <2>1 DEF EndRun, TypeInv, StoreOK, RequestsOK
<1> QED
  BY <1>1, <1>2, <1>3, <1>4, <1>5, <1>6, <1>7 DEF Check

(* The batch of records a start reads.                                     *)
Batch == {i \in Enabled : beat.skip <= Rank(i) /\ Rank(i) < beat.skip + BatchSize}

LEMMA EnabledFinite ==
  /\ IsFiniteSet(Enabled) /\ Cardinality(Enabled) \in Nat
  /\ IsFiniteSet(Batch) /\ Cardinality(Batch) \in Nat
  /\ \A i \in Id : IsFiniteSet({j \in Enabled : j < i}) /\ Rank(i) \in Nat
<1>1. IsFiniteSet(Enabled)
  BY IdFinite, FS_Subset DEF Enabled
<1>2. IsFiniteSet(Batch)
  BY <1>1, FS_Subset DEF Batch
<1>3. \A i \in Id : IsFiniteSet({j \in Enabled : j < i})
  <2> TAKE i \in Id
  <2>1. {j \in Enabled : j < i} \subseteq Enabled
    OBVIOUS
  <2> QED
    BY <1>1, <2>1, FS_Subset
<1> QED
  BY <1>1, <1>2, <1>3, FS_CardinalityType DEF Rank

LEMMA BeatType ==
  ASSUME TypeInv, Sync \/ Crash \/ EndDatePasses
  PROVE  TypeInv'
<1>1. CASE ReadBatch
  <2> DEFINE bs == {[id |-> i, cron |-> table[i].cron] : i \in Batch}
  <2>1. beat' = [ready |-> Batch = {}, skip |-> beat.skip + Cardinality(Batch), batch |-> bs]
    BY <1>1 DEF ReadBatch, Batch
  <2>2. \A i \in Batch : i \in Id /\ table[i].cron \in Cron
    BY DEF Batch, Enabled, IsEnabled, TypeInv, StoreOK, Record
  <2>3. bs \in SUBSET [id : Id, cron : Cron]
    BY <2>2
  <2>4. beat.skip + Cardinality(Batch) \in Nat
    BY EnabledFinite DEF TypeInv, StoreOK
  <2>5. beat' \in [ready : BOOLEAN, skip : Nat, batch : SUBSET [id : Id, cron : Cron]]
    BY <2>1, <2>3, <2>4
  <2> QED
    BY <1>1, <2>5 DEF ReadBatch, TypeInv, StoreOK, RequestsOK, FiresOK
<1>2. CASE RegisterNext
  <2>1. PICK b \in beat.batch :
          jobs' = [jobs EXCEPT ![b.id] = Registered(b.cron)] /\ beat' = [beat EXCEPT !.batch = @ \ {b}]
    BY <1>2 DEF RegisterNext
  <2>2. b.id \in Id /\ b.cron \in Cron
    BY DEF TypeInv, StoreOK
  <2>3. jobs' \in [Id -> Cron \cup {NoJob}]
    BY <2>1, <2>2 DEF Registered, TypeInv, StoreOK
  <2>4. beat' \in [ready : BOOLEAN, skip : Nat, batch : SUBSET [id : Id, cron : Cron]]
    BY <2>1 DEF TypeInv, StoreOK
  <2> QED
    BY <1>2, <2>3, <2>4 DEF RegisterNext, TypeInv, StoreOK, RequestsOK, FiresOK
<1>3. CASE Crash
  <2>1. RequestsOK'
    <3>1. \A r \in Request :
            /\ [req[r] EXCEPT !.pc = "done"] \in RequestState
            /\ RequestOK([req[r] EXCEPT !.pc = "done"])
      BY LocalTypes DEF RequestState, RequestOK, NamesRecord, HoldsRecord
    <3>2. req' = [r \in Request |-> IF Busy(r) THEN [req[r] EXCEPT !.pc = "done"] ELSE req[r]]
      BY <1>3 DEF Crash
    <3>3. \A r \in Request : req'[r] \in RequestState /\ RequestOK(req'[r])
      BY <3>1, <3>2, LocalTypes
    <3> QED
      BY <3>2, <3>3 DEF RequestsOK
  <2>2. FiresOK'
    BY <1>3, NewTypes DEF Crash, FiresOK, TypeInv
  <2>3. crashes' \in 0 .. MaxCrashes
    BY <1>3, ScheduleBounds DEF Crash, TypeInv, StoreOK
  <2>4. beat' \in [ready : BOOLEAN, skip : Nat, batch : SUBSET [id : Id, cron : Cron]]
    BY <1>3 DEF Crash, Starting
  <2>5. jobs' \in [Id -> Cron \cup {NoJob}]
    BY <1>3 DEF Crash, TypeInv, StoreOK
  <2> QED
    BY <1>3, <2>1, <2>2, <2>3, <2>4, <2>5 DEF Crash, TypeInv, StoreOK
<1>4. CASE EndDatePasses
  BY <1>4 DEF EndDatePasses, TypeInv, StoreOK, RequestsOK, FiresOK
<1> QED
  BY <1>1, <1>2, <1>3, <1>4 DEF Sync

LEMMA TypeStep == TypeInv /\ [Next]_vars => TypeInv'
<1> SUFFICES ASSUME TypeInv, [Next]_vars PROVE TypeInv'
  OBVIOUS
<1>1. CASE UNCHANGED vars
  BY <1>1 DEF vars, TypeInv, StoreOK, RequestsOK, FiresOK
<1> QED
  BY <1>1, ArriveType, ServeType, FireType, BeatType DEF Next, Tick

LEMMA TypeAlways == Spec => []TypeInv
BY InitType, TypeStep, PTL DEF Spec

(* ScheduleTypeOK always holds: in particular no record and no job ever    *)
(* carries an expression that does not validate, whatever overlaps and     *)
(* whenever the server dies.                                               *)
THEOREM ScheduleTypes == Spec => []ScheduleTypeOK
<1>1. TypeInv => ScheduleTypeOK
  BY DEF TypeInv, StoreOK, RequestsOK, FiresOK, ScheduleTypeOK
<1> QED
  BY <1>1, TypeAlways, PTL
-----------------------------------------------------------------------------
(* The shape of the steps of a request: what it was asked stays.           *)

Same(r) ==
  /\ \A q \in Request \ {r} : req'[q] = req[q]
  /\ req'[r].kind = req[r].kind /\ req'[r].target = req[r].target
  /\ req'[r].set = req[r].set /\ req'[r].on = req[r].on

LEMMA GotoShape ==
  ASSUME TypeInv, NEW r \in Request, NEW pc, Goto(r, pc)
  PROVE  Same(r) /\ req'[r].pc = pc /\ req'[r].id = req[r].id /\ req'[r].rec = req[r].rec
<1> DEFINE l == [req[r] EXCEPT !.pc = pc]
<1>1. /\ l.pc = pc /\ l.id = req[r].id /\ l.rec = req[r].rec /\ l.kind = req[r].kind
      /\ l.target = req[r].target /\ l.set = req[r].set /\ l.on = req[r].on
  BY LocalTypes DEF RequestState
<1>2. req' = [req EXCEPT ![r] = l]
  BY DEF Goto, Becomes
<1> HIDE DEF l
<1>3. req'[r] = l /\ \A q \in Request \ {r} : req'[q] = req[q]
  BY <1>2 DEF TypeInv, RequestsOK
<1> QED
  BY <1>1, <1>3 DEF Same

LEMMA TakeShape ==
  ASSUME TypeInv, NEW r \in Request, NEW i \in Id \cup {0}, NEW pc, Take(r, i, pc)
  PROVE  /\ Same(r) /\ req'[r].pc = pc /\ req'[r].id = i
         /\ req'[r].rec = IF i = 0 THEN NoRecord ELSE table[i]
<1> DEFINE x == IF i = 0 THEN NoRecord ELSE table[i]
           l == [req[r] EXCEPT !.pc = pc, !.id = i, !.rec = x]
<1>2. req' = [req EXCEPT ![r] = l]
  BY DEF Take, Becomes
<1> HIDE DEF x
<1>1. /\ l.pc = pc /\ l.id = i /\ l.rec = x /\ l.kind = req[r].kind
      /\ l.target = req[r].target /\ l.set = req[r].set /\ l.on = req[r].on
  BY LocalTypes DEF RequestState
<1> HIDE DEF l
<1>3. req'[r] = l /\ \A q \in Request \ {r} : req'[q] = req[q]
  BY <1>2 DEF TypeInv, RequestsOK
<1> QED
  BY <1>1, <1>3 DEF Same, x

LEMMA WriteShape ==
  ASSUME TypeInv, NEW r \in Request, WriteRecord(r)
  PROVE  LET fresh == req[r].id = 0
             i == IF fresh THEN made + 1 ELSE req[r].id
         IN  /\ Same(r) /\ req'[r].pc = NextOfSave(r) /\ req'[r].id = i
             /\ i \in Id /\ (fresh => i = made + 1) /\ (~fresh => i = req[r].id)
             /\ made' = IF fresh THEN made + 1 ELSE made
             /\ Switch(r) \in BOOLEAN
             /\ table' = [table EXCEPT ![i] = RecordOf(req[r].target, req[r].set, Switch(r))]
             /\ table'[i] = RecordOf(req[r].target, req[r].set, Switch(r))
             /\ \A j \in Id \ {i} : table'[j] = table[j]
<1> DEFINE fresh == req[r].id = 0
           i == IF fresh THEN made + 1 ELSE req[r].id
           l == [req[r] EXCEPT !.pc = NextOfSave(r), !.id = i]
<1>1. /\ l.pc = NextOfSave(r) /\ l.id = i /\ l.kind = req[r].kind
      /\ l.target = req[r].target /\ l.set = req[r].set /\ l.on = req[r].on
  BY LocalTypes DEF RequestState
<1>2. req' = [req EXCEPT ![r] = l]
  BY DEF WriteRecord, Becomes
<1>3. i \in Id
  BY LocalTypes, ScheduleBounds DEF WriteRecord, TypeInv, StoreOK, Id
<1>4. Switch(r) \in BOOLEAN
  BY LocalTypes DEF Switch, CanEnable, Record, RequestOK, WriteRecord, At
<1>5. /\ made' = IF fresh THEN made + 1 ELSE made
      /\ table' = [table EXCEPT ![i] = RecordOf(req[r].target, req[r].set, Switch(r))]
  BY DEF WriteRecord
<1>7. (fresh => i = made + 1) /\ (~fresh => i = req[r].id)
  OBVIOUS
<1> HIDE DEF l, i
<1>6. /\ req'[r] = l /\ \A q \in Request \ {r} : req'[q] = req[q]
      /\ table'[i] = RecordOf(req[r].target, req[r].set, Switch(r))
      /\ \A j \in Id \ {i} : table'[j] = table[j]
  BY <1>2, <1>3, <1>5 DEF TypeInv, RequestsOK, StoreOK
<1>8. Same(r) /\ req'[r].pc = NextOfSave(r) /\ req'[r].id = i
  BY <1>1, <1>6 DEF Same
<1> QED
  BY <1>3, <1>4, <1>5, <1>6, <1>7, <1>8 DEF i

LEMMA StatusShape ==
  ASSUME TypeInv, NEW r \in Request, FindStatus(r)
  PROVE  /\ Same(r) /\ At(r, "recheck") /\ req'[r].pc = "status"
         /\ req'[r].id = req[r].id /\ req'[r].rec = req[r].rec
         /\ UNCHANGED <<flow, table, made, jobs, beat, fire, over, crashes>>
<1>1. PICK i \in Id \cup {0} :
        Becomes(r, [req[r] EXCEPT !.pc = "status", !.seen = IF i = 0 THEN NoRecord ELSE table[i]])
  BY DEF FindStatus
<1>2. PICK rec : Becomes(r, [req[r] EXCEPT !.pc = "status", !.seen = rec])
  BY <1>1
<1>3. req[r] \in RequestState /\ req \in [Request -> RequestState]
  BY DEF TypeInv, RequestsOK
<1>4. /\ req'[r] = [req[r] EXCEPT !.pc = "status", !.seen = rec]
      /\ \A q \in Request \ {r} : req'[q] = req[q]
  BY <1>2, <1>3 DEF Becomes
<1> QED
  BY <1>3, <1>4 DEF Same, FindStatus, RequestState

LEMMA ServeShape ==
  ASSUME TypeInv, NEW r \in Request, Serve(r)
  PROVE  /\ Busy(r) /\ Same(r) /\ req'[r].pc # "idle"
         /\ UNCHANGED <<beat, fire, over, crashes>>
<1>1. CASE SaveFlow(r)
  BY <1>1, GotoShape DEF SaveFlow, Busy, At
<1>2. CASE FindRecord(r)
  BY <1>2, TakeShape DEF FindRecord, Busy, At
<1>3. CASE WriteRecord(r)
  BY <1>3, WriteShape DEF WriteRecord, Busy, At, NextOfSave
<1>4. CASE FindGone(r)
  BY <1>4, TakeShape DEF FindGone, Busy, At
<1>5. CASE EraseRecord(r)
  BY <1>5, GotoShape DEF EraseRecord, Busy, At
<1>6. CASE FindToggle(r)
  BY <1>6, TakeShape DEF FindToggle, Busy, At
<1>12. CASE FindStatus(r)
  BY <1>12, StatusShape DEF Busy, At
<1>7. CASE JudgeToggle(r)
  BY <1>7, GotoShape DEF JudgeToggle, Busy, At
<1>8. CASE WriteToggle(r)
  BY <1>8, GotoShape DEF WriteToggle, Busy, At
<1>9. CASE Reread(r)
  BY <1>9, LocalTypes, TakeShape DEF Reread, Busy, At
<1>10. CASE ApplyUpsert(r)
  BY <1>10, GotoShape DEF ApplyUpsert, Busy, At
<1>11. CASE RemoveJob(r)
  BY <1>11, GotoShape DEF RemoveJob, Busy, At
<1> QED
  BY <1>1, <1>2, <1>3, <1>4, <1>5, <1>6, <1>7, <1>8, <1>9, <1>10, <1>11, <1>12 DEF Serve
LEMMA SaveShape ==
  ASSUME TypeInv, NEW r \in Request, NEW t \in Target, NEW s \in Settings, BeginSave(r, t, s)
  PROVE  /\ Begins(r) /\ \A q \in Request \ {r} : req'[q] = req[q]
         /\ req'[r].pc = "save" /\ req'[r].target = t /\ req'[r].set = s
         /\ req'[r].kind = IF flow[t] = NoFlow THEN "create" ELSE "update"
         /\ flow[t] = NoFlow => ~Created(t)
         /\ UNCHANGED <<flow, table, made, jobs, beat, fire, over, crashes>>
<1> DEFINE kind == IF flow[t] = NoFlow THEN "create" ELSE "update"
           l == [req[r] EXCEPT !.pc = "save", !.target = t, !.set = s, !.kind = kind]
<1>1. req' = [req EXCEPT ![r] = l]
  BY DEF BeginSave, Becomes
<1> HIDE DEF kind
<1>2. l.pc = "save" /\ l.target = t /\ l.set = s /\ l.kind = kind
  BY LocalTypes DEF RequestState
<1> HIDE DEF l
<1>3. req'[r] = l /\ \A q \in Request \ {r} : req'[q] = req[q]
  BY <1>1 DEF TypeInv, RequestsOK
<1> QED
  BY <1>2, <1>3 DEF BeginSave, Created, kind

LEMMA DeleteShape ==
  ASSUME TypeInv, NEW r \in Request, NEW t \in Target, DeleteFlow(r, t)
  PROVE  /\ Begins(r) /\ \A q \in Request \ {r} : req'[q] = req[q]
         /\ req'[r].pc = "findGone" /\ req'[r].target = t /\ req'[r].kind = "delete"
         /\ flow[t] # NoFlow /\ flow' = [flow EXCEPT ![t] = NoFlow]
         /\ UNCHANGED <<table, made, jobs, beat, fire, over, crashes>>
<1> DEFINE l == [req[r] EXCEPT !.pc = "findGone", !.kind = "delete", !.target = t]
<1>1. req' = [req EXCEPT ![r] = l]
  BY DEF DeleteFlow, Becomes
<1>2. l.pc = "findGone" /\ l.target = t /\ l.kind = "delete"
  BY LocalTypes DEF RequestState
<1> HIDE DEF l
<1>3. req'[r] = l /\ \A q \in Request \ {r} : req'[q] = req[q]
  BY <1>1 DEF TypeInv, RequestsOK
<1> QED
  BY <1>2, <1>3 DEF DeleteFlow

LEMMA ToggleShape ==
  ASSUME TypeInv, NEW r \in Request, NEW t \in Target, NEW on \in BOOLEAN, BeginToggle(r, t, on)
  PROVE  /\ Begins(r) /\ \A q \in Request \ {r} : req'[q] = req[q]
         /\ req'[r].pc = "findToggle" /\ req'[r].target = t /\ req'[r].kind = "toggle"
         /\ UNCHANGED <<flow, table, made, jobs, beat, fire, over, crashes>>
<1> DEFINE l == [req[r] EXCEPT !.pc = "findToggle", !.kind = "toggle", !.target = t, !.on = on]
<1>1. req' = [req EXCEPT ![r] = l]
  BY DEF BeginToggle, Becomes
<1>2. l.pc = "findToggle" /\ l.target = t /\ l.kind = "toggle"
  BY LocalTypes DEF RequestState
<1> HIDE DEF l
<1>3. req'[r] = l /\ \A q \in Request \ {r} : req'[q] = req[q]
  BY <1>1 DEF TypeInv, RequestsOK
<1> QED
  BY <1>2, <1>3 DEF BeginToggle

LEMMA ArriveShape ==
  ASSUME TypeInv, NEW r \in Request, Arrive(r)
  PROVE  /\ Begins(r) /\ \A q \in Request \ {r} : req'[q] = req[q]
         /\ req'[r].pc \in {"save", "findGone", "findToggle"}
         /\ UNCHANGED <<table, made, jobs, beat, fire, over, crashes>>
BY SaveShape, DeleteShape, ToggleShape DEF Arrive

LEMMA FireShape ==
  ASSUME TypeInv, NEW k \in Fires, NEW i \in Id, Fire(k, i)
  PROVE  /\ fire[k].pc = "idle" /\ jobs[i] # NoJob /\ Undisturbed
         /\ fire'[k].pc = "load" /\ fire'[k].id = i
         /\ \A l \in Fires \ {k} : fire'[l] = fire[l]
         /\ UNCHANGED <<flow, table, made, jobs, beat, req, over, crashes>>
<1>1. /\ fire' = [fire EXCEPT ![k] = [NoFire EXCEPT !.pc = "load", !.id = i]]
      /\ [NoFire EXCEPT !.pc = "load", !.id = i].pc = "load"
      /\ [NoFire EXCEPT !.pc = "load", !.id = i].id = i
  BY DEF Fire, FireBecomes, NoFire
<1> QED
  BY <1>1 DEF Fire, TypeInv, FiresOK

LEMMA LoadShape ==
  ASSUME TypeInv, NEW k \in Fires, LoadRecord(k)
  PROVE  /\ fire[k].pc = "load" /\ fire[k].id \in Id
         /\ fire'[k].pc = "judge" /\ fire'[k].id = fire[k].id /\ fire'[k].rec = table[fire[k].id]
         /\ \A l \in Fires \ {k} : fire'[l] = fire[l]
<1> DEFINE l == [fire[k] EXCEPT !.pc = "judge", !.rec = table[fire[k].id]]
<1>1. fire' = [fire EXCEPT ![k] = l]
  BY DEF LoadRecord, FireBecomes
<1>2. l.pc = "judge" /\ l.id = fire[k].id /\ l.rec = table[fire[k].id]
  BY LocalTypes DEF FireState
<1> HIDE DEF l
<1> QED
  BY <1>1, <1>2, LocalTypes DEF LoadRecord, TypeInv, FiresOK, FireOK

LEMMA ExpireShape ==
  ASSUME TypeInv, NEW k \in Fires, Expire(k)
  PROVE  /\ fire[k].pc = "judge" /\ fire[k].id \in Id /\ fire[k].rec \in Record
         /\ fire'[k].pc = "unregister" /\ fire'[k].id = fire[k].id
         /\ table' = [table EXCEPT ![fire[k].id] = [fire[k].rec EXCEPT !.enabled = FALSE]]
         /\ \A l \in Fires \ {k} : fire'[l] = fire[l]
<1> DEFINE l == [fire[k] EXCEPT !.pc = "unregister"]
<1>1. fire' = [fire EXCEPT ![k] = l]
  BY DEF Expire, FireBecomes
<1>2. l.pc = "unregister" /\ l.id = fire[k].id
  BY LocalTypes DEF FireState
<1> HIDE DEF l
<1> QED
  BY <1>1, <1>2, LocalTypes DEF Expire, TypeInv, FiresOK, FireOK

(* A fire that gives up, ends, or starts its run.                          *)
LEMMA LeaveShape ==
  ASSUME TypeInv, NEW k \in Fires,
         DropJob(k) \/ Unregister(k) \/ StartRun(k) \/ EndRun(k)
  PROVE  /\ fire'[k].pc \in {"idle", "running"}
         /\ \A l \in Fires \ {k} : fire'[l] = fire[l]
         /\ UNCHANGED table
<1>1. CASE DropJob(k) \/ Unregister(k) \/ EndRun(k)
  BY <1>1, NewTypes DEF DropJob, Unregister, EndRun, FireBecomes, TypeInv, FiresOK
<1>2. CASE StartRun(k)
  <2> DEFINE l == [fire[k] EXCEPT !.pc = "running"]
  <2>1. fire' = [fire EXCEPT ![k] = NoFire] \/ fire' = [fire EXCEPT ![k] = l]
    BY <1>2 DEF StartRun, FireBecomes
  <2>2. l.pc = "running" /\ NoFire.pc = "idle"
    BY LocalTypes, NewTypes DEF FireState
  <2> HIDE DEF l
  <2> QED
    BY <1>2, <2>1, <2>2 DEF StartRun, TypeInv, FiresOK
<1> QED
  BY <1>1, <1>2

LEMMA CheckShape ==
  ASSUME TypeInv, NEW k \in Fires, Check(k)
  PROVE  /\ fire[k].pc # "idle" /\ fire'[k].pc # "load"
         /\ fire'[k].pc \notin {"idle", "running"} => Checking(k)
         /\ \A l \in Fires \ {k} : fire'[l] = fire[l]
         /\ UNCHANGED <<flow, made, beat, req, over, crashes>>
<1>1. CASE LoadRecord(k)
  BY <1>1, LoadShape DEF LoadRecord, Checking
<1>2. CASE Expire(k)
  BY <1>2, ExpireShape DEF Expire, Checking
<1>3. CASE DropJob(k) \/ Unregister(k) \/ StartRun(k) \/ EndRun(k)
  BY <1>3, LeaveShape DEF DropJob, Unregister, StartRun, EndRun
<1> QED
  BY <1>1, <1>2, <1>3 DEF Check

LEMMA CrashShape ==
  ASSUME TypeInv, Crash
  PROVE  /\ \A r \in Request :
              /\ req'[r].pc \in {"idle", "done"}
              /\ req'[r].pc = "idle" <=> req[r].pc = "idle"
              /\ req'[r].kind = req[r].kind /\ req'[r].target = req[r].target
         /\ \A k \in Fires : fire'[k] = fire[k] \/ fire'[k] = NoFire
         /\ UNCHANGED <<flow, table, made, over>>
<1>1. req' = [r \in Request |-> IF Busy(r) THEN [req[r] EXCEPT !.pc = "done"] ELSE req[r]]
  BY DEF Crash
<1>2. ASSUME NEW r \in Request
      PROVE  /\ req'[r].pc \in {"idle", "done"}
             /\ req'[r].pc = "idle" <=> req[r].pc = "idle"
             /\ req'[r].kind = req[r].kind /\ req'[r].target = req[r].target
  <2> DEFINE l == [req[r] EXCEPT !.pc = "done"]
  <2>1. l.pc = "done" /\ l.kind = req[r].kind /\ l.target = req[r].target
    BY LocalTypes DEF RequestState
  <2>2. req'[r] = IF Busy(r) THEN l ELSE req[r]
    BY <1>1
  <2> HIDE DEF l
  <2> QED
    BY <2>1, <2>2 DEF Busy
<1>3. \A k \in Fires : fire'[k] = fire[k] \/ fire'[k] = NoFire
  BY DEF Crash
<1> QED
  BY <1>2, <1>3 DEF Crash

-----------------------------------------------------------------------------
(* Requests and fires do not overlap.                                      *)

LEMMA ExclusiveStep ==
  ASSUME Overlap = FALSE, TypeInv, Exclusive, [Next]_vars
  PROVE  Exclusive'
<1>1. ASSUME NEW r \in Request, Arrive(r)
      PROVE  Exclusive'
  BY <1>1, ArriveShape DEF Begins, Undisturbed, Exclusive, Busy, Checking
<1>2. ASSUME NEW r \in Request, Serve(r)
      PROVE  Exclusive'
  <2>1. /\ Busy(r) /\ \A q \in Request \ {r} : req'[q] = req[q]
        /\ fire' = fire
    BY <1>2, ServeShape DEF Same
  <2> QED
    BY <2>1 DEF Exclusive, Busy, Checking
<1>3. ASSUME NEW k \in Fires, Check(k)
      PROVE  Exclusive'
  BY <1>3, CheckShape DEF Exclusive, Busy, Checking
<1>4. ASSUME NEW k \in Fires, NEW i \in Id, Fire(k, i)
      PROVE  Exclusive'
  BY <1>4, FireShape DEF Undisturbed, Exclusive, Busy, Checking
<1>5. CASE Crash
  BY <1>5, CrashShape, NewTypes DEF Exclusive, Busy, Checking
<1>6. CASE Sync \/ EndDatePasses \/ UNCHANGED vars
  BY <1>6 DEF Sync, ReadBatch, RegisterNext, EndDatePasses, vars, Exclusive, Busy, Checking
<1> QED
  BY <1>1, <1>2, <1>3, <1>4, <1>5, <1>6 DEF Next, Tick

(* While one request or fire is at work, all others rest.                  *)
LEMMA Alone ==
  ASSUME Exclusive
  PROVE  /\ \A r \in Request : Busy(r) =>
              /\ \A q \in Request \ {r} : req[q].pc \in {"idle", "done"}
              /\ \A k \in Fires : fire[k].pc \in {"idle", "running"}
         /\ \A k \in Fires : Checking(k) =>
              /\ \A r \in Request : req[r].pc \in {"idle", "done"}
              /\ \A l \in Fires \ {k} : fire[l].pc \in {"idle", "running"}
BY DEF Exclusive, Busy, Checking
LEMMA OthersRest ==
  ASSUME TypeInv, AloneInv, NEW r \in Request, Serve(r)
  PROVE  /\ \A q \in Request \ {r} : RequestOrigin(q)' /\ RequestCopy(q)'
         /\ \A k \in Fires : FireCopy(k)'
         /\ \A t \in Target : Created(t)' <=> Created(t)
<1>1. /\ Same(r) /\ fire' = fire /\ Busy(r)
  BY ServeShape
<1>2. /\ \A q \in Request \ {r} : req[q].pc \in {"idle", "done"}
      /\ \A k \in Fires : fire[k].pc \in {"idle", "running"}
  BY <1>1, Alone DEF AloneInv
<1>3. \A q \in Request \ {r} : RequestOrigin(q)' /\ RequestCopy(q)'
  BY <1>1, <1>2 DEF Same, AloneInv, OriginInv, RequestOrigin, RequestCopy, At, HoldsRecord
<1>4. \A k \in Fires : FireCopy(k)'
  BY <1>1, <1>2 DEF FireCopy
<1>5. \A t \in Target : Created(t)' <=> Created(t)
  BY <1>1 DEF Same, Created
<1> QED
  BY <1>3, <1>4, <1>5

(* A step that leaves the table and the flows alone keeps their origin.    *)
LEMMA StoreStays ==
  ASSUME TypeInv, StoreOrigin, UNCHANGED <<flow, table, made>>,
         \A t \in Target : Created(t) => Created(t)'
  PROVE  StoreOrigin'
<1>1. \A i \in Id : table[i] # NoRecord => table[i].target \in Target
  BY DEF TypeInv, StoreOK, Record
<1> QED
  BY <1>1 DEF StoreOrigin

LEMMA ServeAlone ==
  ASSUME TypeInv, AloneInv, NEW r \in Request, Serve(r)
  PROVE  OriginInv' /\ CopyInv'
<1>0. /\ req[r] \in RequestState /\ RequestOK(req[r])
      /\ req[r].target \in Target /\ req[r].set \in Settings
      /\ req[r].id \in Id \cup {0} /\ req[r].rec \in Record \cup {NoRecord}
      /\ req[r].on \in BOOLEAN
  BY LocalTypes
<1>a. /\ StoreOrigin /\ RequestOrigin(r) /\ RequestCopy(r)
      /\ table \in [Id -> Record \cup {NoRecord}] /\ flow \in [Target -> Settings \cup {NoFlow}]
      /\ \A i \in Id : table[i] # NoRecord => table[i].target \in Target
      /\ \A t \in Target : Created(t)' <=> Created(t)
  BY OthersRest DEF AloneInv, OriginInv, CopyInv, TypeInv, StoreOK, Record
<1> SUFFICES StoreOrigin' /\ RequestOrigin(r)' /\ RequestCopy(r)'
  BY OthersRest DEF OriginInv, CopyInv
<1>1. CASE SaveFlow(r)
  <2>1. /\ Same(r) /\ At(r, "save") /\ req'[r].pc \in {"done", "find", "findGone"}
        /\ flow' = [flow EXCEPT ![req[r].target] = req[r].set] /\ UNCHANGED <<table, made>>
    BY <1>1, GotoShape DEF SaveFlow
  <2>2. Created(req[r].target)
    BY <1>a, <2>1 DEF RequestOrigin, At
  <2>3. StoreOrigin'
    BY <1>a, <2>1, <2>2 DEF StoreOrigin
  <2>4. RequestOrigin(r)'
    BY <1>0, <1>a, <2>1, <2>2 DEF RequestOrigin, At, Same, RecordsOf
  <2>5. RequestCopy(r)'
    BY <2>1 DEF RequestCopy, At, HoldsRecord
  <2> QED
    BY <2>3, <2>4, <2>5
<1>2. CASE FindRecord(r)
  <2>1. PICK i \in Id \cup {0} : Found(r, i) /\ Take(r, i, "write")
    BY <1>2 DEF FindRecord
  <2>2. /\ Same(r) /\ At(r, "find") /\ req'[r].pc = "write" /\ req'[r].id = i
        /\ req'[r].rec = (IF i = 0 THEN NoRecord ELSE table[i])
        /\ UNCHANGED <<flow, table, made>>
    BY <1>2, <2>1, TakeShape DEF FindRecord
  <2>3. StoreOrigin'
    BY <1>a, <2>2, StoreStays
  <2>4. RequestOrigin(r)'
    BY <1>0, <1>a, <2>2 DEF RequestOrigin, At, Same, RecordsOf
  <2>5. RequestCopy(r)'
    BY <2>1, <2>2, FoundSome DEF RequestCopy, At, HoldsRecord, Same, RecordsOf
  <2> QED
    BY <2>3, <2>4, <2>5
<1>3. CASE WriteRecord(r)
  <2> DEFINE i == IF req[r].id = 0 THEN made + 1 ELSE req[r].id
             rec == RecordOf(req[r].target, req[r].set, Switch(r))
  <2>1. /\ Same(r) /\ req'[r].pc = NextOfSave(r) /\ req'[r].id = i /\ i \in Id
        /\ made' = IF req[r].id = 0 THEN made + 1 ELSE made
        /\ Switch(r) \in BOOLEAN /\ table'[i] = rec
        /\ \A j \in Id \ {i} : table'[j] = table[j]
    BY <1>3, WriteShape
  <2>2. Created(req[r].target) /\ UNCHANGED flow
    BY <1>3, <1>a DEF RequestOrigin, At, WriteRecord
  <2>3. rec \in Record /\ rec.target = req[r].target /\ rec.enabled = Switch(r)
    BY <1>0, <2>1, RecordTypes DEF RecordOf
  <2>a. req[r].id # 0 => req[r].id <= made
    BY <1>0, <1>3, <1>a, IdFinite DEF WriteRecord, At, RequestCopy, RecordsOf, StoreOrigin, TypeInv,
      StoreOK, Id
  <2>b. \A j \in Id : j > made' => j # i /\ j > made
    <3>1. made \in Nat
      BY ScheduleBounds DEF TypeInv, StoreOK
    <3>2. \A j \in Id : j \in Nat
      BY DEF Id
    <3> QED
      BY <1>0, <2>1, <2>a, <3>1, <3>2
  <2> HIDE DEF i, rec
  <2>c. \A j \in Id : j > made' => table'[j] = NoRecord
    BY <1>a, <2>1, <2>b DEF StoreOrigin
  <2>d. \A j \in Id \ {i} : table'[j] # NoRecord =>
          table'[j].target \in Target /\ Created(table[j].target) /\ table'[j] = table[j]
    BY <1>a, <2>1 DEF StoreOrigin
  <2>e. \A j \in Id : table'[j] # NoRecord => Created(table[j].target)'
    <3>1. ASSUME NEW j \in Id, table'[j] # NoRecord
          PROVE  Created(table[j].target)'
      <4>1. Created(table'[j].target)
        BY <2>1, <2>2, <2>3, <2>d, <3>1
      <4> QED
        BY <2>1, <4>1 DEF Same, Created
    <3> QED
      BY <3>1
  <2>4. StoreOrigin'
    <3>1. \A t \in Target : flow'[t] # NoFlow => Created(t)'
      BY <1>a, <2>2 DEF StoreOrigin
    <3> QED
      BY <2>c, <2>e, <3>1 DEF StoreOrigin
  <2>5. RequestOrigin(r)'
    BY <2>1 DEF RequestOrigin, At, NextOfSave
  <2>6. RequestCopy(r)'
    BY <2>1, <2>3 DEF RequestCopy, At, HoldsRecord, NextOfSave, IsEnabled
  <2> QED
    BY <2>4, <2>5, <2>6
<1>4. CASE FindGone(r)
  <2>1. PICK i \in Id \cup {0} : Found(r, i) /\ Take(r, i, IF i = 0 THEN "done" ELSE "erase")
    BY <1>4 DEF FindGone
  <2>2. /\ Same(r) /\ req'[r].pc = (IF i = 0 THEN "done" ELSE "erase") /\ req'[r].id = i
        /\ req'[r].rec = (IF i = 0 THEN NoRecord ELSE table[i])
        /\ UNCHANGED <<flow, table, made>>
    BY <1>4, <2>1, TakeShape DEF FindGone
  <2>3. StoreOrigin'
    BY <1>a, <2>2, StoreStays
  <2>4. RequestOrigin(r)'
    BY <2>2 DEF RequestOrigin, At
  <2>5. RequestCopy(r)'
    BY <2>1, <2>2, FoundSome DEF RequestCopy, At, HoldsRecord, Same, RecordsOf
  <2> QED
    BY <2>3, <2>4, <2>5
<1>5. CASE EraseRecord(r)
  <2>1. /\ Same(r) /\ req'[r].pc = "remove" /\ req'[r].id = req[r].id /\ req[r].id \in Id
        /\ table' = [table EXCEPT ![req[r].id] = NoRecord] /\ UNCHANGED <<flow, made>>
    BY <1>0, <1>5, GotoShape DEF EraseRecord, At, RequestOK, NamesRecord
  <2>3. StoreOrigin'
    BY <1>a, <2>1 DEF StoreOrigin
  <2>4. RequestOrigin(r)'
    BY <2>1 DEF RequestOrigin, At
  <2>5. RequestCopy(r)'
    BY <1>a, <2>1 DEF RequestCopy, At, HoldsRecord, IsEnabled
  <2> QED
    BY <2>3, <2>4, <2>5
<1>6. CASE FindToggle(r)
  <2>1. PICK i \in Id \cup {0} :
          /\ Found(r, i)
          /\ Take(r, i, IF i = 0 THEN "done" ELSE IF req[r].on THEN "recheck" ELSE "toggle")
    BY <1>6 DEF FindToggle
  <2>2. /\ Same(r) /\ req'[r].id = i
        /\ req'[r].pc = (IF i = 0 THEN "done" ELSE IF req[r].on THEN "recheck" ELSE "toggle")
        /\ req'[r].rec = (IF i = 0 THEN NoRecord ELSE table[i])
        /\ UNCHANGED <<flow, table, made>>
    BY <1>6, <2>1, TakeShape DEF FindToggle
  <2>3. StoreOrigin'
    BY <1>a, <2>2, StoreStays
  <2>4. RequestOrigin(r)'
    BY <2>2 DEF RequestOrigin, At
  <2>5. RequestCopy(r)'
    BY <2>1, <2>2, FoundSome DEF RequestCopy, At, HoldsRecord, Same, RecordsOf
  <2> QED
    BY <2>3, <2>4, <2>5
<1>11. CASE FindStatus(r)
  <2>1. /\ Same(r) /\ At(r, "recheck") /\ req'[r].pc = "status"
        /\ req'[r].id = req[r].id /\ req'[r].rec = req[r].rec
        /\ UNCHANGED <<flow, table, made>>
    BY <1>11, StatusShape
  <2>3. StoreOrigin'
    BY <1>a, <2>1, StoreStays
  <2>4. RequestOrigin(r)'
    BY <2>1 DEF RequestOrigin, At
  <2>5. RequestCopy(r)'
    BY <1>a, <2>1 DEF RequestCopy, At, HoldsRecord, Same, RecordsOf
  <2> QED
    BY <2>3, <2>4, <2>5
<1>7. CASE JudgeToggle(r)
  <2>1. /\ Same(r) /\ At(r, "status") /\ req'[r].pc \in {"toggle", "done"}
        /\ req'[r].id = req[r].id /\ req'[r].rec = req[r].rec
        /\ UNCHANGED <<flow, table, made>>
    BY <1>7, GotoShape DEF JudgeToggle
  <2>3. StoreOrigin'
    BY <1>a, <2>1, StoreStays
  <2>4. RequestOrigin(r)'
    BY <2>1 DEF RequestOrigin, At
  <2>5. RequestCopy(r)'
    BY <1>a, <2>1 DEF RequestCopy, At, HoldsRecord, Same, RecordsOf
  <2> QED
    BY <2>3, <2>4, <2>5
<1>8. CASE WriteToggle(r)
  <2> DEFINE rec == [req[r].rec EXCEPT !.enabled = req[r].on]
  <2>1. /\ Same(r) /\ At(r, "toggle") /\ req'[r].id = req[r].id
        /\ req'[r].pc = (IF req[r].on THEN "reread" ELSE "remove")
        /\ table' = [table EXCEPT ![req[r].id] = rec] /\ UNCHANGED <<flow, made>>
    BY <1>8, GotoShape DEF WriteToggle
  <2>2. /\ req[r].id \in Id /\ req[r].rec = table[req[r].id] /\ req[r].rec \in Record
    BY <1>0, <1>a, <2>1 DEF RequestCopy, HoldsRecord, At, RequestOK, NamesRecord
  <2>3. rec \in Record /\ rec.target = req[r].rec.target /\ rec.enabled = req[r].on
    BY <1>0, <2>2 DEF Record
  <2> HIDE DEF rec
  <2>4. StoreOrigin'
    BY <1>a, <2>1, <2>2, <2>3, DistinctAssumption DEF StoreOrigin
  <2>5. RequestOrigin(r)'
    BY <2>1 DEF RequestOrigin, At
  <2>6. RequestCopy(r)'
    BY <1>a, <2>1, <2>2, <2>3 DEF RequestCopy, At, HoldsRecord, IsEnabled
  <2> QED
    BY <2>4, <2>5, <2>6
<1>9. CASE Reread(r)
  <2>1. req[r].id \in Id
    BY <1>0, <1>9 DEF Reread, At, RequestOK, NamesRecord
  <2>2. /\ Same(r) /\ req'[r].pc = "apply" /\ req'[r].id = req[r].id
        /\ req'[r].rec = table[req[r].id]
        /\ UNCHANGED <<flow, table, made>>
    BY <1>9, <2>1, IdFinite, TakeShape DEF Reread
  <2>3. StoreOrigin'
    BY <1>a, <2>2, StoreStays
  <2>4. RequestOrigin(r)' /\ RequestCopy(r)'
    BY <2>2 DEF RequestOrigin, RequestCopy, At, HoldsRecord
  <2> QED
    BY <2>3, <2>4
<1>10. CASE ApplyUpsert(r) \/ RemoveJob(r)
  <2>1. req'[r].pc = "done" /\ UNCHANGED <<flow, table, made>>
    BY <1>10, GotoShape DEF ApplyUpsert, RemoveJob
  <2>3. StoreOrigin'
    BY <1>a, <2>1, StoreStays
  <2>4. RequestOrigin(r)' /\ RequestCopy(r)'
    BY <2>1 DEF RequestOrigin, RequestCopy, At, HoldsRecord
  <2> QED
    BY <2>3, <2>4
<1> QED
  BY <1>1, <1>2, <1>3, <1>4, <1>5, <1>6, <1>7, <1>8, <1>9, <1>10, <1>11 DEF Serve
LEMMA ArriveAlone ==
  ASSUME Overlap = FALSE, TypeInv, AloneInv, NEW r \in Request, Arrive(r)
  PROVE  OriginInv' /\ CopyInv'
<1>1. /\ \A q \in Request : req[q].pc \in {"idle", "done"}
      /\ \A k \in Fires : fire[k].pc \in {"idle", "running"}
      /\ \A q \in Request \ {r} : req'[q] = req[q]
      /\ req'[r].pc \in {"save", "findGone", "findToggle"}
      /\ UNCHANGED <<table, made, fire>> /\ req[r].pc = "idle"
  BY ArriveShape DEF Begins, Undisturbed, Busy, Checking
<1>2. /\ StoreOrigin /\ \A q \in Request : RequestOrigin(q)
      /\ req[r].kind = "none"
      /\ \A i \in Id : table[i] # NoRecord => table[i].target \in Target
      /\ flow \in [Target -> Settings \cup {NoFlow}]
  BY <1>1 DEF AloneInv, OriginInv, RequestOrigin, At, TypeInv, StoreOK, Record
<1>3. \A t \in Target : Created(t) => Created(t)'
  BY <1>1, <1>2 DEF Created
<1>4. CopyInv'
  BY <1>1 DEF CopyInv, RequestCopy, FireCopy, At, HoldsRecord
<1>5. \A q \in Request \ {r} : RequestOrigin(q)'
  BY <1>1, <1>2 DEF RequestOrigin, At
<1>6. StoreOrigin' /\ RequestOrigin(r)'
  <2>1. ASSUME NEW t \in Target, NEW s \in Settings, BeginSave(r, t, s)
        PROVE  StoreOrigin' /\ RequestOrigin(r)'
    <3>1. /\ req'[r].pc = "save" /\ req'[r].target = t
          /\ req'[r].kind = IF flow[t] = NoFlow THEN "create" ELSE "update"
          /\ flow[t] = NoFlow => ~Created(t)
          /\ UNCHANGED <<flow, table, made>>
      BY <2>1, SaveShape
    <3>2. StoreOrigin'
      BY <1>2, <1>3, <3>1, StoreStays
    <3>3. Created(t)'
      BY <1>2, <1>3, <3>1 DEF Created, StoreOrigin
    <3>4. req'[r].kind = "create" => RecordsOf(t) = {}
      BY <1>2, <3>1 DEF StoreOrigin, RecordsOf
    <3>5. RequestOrigin(r)'
      BY <3>1, <3>3, <3>4 DEF RequestOrigin, At, Created, RecordsOf
    <3> QED
      BY <3>2, <3>5
  <2>2. ASSUME NEW t \in Target, DeleteFlow(r, t)
        PROVE  StoreOrigin' /\ RequestOrigin(r)'
    <3>1. flow' = [flow EXCEPT ![t] = NoFlow] /\ req'[r].pc = "findGone"
      BY <2>2, DeleteShape
    <3> QED
      BY <1>1, <1>2, <1>3, <3>1 DEF StoreOrigin, RequestOrigin, At
  <2>3. ASSUME NEW t \in Target, NEW on \in BOOLEAN, BeginToggle(r, t, on)
        PROVE  StoreOrigin' /\ RequestOrigin(r)'
    <3>1. req'[r].pc = "findToggle" /\ UNCHANGED <<flow, table, made>>
      BY <2>3, ToggleShape
    <3> QED
      BY <1>2, <1>3, <3>1, StoreStays DEF RequestOrigin, At
  <2> QED
    BY <2>1, <2>2, <2>3 DEF Arrive
<1> QED
  BY <1>4, <1>5, <1>6 DEF OriginInv

LEMMA CheckAlone ==
  ASSUME TypeInv, AloneInv, NEW k \in Fires, Check(k)
  PROVE  OriginInv' /\ CopyInv'
<1>1. /\ \A l \in Fires \ {k} : fire'[l] = fire[l]
      /\ UNCHANGED <<flow, made, req>>
  BY CheckShape
<1>2. /\ StoreOrigin /\ \A q \in Request : RequestOrigin(q)
      /\ \A q \in Request : RequestCopy(q)
      /\ \A l \in Fires : FireCopy(l)
      /\ \A i \in Id : table[i] # NoRecord => table[i].target \in Target
      /\ table \in [Id -> Record \cup {NoRecord}]
      /\ \A q \in Request : req[q].target \in Target
  BY LocalTypes DEF AloneInv, OriginInv, CopyInv, TypeInv, StoreOK, Record
<1>3. CASE UNCHANGED table
  <2>1. /\ StoreOrigin' /\ \A q \in Request : RequestOrigin(q)' /\ RequestCopy(q)'
    BY <1>1, <1>2, <1>3 DEF StoreOrigin, RequestOrigin, RequestCopy, Created, At, RecordsOf,
                            IsEnabled
  <2>2. \A l \in Fires \ {k} : FireCopy(l)'
    BY <1>1, <1>2, <1>3 DEF FireCopy, IsEnabled
  <2>3. FireCopy(k)'
    <3>1. CASE LoadRecord(k)
      BY <1>3, <3>1, LoadShape DEF FireCopy
    <3>2. CASE Expire(k)
      <4>1. ~IsEnabled(fire[k].id)'
        BY <1>2, <3>2, ExpireShape DEF IsEnabled, Record
      <4> QED
        BY <3>2, <4>1, ExpireShape DEF FireCopy, IsEnabled
    <3>3. CASE DropJob(k) \/ Unregister(k) \/ StartRun(k) \/ EndRun(k)
      BY <3>3, LeaveShape DEF FireCopy
    <3> QED
      BY <3>1, <3>2, <3>3 DEF Check
  <2> QED
    BY <2>1, <2>2, <2>3 DEF OriginInv, CopyInv
<1>4. CASE Expire(k)
  <2> DEFINE i == fire[k].id
             rec == [fire[k].rec EXCEPT !.enabled = FALSE]
  <2>1. /\ fire[k].pc = "judge" /\ i \in Id /\ fire[k].rec \in Record
        /\ fire'[k].pc = "unregister" /\ fire'[k].id = i
        /\ table' = [table EXCEPT ![i] = rec]
    BY <1>4, ExpireShape
  <2>2. fire[k].rec = table[i] /\ Checking(k)
    BY <1>2, <2>1 DEF FireCopy, Checking
  <2>3. rec.target = table[i].target /\ rec.enabled = FALSE /\ table[i] # NoRecord
    BY <2>1, <2>2, DistinctAssumption DEF Record
  <2>4. /\ \A q \in Request : req[q].pc \in {"idle", "done"}
        /\ \A l \in Fires \ {k} : fire[l].pc \in {"idle", "running"}
    BY <2>2, Alone DEF AloneInv
  <2> HIDE DEF i, rec
  <2>5. StoreOrigin'
    <3>1. \A j \in Id : table'[j] # NoRecord => table[j] # NoRecord /\ table'[j].target = table[j].target
      BY <1>2, <2>1, <2>3
    <3>2. \A j \in Id : table[j] = NoRecord => table'[j] = NoRecord
      BY <1>2, <2>1, <2>3
    <3>3. \A t : Created(t)' <=> Created(t)
      BY <1>1 DEF Created
    <3>4. \A j \in Id : table'[j] # NoRecord => Created(table[j].target)'
      <4>1. ASSUME NEW j \in Id, table'[j] # NoRecord
            PROVE  Created(table[j].target)'
        BY <1>1, <1>2, <3>1, <4>1 DEF StoreOrigin, Created
      <4> QED
        BY <4>1
    <3> QED
      BY <1>1, <1>2, <3>2, <3>3, <3>4 DEF StoreOrigin
  <2>6. \A q \in Request : RequestOrigin(q)' /\ RequestCopy(q)'
    BY <1>1, <1>2, <2>4 DEF RequestOrigin, RequestCopy, At, HoldsRecord
  <2>7. FireCopy(k)'
    BY <1>2, <2>1, <2>3 DEF FireCopy, IsEnabled
  <2>8. \A l \in Fires \ {k} : FireCopy(l)'
    BY <1>1, <2>4 DEF FireCopy
  <2> QED
    BY <2>5, <2>6, <2>7, <2>8 DEF OriginInv, CopyInv
<1> QED
  BY <1>3, <1>4, LoadShape, LeaveShape DEF Check, LoadRecord

LEMMA AloneStep ==
  ASSUME Overlap = FALSE, TypeInv, AloneInv, [Next]_vars
  PROVE  AloneInv'
<1>0. Exclusive'
  BY ExclusiveStep DEF AloneInv
<1>a. /\ StoreOrigin /\ \A q \in Request : RequestOrigin(q) /\ RequestCopy(q)
      /\ \A k \in Fires : FireCopy(k)
  BY DEF AloneInv, OriginInv, CopyInv
<1>1. ASSUME NEW r \in Request, Arrive(r)
      PROVE  OriginInv' /\ CopyInv'
  BY <1>1, ArriveAlone
<1>2. ASSUME NEW r \in Request, Serve(r)
      PROVE  OriginInv' /\ CopyInv'
  BY <1>2, ServeAlone
<1>3. ASSUME NEW k \in Fires, Check(k)
      PROVE  OriginInv' /\ CopyInv'
  BY <1>3, CheckAlone
<1>4. ASSUME NEW k \in Fires, NEW i \in Id, Fire(k, i)
      PROVE  OriginInv' /\ CopyInv'
  <2>1. /\ fire'[k].pc = "load" /\ \A l \in Fires \ {k} : fire'[l] = fire[l]
        /\ UNCHANGED <<flow, table, made, req>>
    BY <1>4, FireShape
  <2> QED
    BY <1>a, <2>1 DEF OriginInv, CopyInv, StoreOrigin, RequestOrigin, RequestCopy, FireCopy, Created,
                      At, RecordsOf, IsEnabled
<1>5. CASE Crash
  <2>1. /\ \A r \in Request :
              /\ req'[r].pc \in {"idle", "done"}
              /\ req'[r].pc = "idle" <=> req[r].pc = "idle"
              /\ req'[r].kind = req[r].kind /\ req'[r].target = req[r].target
        /\ \A k \in Fires : fire'[k] = fire[k] \/ fire'[k] = NoFire
        /\ UNCHANGED <<flow, table, made>>
    BY <1>5, CrashShape
  <2>2. StoreOrigin'
    BY <1>a, <2>1, StoreStays DEF Created
  <2>3. \A r \in Request : RequestOrigin(r)' /\ RequestCopy(r)'
    BY <1>a, <2>1 DEF RequestOrigin, RequestCopy, At, HoldsRecord
  <2>4. \A k \in Fires : FireCopy(k)'
    BY <1>a, <2>1, NewTypes DEF FireCopy, IsEnabled
  <2> QED
    <3>1. OriginInv'
      BY <2>2, <2>3 DEF OriginInv
    <3> QED
      BY <1>0, <2>3, <2>4, <3>1 DEF CopyInv, AloneInv
<1>6. CASE Sync \/ EndDatePasses \/ UNCHANGED vars
  <2>1. UNCHANGED <<flow, table, made, req, fire>>
    BY <1>6 DEF Sync, ReadBatch, RegisterNext, EndDatePasses, vars
  <2>2. StoreOrigin'
    BY <1>a, <2>1, StoreStays DEF Created
  <2>3. \A r \in Request : RequestOrigin(r)' /\ RequestCopy(r)'
    BY <1>a, <2>1 DEF RequestOrigin, RequestCopy, Created, At, RecordsOf, IsEnabled
  <2>4. \A k \in Fires : FireCopy(k)'
    BY <1>a, <2>1 DEF FireCopy, IsEnabled
  <2>5. OriginInv'
    BY <2>2, <2>3 DEF OriginInv
  <2> QED
    BY <1>0, <2>3, <2>4, <2>5 DEF CopyInv, AloneInv
<1> QED
  BY <1>0, <1>1, <1>2, <1>3, <1>4, <1>5, <1>6 DEF Next, Tick, AloneInv

LEMMA AloneInit == Init => AloneInv
BY NewTypes DEF Init, AloneInv, Exclusive, OriginInv, StoreOrigin, RequestOrigin, CopyInv,
  RequestCopy, FireCopy, Busy, Checking, At, HoldsRecord
-----------------------------------------------------------------------------
(* Jobs follow records.                                                    *)

(* A server without a queue reads all its records in one batch when it     *)
(* starts; with several batches, or with a queue, it must not die.         *)
OneBatch == (QueueMode = FALSE /\ MaxRecords =< BatchSize) \/ MaxCrashes = 0

(* A step that touches neither the beat, the table nor any job.            *)
LEMMA SyncStays ==
  ASSUME SyncInv, UNCHANGED <<beat, table, jobs, crashes>>,
         \A r \in Request : Busy(r)' => beat.ready,
         \A k \in Fires : Checking(k)' =>
            /\ ~Unread
            /\ \A b \in beat.batch : fire'[k].id # b.id,
         \A i \in Id : Mended(i) => Mended(i)'
  PROVE  SyncInv'
<1>1. /\ Enabled' = Enabled /\ Unread' = Unread
      /\ \A i \in Id : (Wanted(i)' = Wanted(i)) /\ (Pending(i)' = Pending(i))
                       /\ (IsEnabled(i)' = IsEnabled(i))
  BY DEF Enabled, IsEnabled, Unread, Wanted, Pending
<1>2. BeatInv'
  BY <1>1 DEF SyncInv, BeatInv, IsEnabled
<1>3. \A i \in Id : Mended(i)' \/ Pending(i)' \/ jobs'[i] = Wanted(i)'
  BY <1>1 DEF SyncInv
<1> QED
  BY <1>2, <1>3 DEF SyncInv

(* While a request is at work, no start is: every job but the one the      *)
(* request is about to mend is right.                                      *)
LEMMA RestSynced ==
  ASSUME TypeInv, Exclusive, SyncInv, NEW r \in Request, Busy(r)
  PROVE  /\ beat.ready /\ beat.batch = {} /\ ~Unread
         /\ \A i \in Id :
              (req[r].pc \in {"reread", "apply", "remove"} /\ req[r].id = i) \/ jobs[i] = Wanted(i)
<1>1. beat.ready /\ beat.batch = {} /\ ~Unread
  BY DEF SyncInv, BeatInv, Unread
<1>2. /\ \A q \in Request \ {r} : req[q].pc \in {"idle", "done"}
      /\ \A k \in Fires : fire[k].pc \in {"idle", "running"}
  BY Alone
<1> QED
  BY <1>1, <1>2 DEF SyncInv, Mended, Pending

(* After a step of a request, the beat having nothing to do.               *)
LEMMA ServedSynced ==
  ASSUME TypeInv, SyncInv, Exclusive, NEW r \in Request, Serve(r),
         \A i \in Id :
            \/ req'[r].pc \in {"reread", "apply", "remove"} /\ req'[r].id = i
            \/ jobs'[i] = Wanted(i)'
  PROVE  SyncInv'
<1>1. /\ Busy(r) /\ UNCHANGED <<beat, fire, over, crashes>>
  BY ServeShape
<1>2. beat.ready /\ beat.batch = {} /\ ~Unread
  BY <1>1, RestSynced
<1>3. BeatInv'
  BY <1>1, <1>2 DEF BeatInv, Unread
<1>4. \A i \in Id : Mended(i)' \/ Pending(i)' \/ jobs'[i] = Wanted(i)'
  BY DEF Mended
<1> QED
  BY <1>3, <1>4 DEF SyncInv

LEMMA ServeSync ==
  ASSUME TypeInv, AloneInv, SyncInv, NEW r \in Request, Serve(r)
  PROVE  SyncInv'
<1>0. /\ req[r] \in RequestState /\ RequestOK(req[r])
      /\ req[r].id \in Id \cup {0}
      /\ table \in [Id -> Record \cup {NoRecord}] /\ jobs \in [Id -> Cron \cup {NoJob}]
  BY LocalTypes DEF TypeInv, StoreOK
<1>a. /\ Exclusive /\ Busy(r) /\ StoreOrigin /\ RequestOrigin(r) /\ RequestCopy(r)
  BY ServeShape DEF AloneInv, OriginInv, CopyInv
<1>b. \A i \in Id :
        (req[r].pc \in {"reread", "apply", "remove"} /\ req[r].id = i) \/ jobs[i] = Wanted(i)
  BY <1>a, RestSynced
<1> SUFFICES \A i \in Id :
               \/ req'[r].pc \in {"reread", "apply", "remove"} /\ req'[r].id = i
               \/ jobs'[i] = Wanted(i)'
  BY <1>a, ServedSynced
<1>1. CASE \/ SaveFlow(r) \/ FindRecord(r) \/ FindGone(r)
          \/ FindToggle(r) \/ FindStatus(r) \/ JudgeToggle(r)
  <2>1. req[r].pc \notin {"reread", "apply", "remove"} /\ UNCHANGED <<table, jobs>>
    BY <1>1 DEF SaveFlow, FindRecord, FindGone, FindToggle, FindStatus, JudgeToggle, At
  <2> QED
    BY <1>b, <2>1 DEF Wanted, IsEnabled
<1>2. CASE WriteRecord(r)
  <2>1. PICK i \in Id :
          /\ req'[r].pc = NextOfSave(r) /\ req'[r].id = i
          /\ i = IF req[r].id = 0 THEN made + 1 ELSE req[r].id
          /\ table'[i] = RecordOf(req[r].target, req[r].set, Switch(r))
          /\ \A j \in Id \ {i} : table'[j] = table[j]
          /\ At(r, "write") /\ UNCHANGED jobs
    BY <1>2, WriteShape DEF WriteRecord
  <2>2. \A j \in Id : jobs[j] = Wanted(j)
    BY <1>b, <2>1 DEF At
  <2>3. CASE NextOfSave(r) # "done"
    BY <2>1, <2>2, <2>3 DEF NextOfSave, Wanted, IsEnabled
  <2>4. CASE NextOfSave(r) = "done"
    <3>1. ~Switch(r) /\ req[r].kind = "create"
      BY <2>4 DEF NextOfSave
    <3>2. req[r].id = 0
      BY <1>a, <2>1, <3>1 DEF RequestOrigin, RequestCopy, At
    <3>3. made \in Nat /\ i = made + 1
      BY <2>1, <3>2, ScheduleBounds DEF TypeInv, StoreOK
    <3>4. table[i] = NoRecord
      BY <1>a, <2>1, <3>3 DEF StoreOrigin
    <3>5. jobs[i] = NoJob
      BY <2>1, <2>2, <3>4 DEF Wanted, IsEnabled
    <3>6. Wanted(i)' = NoJob
      BY <2>1, <3>1 DEF Wanted, IsEnabled, RecordOf
    <3>7. \A j \in Id \ {i} : Wanted(j)' = Wanted(j)
      BY <2>1 DEF Wanted, IsEnabled
    <3> QED
      BY <2>1, <2>2, <3>5, <3>6, <3>7
  <2> QED
    BY <2>3, <2>4
<1>3. CASE EraseRecord(r) \/ WriteToggle(r)
  <2>1. /\ req[r].id \in Id /\ req'[r].id = req[r].id
        /\ req'[r].pc \in {"reread", "remove"} /\ UNCHANGED jobs
        /\ \A j \in Id \ {req[r].id} : table'[j] = table[j]
        /\ req[r].pc \notin {"reread", "apply", "remove"}
    BY <1>0, <1>3, GotoShape DEF EraseRecord, WriteToggle, At, RequestOK, NamesRecord
  <2> QED
    BY <1>b, <2>1 DEF Wanted, IsEnabled
<1>4. CASE Reread(r)
  <2>1. req[r].id \in Id
    BY <1>0, <1>4 DEF Reread, At, RequestOK, NamesRecord
  <2>2. req'[r].pc = "apply" /\ req'[r].id = req[r].id /\ UNCHANGED <<table, jobs>>
    BY <1>4, <2>1, IdFinite, TakeShape DEF Reread
  <2> QED
    BY <1>b, <2>2 DEF Wanted, IsEnabled
<1>5. CASE ApplyUpsert(r)
  <2>1. /\ req[r].id \in Id /\ req[r].rec = table[req[r].id] /\ UNCHANGED table
        /\ jobs' = [jobs EXCEPT ![req[r].id] =
                      IF req[r].rec # NoRecord /\ req[r].rec.enabled THEN Registered(req[r].rec.cron)
                      ELSE NoJob]
    BY <1>0, <1>5, <1>a DEF ApplyUpsert, At, RequestOK, NamesRecord, RequestCopy
  <2>2. jobs'[req[r].id] = Wanted(req[r].id)
    BY <1>0, <2>1 DEF Wanted, IsEnabled, Registered, Record
  <2>3. \A j \in Id \ {req[r].id} : jobs'[j] = jobs[j]
    BY <1>0, <2>1
  <2> QED
    BY <1>b, <2>1, <2>2, <2>3 DEF Wanted, IsEnabled
<1>6. CASE RemoveJob(r)
  <2>1. /\ req[r].id \in Id /\ ~IsEnabled(req[r].id) /\ UNCHANGED table
        /\ jobs' = [jobs EXCEPT ![req[r].id] = NoJob]
    BY <1>0, <1>6, <1>a DEF RemoveJob, At, RequestOK, NamesRecord, RequestCopy
  <2> QED
    BY <1>0, <1>b, <2>1 DEF Wanted, IsEnabled
<1> QED
  BY <1>1, <1>2, <1>3, <1>4, <1>5, <1>6 DEF Serve
(* While a fire is being checked, no request is at work and no start is    *)
(* before its first batch.                                                 *)
LEMMA CheckedSynced ==
  ASSUME TypeInv, Exclusive, SyncInv, NEW k \in Fires, Checking(k)
  PROVE  /\ ~Unread /\ \A b \in beat.batch : fire[k].id # b.id
         /\ \A r \in Request : req[r].pc \in {"idle", "done"}
         /\ \A l \in Fires \ {k} : fire[l].pc \in {"idle", "running"}
         /\ \A i \in Id :
              \/ fire[k].pc = "unregister" /\ fire[k].id = i
              \/ Pending(i) \/ jobs[i] = Wanted(i)
<1>1. ~Unread /\ \A b \in beat.batch : fire[k].id # b.id
  BY DEF SyncInv, BeatInv
<1>2. /\ \A r \in Request : req[r].pc \in {"idle", "done"}
      /\ \A l \in Fires \ {k} : fire[l].pc \in {"idle", "running"}
  BY Alone
<1> QED
  BY <1>1, <1>2 DEF SyncInv, Mended

LEMMA CheckSync ==
  ASSUME TypeInv, AloneInv, SyncInv, NEW k \in Fires, Check(k)
  PROVE  SyncInv'
<1>0. /\ Exclusive /\ FireCopy(k) /\ \A l \in Fires \ {k} : fire'[l] = fire[l]
      /\ UNCHANGED <<flow, made, beat, req, over, crashes>>
      /\ table \in [Id -> Record \cup {NoRecord}] /\ jobs \in [Id -> Cron \cup {NoJob}]
      /\ fire[k].pc # "idle" => fire[k].id \in Id
  BY CheckShape, LocalTypes DEF AloneInv, CopyInv, TypeInv, StoreOK, FireOK
<1>a. \A r \in Request : Busy(r)' => beat.ready
  BY <1>0 DEF SyncInv, BeatInv, Busy
<1>1. CASE LoadRecord(k)
  <2>1. /\ Checking(k) /\ fire'[k].id = fire[k].id /\ fire[k].pc # "unregister"
        /\ UNCHANGED <<table, jobs>>
    BY <1>1, LoadShape DEF LoadRecord, Checking
  <2>2. \A l \in Fires : Checking(l)' =>
          ~Unread /\ \A b \in beat.batch : fire'[l].id # b.id
    BY <1>0, <2>1, CheckedSynced DEF Checking
  <2>3. \A i \in Id : Mended(i) => Mended(i)'
    BY <1>0, <2>1 DEF Mended
  <2> QED
    BY <1>0, <1>a, <2>1, <2>2, <2>3, SyncStays
<1>2. CASE StartRun(k) \/ EndRun(k)
  <2>1. fire'[k].pc \in {"idle", "running"} /\ fire[k].pc # "unregister"
        /\ UNCHANGED <<table, jobs>>
    BY <1>2, LeaveShape DEF StartRun, EndRun
  <2>2. \A l \in Fires : Checking(l)' =>
          ~Unread /\ \A b \in beat.batch : fire'[l].id # b.id
    BY <1>0, <2>1, CheckedSynced DEF Checking
  <2>3. \A i \in Id : Mended(i) => Mended(i)'
    BY <1>0, <2>1 DEF Mended
  <2> QED
    BY <1>0, <1>a, <2>1, <2>2, <2>3, SyncStays
<1>3. CASE DropJob(k) \/ Unregister(k)
  <2>1. PICK i \in Id : fire[k].id = i /\ ~IsEnabled(i)
    BY <1>0, <1>3 DEF DropJob, Unregister, FireCopy, Drops, IsEnabled
  <2>2. /\ Checking(k) /\ fire'[k].pc \in {"idle", "running"}
        /\ jobs' = [jobs EXCEPT ![i] = NoJob] /\ UNCHANGED table
    BY <1>3, <2>1, LeaveShape DEF DropJob, Unregister, Checking
  <2>3. /\ ~Unread /\ \A b \in beat.batch : i # b.id
        /\ \A r \in Request : req[r].pc \in {"idle", "done"}
        /\ \A l \in Fires \ {k} : fire[l].pc \in {"idle", "running"}
        /\ \A j \in Id : j = i \/ Pending(j) \/ jobs[j] = Wanted(j)
    BY <1>0, <2>1, <2>2, CheckedSynced
  <2>4. /\ Enabled' = Enabled /\ Unread' = Unread
        /\ \A j \in Id : (Wanted(j)' = Wanted(j)) /\ (Pending(j)' = Pending(j))
                         /\ (IsEnabled(j)' = IsEnabled(j))
    BY <1>0, <2>2 DEF Enabled, IsEnabled, Unread, Wanted, Pending
  <2>5. Wanted(i) = NoJob
    BY <2>1 DEF Wanted
  <2>6. \A j \in Id : Pending(j)' \/ jobs'[j] = Wanted(j)'
    BY <1>0, <2>2, <2>3, <2>4, <2>5
  <2>7. /\ \A b \in beat.batch : b.id \in Id /\ jobs'[b.id] = jobs[b.id]
        /\ \A l \in Fires : ~Checking(l)'
    BY <1>0, <2>2, <2>3 DEF TypeInv, StoreOK, Checking
  <2>8. BeatInv'
    BY <1>0, <1>a, <2>2, <2>3, <2>4, <2>7 DEF SyncInv, BeatInv, IsEnabled
  <2> QED
    BY <2>6, <2>8 DEF SyncInv
<1>4. CASE Expire(k)
  <2>1. PICK i \in Id : fire[k].id = i
    BY <1>0, <1>4 DEF Expire
  <2>2. /\ fire[k].pc = "judge" /\ fire[k].rec \in Record /\ fire[k].rec = table[i] /\ Checking(k)
        /\ fire'[k].pc = "unregister" /\ fire'[k].id = i
        /\ \A j \in Id \ {i} : table'[j] = table[j]
        /\ table'[i] = [fire[k].rec EXCEPT !.enabled = FALSE]
        /\ UNCHANGED jobs
    BY <1>0, <1>4, <2>1, ExpireShape DEF FireCopy, Checking, Expire
  <2>3. /\ ~Unread /\ \A b \in beat.batch : i # b.id
        /\ \A l \in Fires \ {k} : fire[l].pc \in {"idle", "running"}
        /\ \A j \in Id : Pending(j) \/ jobs[j] = Wanted(j)
    BY <1>0, <2>1, <2>2, CheckedSynced
  <2>4. ~IsEnabled(i)' /\ table[i] # NoRecord
    BY <2>2, DistinctAssumption DEF IsEnabled, Record
  <2>5. /\ Unread' = Unread
        /\ \A j \in Id : Pending(j)' = Pending(j)
        /\ \A j \in Id \ {i} : (Wanted(j)' = Wanted(j)) /\ (IsEnabled(j)' = IsEnabled(j))
    BY <1>0, <2>2 DEF IsEnabled, Unread, Wanted, Pending
  <2>6. \A j \in Id : Mended(j)' \/ Pending(j)' \/ jobs'[j] = Wanted(j)'
    BY <2>2, <2>3, <2>5 DEF Mended
  <2>7. Cardinality(Enabled') \in Nat /\ Cardinality(Enabled') <= Cardinality(Enabled)
    <3>1. Enabled' \subseteq Enabled
      BY <2>2, <2>4, <2>5 DEF Enabled
    <3> QED
      BY <3>1, EnabledFinite, FS_Subset, FS_CardinalityType
  <2>8. \A b \in beat.batch : b.id \in Id \ {i}
    BY <2>3 DEF TypeInv, StoreOK
  <2>9. \A l \in Fires : Checking(l)' => l = k
    BY <1>0, <2>3 DEF Checking
  <2>10. ~(~beat.ready /\ crashes = 0)
    BY <2>4 DEF SyncInv, BeatInv
  <2>11. ~beat.ready /\ ~Unread => Cardinality(Enabled') <= beat.skip
    BY <2>7, EnabledFinite DEF SyncInv, BeatInv, TypeInv, StoreOK
  <2>12. \A b \in beat.batch :
           /\ IsEnabled(b.id)' /\ b.cron = table'[b.id].cron /\ jobs'[b.id] = NoJob
           /\ \A l \in Fires : Checking(l)' => fire'[l].id # b.id
    BY <2>2, <2>3, <2>5, <2>8, <2>9 DEF SyncInv, BeatInv, IsEnabled
  <2>13. beat.ready => beat.batch = {}
    BY DEF SyncInv, BeatInv
  <2>14. BeatInv'
    BY <1>0, <1>a, <2>3, <2>5, <2>10, <2>11, <2>12, <2>13 DEF BeatInv, IsEnabled
  <2> QED
    BY <2>6, <2>14 DEF SyncInv
<1> QED
  BY <1>1, <1>2, <1>3, <1>4 DEF Check
(* How far a record is from the start of the list.                         *)
LEMMA RankBounds ==
  ASSUME NEW i \in Enabled
  PROVE  Rank(i) < MaxRecords /\ Rank(i) < Cardinality(Enabled)
<1> DEFINE S == {j \in Enabled : j < i}
<1>0. i \in Nat /\ i >= 1 /\ i <= MaxRecords /\ MaxRecords \in Nat /\ Enabled \subseteq Id
  BY ScheduleBounds DEF Enabled, Id
<1>1. S \subseteq 1 .. (i - 1) /\ IsFiniteSet(1 .. (i - 1)) /\ Cardinality(1 .. (i - 1)) = i - 1
  <2>1. \A j \in S : j \in Nat /\ j >= 1 /\ j <= i - 1
    BY <1>0 DEF Id
  <2> DEFINE n == i - 1
  <2>2. \A j \in S : j \in 1 .. n
    BY <1>0, <2>1
  <2>a. n \in Nat
    BY <1>0
  <2> HIDE DEF n
  <2>3. n \in Int /\ (1 > n => n = 0) /\ n - 1 + 1 = n
    BY <2>a
  <2>4. IsFiniteSet(1 .. n) /\ Cardinality(1 .. n) = n
    <3>1. Cardinality(1 .. n) = (IF 1 > n THEN 0 ELSE n - 1 + 1) /\ IsFiniteSet(1 .. n)
      BY <2>3, FS_Interval
    <3> QED
      BY <2>3, <3>1
  <2> QED
    BY <2>2, <2>4 DEF n
<1>2. Cardinality(S) <= i - 1 /\ Cardinality(S) \in Nat
  BY <1>1, FS_Subset, FS_CardinalityType
<1>3. S \subseteq Enabled \ {i} /\ IsFiniteSet(Enabled)
  BY <1>0, EnabledFinite
<1>4. /\ IsFiniteSet(Enabled \ {i}) /\ Cardinality(Enabled \ {i}) = Cardinality(Enabled) - 1
      /\ Cardinality(Enabled) \in Nat
  BY <1>3, EnabledFinite, FS_RemoveElement
<1>5. Cardinality(S) <= Cardinality(Enabled) - 1
  BY <1>3, <1>4, FS_Subset
<1>6. Rank(i) = Cardinality(S)
  BY DEF Rank
<1> HIDE DEF S
<1> QED
  BY <1>0, <1>2, <1>4, <1>5, <1>6

LEMMA ReadSync ==
  ASSUME OneBatch, TypeInv, SyncInv, ReadBatch
  PROVE  SyncInv'
<1> DEFINE bs == {[id |-> i, cron |-> table[i].cron] : i \in Batch}
<1>0. /\ ~beat.ready /\ beat.batch = {}
      /\ beat' = [ready |-> Batch = {}, skip |-> beat.skip + Cardinality(Batch), batch |-> bs]
      /\ UNCHANGED <<flow, table, made, jobs, req, fire, over, crashes>>
      /\ beat.skip \in Nat /\ crashes \in 0 .. MaxCrashes
  BY DEF ReadBatch, Batch, TypeInv, StoreOK
<1>1. /\ \A i \in Id : (Wanted(i)' = Wanted(i)) /\ (IsEnabled(i)' = IsEnabled(i))
                       /\ (Mended(i)' = Mended(i))
      /\ Enabled' = Enabled
      /\ \A r \in Request : Busy(r)' = Busy(r)
      /\ \A k \in Fires : Checking(k)' = Checking(k)
  BY <1>0 DEF Enabled, IsEnabled, Wanted, Mended, Busy, Checking
<1>2. \A r \in Request : ~Busy(r)
  BY <1>0 DEF SyncInv, BeatInv
<1>3. ~beat.ready' /\ crashes' = 0 => \A i \in Id : table'[i] = NoRecord
  BY <1>0 DEF SyncInv, BeatInv
<1>4. CASE beat.skip = 0
  <2>1. /\ Unread /\ \A i \in Id : jobs[i] = NoJob
        /\ \A k \in Fires : ~Checking(k)
    BY <1>0, <1>4 DEF Unread, SyncInv, BeatInv
  <2>2. Batch = Enabled
    <3>1. CASE MaxCrashes = 0
      <4>1. \A i \in Id : table[i] = NoRecord
        BY <1>0, <3>1 DEF SyncInv, BeatInv
      <4> QED
        BY <4>1 DEF Batch, Enabled, IsEnabled
    <3>2. CASE MaxRecords =< BatchSize
      <4>1. \A i \in Enabled : Rank(i) \in Nat /\ Rank(i) < BatchSize
        <5>1. \A i \in Enabled : i \in Id
          BY DEF Enabled
        <5>2. \A i \in Enabled : Rank(i) \in Nat /\ Rank(i) < MaxRecords
          BY <5>1, RankBounds, EnabledFinite
        <5> QED
          BY <3>2, <5>2, ScheduleBounds
      <4> QED
        BY <1>4, <4>1, ScheduleBounds DEF Batch
    <3> QED
      BY <3>1, <3>2 DEF OneBatch
  <2>3. /\ beat'.ready = (Enabled = {}) /\ beat'.skip = Cardinality(Enabled)
        /\ beat'.batch = bs
    BY <1>0, <1>4, <2>2, EnabledFinite
  <2>4. Enabled = {} => bs = {}
    BY <2>2
  <2>5. Enabled # {} => Cardinality(Enabled) # 0
    BY EnabledFinite, FS_EmptySet
  <2>6. ~Unread'
    BY <2>3, <2>5 DEF Unread
  <2>7. \A b \in bs : b.id \in Enabled /\ b.cron = table[b.id].cron
    BY <2>2
  <2>8. \A i \in Enabled : \E b \in bs : b.id = i
    <3> TAKE i \in Enabled
    <3>1. [id |-> i, cron |-> table[i].cron] \in bs
      BY <2>2
    <3> QED
      BY <3>1
  <2> HIDE DEF bs
  <2>9. BeatInv'
    <3>1. \A b \in beat'.batch :
            /\ IsEnabled(b.id)' /\ b.cron = table'[b.id].cron /\ jobs'[b.id] = NoJob
            /\ \A k \in Fires : Checking(k)' => fire'[k].id # b.id
      BY <1>0, <1>1, <2>1, <2>3, <2>7 DEF Enabled, IsEnabled
    <3>2. \A r \in Request : ~Busy(r)'
      BY <1>1, <1>2
    <3>3. beat'.ready => beat'.batch = {}
      BY <2>3, <2>4
    <3>4. Cardinality(Enabled') <= beat'.skip
      BY <1>1, <2>3, EnabledFinite
    <3> QED
      BY <1>3, <2>6, <3>1, <3>2, <3>3, <3>4 DEF BeatInv, IsEnabled
  <2>10. ASSUME NEW i \in Id
         PROVE  Mended(i)' \/ Pending(i)' \/ jobs'[i] = Wanted(i)'
    <3>1. CASE i \in Enabled
      BY <2>3, <2>8, <3>1 DEF Pending
    <3>2. CASE i \notin Enabled
      BY <1>0, <1>1, <2>1, <3>2 DEF Wanted, Enabled
    <3> QED
      BY <3>1, <3>2
  <2> QED
    BY <2>9, <2>10 DEF SyncInv
<1>5. CASE beat.skip # 0
  <2>1. ~Unread
    BY <1>5 DEF Unread
  <2>2. Batch = {}
    <3>1. Cardinality(Enabled) <= beat.skip
      BY <1>0, <2>1 DEF SyncInv, BeatInv
    <3>2. \A i \in Enabled : ~(beat.skip <= Rank(i))
      <4>1. \A i \in Enabled : i \in Id
        BY DEF Enabled
      <4>2. \A i \in Enabled : Rank(i) \in Nat /\ Rank(i) < Cardinality(Enabled)
        BY <4>1, RankBounds, EnabledFinite
      <4> QED
        BY <1>0, <3>1, <4>2, EnabledFinite
    <3> QED
      BY <3>2 DEF Batch
  <2>3. beat'.ready /\ beat'.batch = {}
    BY <1>0, <2>2
  <2>4. BeatInv'
    BY <1>0, <1>3, <2>3 DEF BeatInv, Unread
  <2>5. \A i \in Id : ~Pending(i)
    BY <1>0, <2>1 DEF Pending
  <2>6. \A i \in Id : Mended(i)' \/ Pending(i)' \/ jobs'[i] = Wanted(i)'
    BY <1>0, <1>1, <2>5 DEF SyncInv
  <2> QED
    BY <2>4, <2>6 DEF SyncInv
<1> QED
  BY <1>4, <1>5

LEMMA RegisterSync ==
  ASSUME TypeInv, SyncInv, RegisterNext
  PROVE  SyncInv'
<1>1. PICK b \in beat.batch :
        jobs' = [jobs EXCEPT ![b.id] = Registered(b.cron)] /\ beat' = [beat EXCEPT !.batch = @ \ {b}]
  BY DEF RegisterNext
<1>2. /\ UNCHANGED <<flow, table, made, req, fire, over, crashes>>
      /\ beat'.ready = beat.ready /\ beat'.skip = beat.skip /\ beat'.batch = beat.batch \ {b}
      /\ \A x \in beat.batch : x \in [id : Id, cron : Cron]
      /\ jobs \in [Id -> Cron \cup {NoJob}]
  BY <1>1 DEF RegisterNext, TypeInv, StoreOK
<1>3. ~beat.ready /\ ~Unread
  BY DEF SyncInv, BeatInv
<1>4. /\ \A i \in Id : (Wanted(i)' = Wanted(i)) /\ (IsEnabled(i)' = IsEnabled(i))
                       /\ (Mended(i)' = Mended(i))
      /\ Enabled' = Enabled /\ ~Unread'
      /\ \A r \in Request : Busy(r)' = Busy(r)
      /\ \A k \in Fires : Checking(k)' = Checking(k)
  BY <1>2, <1>3 DEF Enabled, IsEnabled, Wanted, Mended, Busy, Checking, Unread
<1>5. \A x \in beat.batch :
        /\ IsEnabled(x.id) /\ x.cron = table[x.id].cron /\ jobs[x.id] = NoJob
        /\ \A k \in Fires : Checking(k) => fire[k].id # x.id
  BY DEF SyncInv, BeatInv
<1>6. \A x \in beat.batch \ {b} : x.id # b.id
  <2> TAKE x \in beat.batch \ {b}
  <2>1. x.id = b.id => x.cron = b.cron
    BY <1>5
  <2>2. x = [id |-> x.id, cron |-> x.cron] /\ b = [id |-> b.id, cron |-> b.cron]
    BY <1>2
  <2> QED
    BY <2>1, <2>2
<1>7. \A x \in beat'.batch :
        /\ IsEnabled(x.id)' /\ x.cron = table'[x.id].cron /\ jobs'[x.id] = NoJob
        /\ \A k \in Fires : Checking(k)' => fire'[k].id # x.id
  BY <1>1, <1>2, <1>4, <1>5, <1>6
<1>8. BeatInv'
  BY <1>2, <1>3, <1>4, <1>7 DEF SyncInv, BeatInv, IsEnabled
<1>9. ASSUME NEW i \in Id
      PROVE  Mended(i)' \/ Pending(i)' \/ jobs'[i] = Wanted(i)'
  <2>1. CASE i = b.id
    <3>1. jobs'[i] = Registered(b.cron) /\ b.cron \in Cron
      BY <1>1, <1>2, <2>1
    <3>2. IsEnabled(i) /\ b.cron = table[i].cron
      BY <1>5, <2>1
    <3> QED
      BY <1>4, <3>1, <3>2 DEF Wanted, Registered
  <2>2. CASE i # b.id
    <3>1. jobs'[i] = jobs[i] /\ (Pending(i) => Pending(i)')
      BY <1>1, <1>2, <1>3, <2>2 DEF Pending
    <3> QED
      BY <1>4, <3>1 DEF SyncInv
  <2> QED
    BY <2>1, <2>2
<1> QED
  BY <1>8, <1>9 DEF SyncInv

LEMMA SyncStep ==
  ASSUME Overlap = FALSE, OneBatch, TypeInv, AloneInv, SyncInv, [Next]_vars
  PROVE  SyncInv'
<1>0. /\ \A r \in Request : Busy(r) => beat.ready
      /\ \A k \in Fires : Checking(k) =>
           ~Unread /\ \A b \in beat.batch : fire[k].id # b.id
  BY DEF SyncInv, BeatInv
<1>1. ASSUME NEW r \in Request, Arrive(r)
      PROVE  SyncInv'
  <2>1. /\ Begins(r) /\ \A q \in Request \ {r} : req'[q] = req[q]
        /\ req'[r].pc \in {"save", "findGone", "findToggle"}
        /\ UNCHANGED <<table, made, jobs, beat, fire, over, crashes>>
    BY <1>1, ArriveShape
  <2>2. \A i \in Id : Mended(i) => Mended(i)'
    BY <2>1 DEF Mended, Begins
  <2>3. \A k \in Fires : Checking(k)' = Checking(k)
    BY <2>1 DEF Checking
  <2> QED
    BY <1>0, <2>1, <2>2, <2>3, SyncStays DEF Begins
<1>2. ASSUME NEW r \in Request, Serve(r)
      PROVE  SyncInv'
  BY <1>2, ServeSync
<1>3. ASSUME NEW k \in Fires, Check(k)
      PROVE  SyncInv'
  BY <1>3, CheckSync
<1>4. ASSUME NEW k \in Fires, NEW i \in Id, Fire(k, i)
      PROVE  SyncInv'
  <2>1. /\ fire[k].pc = "idle" /\ jobs[i] # NoJob /\ fire'[k].id = i
        /\ \A l \in Fires \ {k} : fire'[l] = fire[l]
        /\ UNCHANGED <<flow, table, made, jobs, beat, req, over, crashes>>
    BY <1>4, FireShape
  <2>2. ~Unread /\ \A b \in beat.batch : i # b.id
    BY <2>1 DEF SyncInv, BeatInv
  <2>3. \A l \in Fires : Checking(l)' =>
          ~Unread /\ \A b \in beat.batch : fire'[l].id # b.id
    BY <1>0, <2>1, <2>2 DEF Checking
  <2>4. \A j \in Id : Mended(j) => Mended(j)'
    BY <2>1 DEF Mended
  <2>5. \A r \in Request : Busy(r)' => beat.ready
    BY <1>0, <2>1 DEF Busy
  <2> QED
    BY <2>1, <2>3, <2>4, <2>5, SyncStays
<1>5. CASE Crash
  <2>1. QueueMode = FALSE /\ crashes' # 0
    BY <1>5, ScheduleBounds DEF OneBatch, Crash, TypeInv, StoreOK
  <2>2. /\ beat' = Starting /\ jobs' = [i \in Id |-> NoJob] /\ fire' = [k \in Fires |-> NoFire]
        /\ \A r \in Request : ~Busy(r)'
    BY <1>5, <2>1, CrashShape DEF Crash, Busy
  <2>3. /\ Unread' /\ beat'.batch = {}
        /\ \A k \in Fires : ~Checking(k)'
    BY <2>2, NewTypes DEF Starting, Unread, Checking
  <2>4. BeatInv'
    BY <2>1, <2>2, <2>3 DEF BeatInv, Unread
  <2> QED
    BY <2>3, <2>4 DEF SyncInv, Pending
<1>6. CASE ReadBatch
  BY <1>6, ReadSync
<1>7. CASE RegisterNext
  BY <1>7, RegisterSync
<1>8. CASE EndDatePasses \/ UNCHANGED vars
  <2>1. UNCHANGED <<flow, table, made, jobs, beat, req, fire, crashes>>
    BY <1>8 DEF EndDatePasses, vars
  <2>2. /\ \A r \in Request : Busy(r)' = Busy(r)
        /\ \A k \in Fires : Checking(k)' = Checking(k)
        /\ \A i \in Id : Mended(i)' = Mended(i)
    BY <2>1 DEF Busy, Checking, Mended
  <2> QED
    BY <1>0, <2>1, <2>2, SyncStays
<1> QED
  BY <1>1, <1>2, <1>3, <1>4, <1>5, <1>6, <1>7, <1>8 DEF Next, Tick, Sync

LEMMA SyncInit == Init => SyncInv
BY NewTypes DEF Init, SyncInv, BeatInv, Mended, Pending, Wanted, IsEnabled, Unread, Starting, Busy,
  Checking

LEMMA AloneAlways == ASSUME Overlap = FALSE PROVE Spec => [](TypeInv /\ AloneInv)
<1>1. Init => TypeInv /\ AloneInv
  BY InitType, AloneInit
<1>2. TypeInv /\ AloneInv /\ [Next]_vars => (TypeInv /\ AloneInv)'
  BY TypeStep, AloneStep
<1> QED
  BY <1>1, <1>2, PTL DEF Spec

(* When requests and fires do not overlap, the jobs are in sync with the   *)
(* records whenever nothing is under way: after any series of saves,       *)
(* deletions, toggles and fires, and after a restart of a server that      *)
(* keeps its jobs in memory and reads its records in one batch.            *)
THEOREM JobsInSync ==
  ASSUME Overlap = FALSE, (QueueMode = FALSE /\ MaxRecords =< BatchSize) \/ MaxCrashes = 0
  PROVE  Spec => []InSync
<1>1. Init => TypeInv /\ AloneInv /\ SyncInv
  BY InitType, AloneInit, SyncInit
<1>2. OneBatch
  BY DEF OneBatch
<1>3. TypeInv /\ AloneInv /\ SyncInv /\ [Next]_vars => (TypeInv /\ AloneInv /\ SyncInv)'
  BY <1>2, TypeStep, AloneStep, SyncStep
<1>4. SyncInv => InSync
  BY DEF SyncInv, BeatInv, InSync, Quiet, Mended, Pending, Unread, Wanted, Busy, Checking
<1> QED
  BY <1>1, <1>3, <1>4, PTL DEF Spec
-----------------------------------------------------------------------------
(* Records follow chatflows.                                               *)

(* A chatflow whose settings and records a step leaves alone.              *)
LEMMA SettledStays ==
  ASSUME TypeInv, TypeInv', NEW t \in Target, flow'[t] = flow[t],
         \A i \in Id : table'[i] = table[i]
                       \/ (  /\ table[i] # NoRecord => table[i].target # t
                             /\ table'[i] # NoRecord => table'[i].target # t)
  PROVE  /\ RecordsOf(t)' = RecordsOf(t)
         /\ Settled(t) => Settled(t)'
         /\ Single(t) => Single(t)'
<1>1. RecordsOf(t)' = RecordsOf(t)
  BY DEF RecordsOf
<1>2. \A i \in RecordsOf(t) : table'[i] = table[i] /\ i \in Id
  BY DEF RecordsOf
<1>3. ASSUME Given(t) PROVE Given(t)'
  <2>1. PICK i \in RecordsOf(t) :
          /\ table[i] = RecordOf(t, flow[t], table[i].enabled)
          /\ table[i].enabled => flow[t].cron # Invalid /\ flow[t].input = "given"
    BY <1>3 DEF Given
  <2>2. /\ table'[i] = RecordOf(t, flow[t], table[i].enabled)'
        /\ table'[i].enabled => flow'[t].cron # Invalid /\ flow'[t].input = "given"
    BY <1>2, <2>1 DEF RecordOf, StoredCron
  <2> QED
    BY <1>1, <2>1, <2>2 DEF Given
<1> QED
  BY <1>1, <1>3 DEF Settled, Single

(* What a step of a request has to show.                                   *)
LEMMA ServedFollows ==
  ASSUME TypeInv, TypeInv', AloneInv, FollowInv, NEW r \in Request, Serve(r), crashes = 0,
         NEW t \in Target, req[r].target = t,
         \A u \in Target \ {t} : flow'[u] = flow[u],
         \A i \in Id : table'[i] = table[i]
                       \/ (  /\ table[i] # NoRecord => table[i].target = t
                             /\ table'[i] # NoRecord => table'[i].target = t),
         Single(t)', Writes(t)' \/ Settled(t)', RequestFollow(r)'
  PROVE  FollowInv'
<1>1. Busy(r) /\ Same(r) /\ \A q \in Request \ {r} : req[q].pc \in {"idle", "done"}
  BY ServeShape, Alone DEF AloneInv
<1>2. \A q \in Request \ {r} : RequestFollow(q)'
  BY <1>1 DEF Same, RequestFollow, At
<1>3. ASSUME NEW u \in Target \ {t}
      PROVE  Single(u)' /\ Settled(u)'
  <2>1. ~Writes(u)
    BY <1>1 DEF Writes
  <2>2. Single(u) /\ Settled(u)
    BY <2>1 DEF FollowInv
  <2>3. \A i \in Id : table'[i] = table[i]
                       \/ (  /\ table[i] # NoRecord => table[i].target # u
                             /\ table'[i] # NoRecord => table'[i].target # u)
    OBVIOUS
  <2> QED
    BY <2>2, <2>3, SettledStays
<1>4. \A u \in Target : Single(u)' /\ (Writes(u)' \/ Settled(u)')
  BY <1>3
<1> QED
  BY <1>2, <1>4 DEF FollowInv

LEMMA ServeFollow ==
  ASSUME TypeInv, TypeInv', AloneInv, FollowInv, NEW r \in Request, Serve(r), crashes = 0
  PROVE  FollowInv'
<1>0. PICK t \in Target, s \in Settings : req[r].target = t /\ req[r].set = s
  BY LocalTypes
<1>a. /\ req[r].id \in Id \cup {0} /\ req[r].on \in BOOLEAN /\ RequestOK(req[r])
      /\ table \in [Id -> Record \cup {NoRecord}] /\ flow \in [Target -> Settings \cup {NoFlow}]
      /\ s \in Setting /\ s # NoFlow
  BY LocalTypes, SettingsAssumption, DistinctAssumption DEF TypeInv, StoreOK
<1>b. /\ RequestOrigin(r) /\ RequestCopy(r) /\ StoreOrigin
      /\ RequestFollow(r) /\ Single(t) /\ (Writes(t) \/ Settled(t))
  BY DEF AloneInv, OriginInv, CopyInv, FollowInv
<1>c. /\ Same(r) /\ Busy(r)
      /\ \A q \in Request \ {r} : req[q].pc \in {"idle", "done"}
  BY ServeShape, Alone DEF AloneInv
<1>d. req[r].pc \notin {"find", "write", "findGone", "erase"} => Settled(t)
  BY <1>b, <1>c DEF Writes
<1>e. req'[r].target = t /\ req'[r].set = s /\ req'[r].kind = req[r].kind /\ req'[r].on = req[r].on
  BY <1>0, <1>c DEF Same
<1>1. CASE SaveFlow(r)
  <2>1. /\ At(r, "save") /\ flow' = [flow EXCEPT ![t] = s] /\ UNCHANGED table
        /\ req'[r].pc = IF s.scheduled THEN IF s.input = "unset" THEN "done" ELSE "find"
                        ELSE IF req[r].kind = "create" THEN "done" ELSE "findGone"
    BY <1>0, <1>1, GotoShape DEF SaveFlow
  <2>2. flow'[t] = s /\ RecordsOf(t)' = RecordsOf(t)
    BY <1>a, <2>1 DEF RecordsOf
  <2>3. RequestFollow(r)'
    BY <1>e, <2>1, <2>2 DEF RequestFollow, At
  <2>4. Single(t)'
    BY <1>b, <2>2 DEF Single
  <2>5. Writes(t)' \/ Settled(t)'
    <3>1. CASE req'[r].pc \in {"find", "findGone"}
      BY <1>e, <3>1 DEF Writes
    <3>2. CASE req'[r].pc = "done" /\ s.scheduled
      BY <1>a, <2>1, <2>2, <3>2 DEF Settled
    <3>3. CASE req'[r].pc = "done" /\ ~s.scheduled
      <4>1. RecordsOf(t) = {}
        BY <1>0, <1>b, <2>1, <3>3 DEF RequestOrigin, At
      <4> QED
        BY <2>2, <3>3, <4>1 DEF Settled
    <3> QED
      BY <2>1, <3>1, <3>2, <3>3
  <2>6. \A u \in Target \ {t} : flow'[u] = flow[u]
    BY <1>a, <2>1
  <2> QED
    BY <1>0, <2>1, <2>3, <2>4, <2>5, <2>6, ServedFollows
<1>2. CASE FindRecord(r)
  <2>1. At(r, "find") /\ req'[r].pc = "write" /\ UNCHANGED <<flow, table>>
    BY <1>2, TakeShape DEF FindRecord
  <2>2. Single(t)' /\ Writes(t)' /\ RequestFollow(r)'
    BY <1>0, <1>b, <1>e, <2>1 DEF Single, RecordsOf, Writes, RequestFollow, At
  <2> QED
    BY <1>0, <2>1, <2>2, ServedFollows
<1>3. CASE WriteRecord(r)
  <2>1. PICK i \in Id :
          /\ req'[r].pc = NextOfSave(r)
          /\ i = IF req[r].id = 0 THEN made + 1 ELSE req[r].id
          /\ table'[i] = RecordOf(t, s, Switch(r)) /\ Switch(r) \in BOOLEAN
          /\ \A j \in Id \ {i} : table'[j] = table[j]
          /\ At(r, "write") /\ UNCHANGED flow
    BY <1>0, <1>3, WriteShape DEF WriteRecord
  <2>2. flow[t] = s /\ s.scheduled /\ s.input # "unset"
    BY <1>0, <1>b, <2>1 DEF RequestFollow, At
  <2>3. /\ RecordOf(t, s, Switch(r)) \in Record /\ RecordOf(t, s, Switch(r)).target = t
        /\ RecordOf(t, s, Switch(r)).enabled = Switch(r)
        /\ table'[i] # NoRecord
    BY <2>1, RecordTypes, DistinctAssumption DEF RecordOf
  <2>4. RecordsOf(t) \subseteq {i} /\ (table[i] # NoRecord => table[i].target = t)
    <3>1. CASE req[r].id = 0
      <4>1. RecordsOf(t) = {}
        BY <1>0, <1>b, <2>1, <3>1 DEF RequestCopy, At
      <4>2. table[i] = NoRecord
        BY <1>b, <2>1, <3>1, ScheduleBounds DEF StoreOrigin, TypeInv, StoreOK
      <4> QED
        BY <4>1, <4>2
    <3>2. CASE req[r].id # 0
      <4>1. i \in RecordsOf(t)
        BY <1>0, <1>b, <2>1, <3>2 DEF RequestCopy, At
      <4> QED
        BY <1>b, <4>1 DEF Single, RecordsOf
    <3> QED
      BY <3>1, <3>2
  <2>5. RecordsOf(t)' = {i}
    <3>1. i \in RecordsOf(t)'
      BY <2>1, <2>3 DEF RecordsOf
    <3>2. ASSUME NEW j \in RecordsOf(t)', j # i PROVE FALSE
      <4>1. j \in Id /\ table'[j] # NoRecord /\ table'[j].target = t
        BY DEF RecordsOf
      <4>2. table[j] # NoRecord /\ table[j].target = t
        BY <2>1, <3>2, <4>1
      <4> QED
        BY <2>4, <3>2, <4>1, <4>2 DEF RecordsOf
    <3> QED
      BY <3>1, <3>2
  <2>6. Switch(r) => s.cron # Invalid /\ s.input = "given"
    BY <1>0 DEF Switch, CanEnable
  <2>7. Given(t)'
    <3>1. table'[i] = RecordOf(t, flow[t], table[i].enabled)'
      BY <2>1, <2>2, <2>3 DEF RecordOf, StoredCron
    <3>2. table'[i].enabled => flow'[t].cron # Invalid /\ flow'[t].input = "given"
      BY <2>1, <2>2, <2>3, <2>6
    <3> QED
      BY <2>5, <3>1, <3>2 DEF Given
  <2>8. Settled(t)'
    BY <1>a, <2>1, <2>2, <2>7 DEF Settled
  <2>9. Single(t)'
    BY <2>5 DEF Single
  <2>10. RequestFollow(r)'
    BY <2>1 DEF RequestFollow, At, NextOfSave
  <2>11. \A j \in Id : table'[j] = table[j]
                       \/ (  /\ table[j] # NoRecord => table[j].target = t
                             /\ table'[j] # NoRecord => table'[j].target = t)
    BY <2>1, <2>3, <2>4
  <2> QED
    BY <1>0, <2>1, <2>8, <2>9, <2>10, <2>11, ServedFollows
<1>4. CASE FindGone(r)
  <2>1. PICK i \in Id \cup {0} : Found(r, i) /\ Take(r, i, IF i = 0 THEN "done" ELSE "erase")
    BY <1>4 DEF FindGone
  <2>2. /\ At(r, "findGone") /\ req'[r].pc = (IF i = 0 THEN "done" ELSE "erase")
        /\ UNCHANGED <<flow, table>>
    BY <1>4, <2>1, TakeShape DEF FindGone
  <2>3. flow[t] = NoFlow \/ ~flow[t].scheduled
    BY <1>0, <1>b, <2>2 DEF RequestFollow, At
  <2>4. Single(t)' /\ RequestFollow(r)'
    BY <1>b, <1>e, <2>2, <2>3 DEF Single, RecordsOf, RequestFollow, At
  <2>5. Writes(t)' \/ Settled(t)'
    <3>1. CASE i = 0
      BY <1>0, <2>1, <2>2, <2>3, <3>1, FoundSome DEF Settled, RecordsOf
    <3>2. CASE i # 0
      BY <1>e, <2>2, <3>2 DEF Writes
    <3> QED
      BY <3>1, <3>2
  <2> QED
    BY <1>0, <2>2, <2>4, <2>5, ServedFollows
<1>5. CASE EraseRecord(r)
  <2>1. PICK i \in Id :
          /\ req[r].id = i /\ At(r, "erase") /\ req'[r].pc = "remove"
          /\ table' = [table EXCEPT ![i] = NoRecord] /\ UNCHANGED flow
    BY <1>5, <1>a, GotoShape DEF EraseRecord, At, RequestOK, NamesRecord
  <2>2. i \in RecordsOf(t)
    BY <1>0, <1>b, <2>1 DEF RequestCopy, At, HoldsRecord
  <2>3. RecordsOf(t)' = {}
    BY <1>a, <1>b, <2>1, <2>2 DEF RecordsOf, Single
  <2>4. flow[t] = NoFlow \/ ~flow[t].scheduled
    BY <1>0, <1>b, <2>1 DEF RequestFollow, At
  <2>5. Single(t)' /\ Settled(t)' /\ RequestFollow(r)'
    BY <2>1, <2>3, <2>4 DEF Single, Settled, RequestFollow, At
  <2>6. \A j \in Id : table'[j] = table[j]
                       \/ (  /\ table[j] # NoRecord => table[j].target = t
                             /\ table'[j] # NoRecord => table'[j].target = t)
    BY <1>a, <2>1, <2>2 DEF RecordsOf
  <2> QED
    BY <1>0, <2>1, <2>5, <2>6, ServedFollows
<1>6. CASE FindToggle(r)
  <2>1. /\ At(r, "findToggle") /\ UNCHANGED <<flow, table>>
        /\ req'[r].pc \in {"done", "recheck", "toggle"}
        /\ req'[r].pc = "toggle" => ~req[r].on
    BY <1>6, TakeShape DEF FindToggle
  <2>2. Settled(t) /\ RequestFollow(r)'
    BY <1>d, <1>e, <2>1 DEF RequestFollow, At
  <2>3. Single(t)' /\ Settled(t)'
    BY <1>b, <2>1, <2>2, SettledStays
  <2> QED
    BY <1>0, <2>1, <2>2, <2>3, ServedFollows
<1>10. CASE FindStatus(r)
  <2>1. At(r, "recheck") /\ req'[r].pc = "status" /\ UNCHANGED <<flow, table>>
    BY <1>10, StatusShape
  <2>2. Settled(t) /\ RequestFollow(r)'
    BY <1>d, <1>e, <2>1 DEF RequestFollow, At
  <2>3. Single(t)' /\ Settled(t)'
    BY <1>b, <2>1, <2>2, SettledStays
  <2> QED
    BY <1>0, <2>1, <2>2, <2>3, ServedFollows
<1>7. CASE JudgeToggle(r)
  <2>1. PICK can \in Verdicts(t, req[r].seen) : Goto(r, IF can THEN "toggle" ELSE "done")
    BY <1>0, <1>7 DEF JudgeToggle
  <2>2. /\ At(r, "status") /\ UNCHANGED <<flow, table>>
        /\ req'[r].pc = IF can THEN "toggle" ELSE "done"
    BY <1>7, <2>1, GotoShape DEF JudgeToggle
  <2>3. can => /\ flow[t] # NoFlow /\ flow[t].scheduled
               /\ flow[t].cron # Invalid /\ flow[t].input # "empty"
    <3>1. SUFFICES ASSUME can
                   PROVE  /\ flow[t] # NoFlow /\ flow[t].scheduled
                          /\ flow[t].cron # Invalid /\ flow[t].input # "empty"
      OBVIOUS
    <3>2. flow[t] # NoFlow /\ flow[t].scheduled /\ flow[t].cron # Invalid
      BY <2>1, <3>1 DEF Verdicts
    <3>3. flow[t].input # "empty"
      BY <2>1, <3>1, <3>2 DEF Verdicts
    <3> QED
      BY <3>2, <3>3
  <2>4. Settled(t) /\ RequestFollow(r)'
    BY <1>d, <1>e, <2>2, <2>3 DEF RequestFollow, At
  <2>5. Single(t)' /\ Settled(t)'
    BY <1>b, <2>2, <2>4, SettledStays
  <2> QED
    BY <1>0, <2>2, <2>4, <2>5, ServedFollows
<1>8. CASE WriteToggle(r)
  <2>1. PICK i \in Id :
          /\ req[r].id = i /\ At(r, "toggle")
          /\ req'[r].pc = (IF req[r].on THEN "reread" ELSE "remove")
          /\ table' = [table EXCEPT ![i] = [req[r].rec EXCEPT !.enabled = req[r].on]]
          /\ UNCHANGED flow
    BY <1>8, <1>a, GotoShape DEF WriteToggle, At, RequestOK, NamesRecord
  <2>2. i \in RecordsOf(t) /\ req[r].rec = table[i] /\ table[i] \in Record
    BY <1>0, <1>a, <1>b, <2>1 DEF RequestCopy, At, HoldsRecord, RecordsOf
  <2>3. /\ table'[i] = [table[i] EXCEPT !.enabled = req[r].on]
        /\ table'[i] \in Record /\ table'[i].target = t /\ table'[i].enabled = req[r].on
        /\ table'[i] # NoRecord
        /\ \A j \in Id \ {i} : table'[j] = table[j]
    BY <1>a, <2>1, <2>2, DistinctAssumption DEF Record, RecordsOf
  <2>4. RecordsOf(t)' = RecordsOf(t)
    BY <2>2, <2>3 DEF RecordsOf
  <2>5. Settled(t)
    BY <1>d, <2>1 DEF At
  <2>6. flow[t] # NoFlow /\ flow[t].scheduled /\ flow[t].input # "unset" => Given(t)'
    <3>1. SUFFICES ASSUME flow[t] # NoFlow, flow[t].scheduled, flow[t].input # "unset"
                   PROVE  Given(t)'
      OBVIOUS
    <3>2. table[i] = RecordOf(t, flow[t], table[i].enabled)
      BY <1>b, <2>2, <2>5, <3>1 DEF Settled, Given, Single
    <3>3. table'[i] = RecordOf(t, flow[t], req[r].on)
      BY <2>3, <3>2 DEF RecordOf
    <3>4. req[r].on => flow[t].cron # Invalid /\ flow[t].input = "given"
      <4>1. flow[t] \in Setting
        BY <1>a, <3>1, SettingsAssumption
      <4> QED
        BY <1>0, <1>b, <2>1, <3>1, <4>1 DEF RequestFollow, At, Setting
    <3>5. table'[i] = RecordOf(t, flow[t], table[i].enabled)'
      BY <2>1, <2>3, <3>3 DEF RecordOf, StoredCron
    <3>6. table'[i].enabled => flow'[t].cron # Invalid /\ flow'[t].input = "given"
      BY <2>1, <2>3, <3>4
    <3> QED
      BY <2>2, <2>4, <3>5, <3>6 DEF Given
  <2>7. Settled(t)'
    BY <2>1, <2>4, <2>5, <2>6 DEF Settled
  <2>8. Single(t)' /\ RequestFollow(r)'
    BY <1>b, <2>1, <2>4 DEF Single, RequestFollow, At
  <2>9. \A j \in Id : table'[j] = table[j]
                       \/ (  /\ table[j] # NoRecord => table[j].target = t
                             /\ table'[j] # NoRecord => table'[j].target = t)
    BY <2>2, <2>3 DEF RecordsOf
  <2> QED
    BY <1>0, <2>1, <2>7, <2>8, <2>9, ServedFollows
<1>9. CASE Reread(r) \/ ApplyUpsert(r) \/ RemoveJob(r)
  <2>1. /\ req[r].pc \in {"reread", "apply", "remove"} /\ req'[r].pc \in {"apply", "done"}
        /\ UNCHANGED <<flow, table>>
    BY <1>9, <1>a, TakeShape, GotoShape DEF Reread, ApplyUpsert, RemoveJob, At
  <2>2. Settled(t) /\ RequestFollow(r)'
    BY <1>d, <2>1 DEF RequestFollow, At
  <2>3. Single(t)' /\ Settled(t)'
    BY <1>b, <2>1, <2>2, SettledStays
  <2> QED
    BY <1>0, <2>1, <2>2, <2>3, ServedFollows
<1> QED
  BY <1>1, <1>2, <1>3, <1>4, <1>5, <1>6, <1>7, <1>8, <1>9, <1>10 DEF Serve
(* A step that leaves the requests, the chatflows and the table alone.     *)
LEMMA FollowStays ==
  ASSUME TypeInv, TypeInv', FollowInv, UNCHANGED <<flow, table, req, crashes>>
  PROVE  FollowInv'
<1>1. \A t \in Target : /\ Settled(t) => Settled(t)'
                        /\ Single(t) => Single(t)'
                        /\ Writes(t) => Writes(t)'
  BY SettledStays DEF Writes
<1>2. \A r \in Request : RequestFollow(r) => RequestFollow(r)'
  BY DEF RequestFollow, At
<1> QED
  BY <1>1, <1>2 DEF FollowInv

LEMMA ArriveFollow ==
  ASSUME Overlap = FALSE, TypeInv, TypeInv', AloneInv, FollowInv, NEW r \in Request, Arrive(r),
         crashes = 0
  PROVE  FollowInv'
<1>1. /\ \A q \in Request : req[q].pc \in {"idle", "done"}
      /\ \A q \in Request \ {r} : req'[q] = req[q]
      /\ UNCHANGED <<table, crashes>>
  BY ArriveShape DEF Begins, Undisturbed, Busy
<1>2. \A u \in Target : Single(u) /\ Settled(u)
  BY <1>1 DEF FollowInv, Writes
<1>3. \A q \in Request \ {r} : RequestFollow(q)'
  BY <1>1 DEF RequestFollow, At
<1>4. \A u \in Target : flow'[u] = flow[u] => Single(u)' /\ Settled(u)'
  BY <1>1, <1>2, SettledStays
<1>5. \A u \in Target : Single(u)'
  BY <1>1, <1>2 DEF Single, RecordsOf
<1>6. ASSUME NEW t \in Target, NEW s \in Settings, BeginSave(r, t, s)
      PROVE  FollowInv'
  <2>1. /\ req'[r].pc = "save" /\ req'[r].target = t /\ UNCHANGED flow
        /\ req'[r].kind = IF flow[t] = NoFlow THEN "create" ELSE "update"
    BY <1>6, SaveShape
  <2>2. RequestFollow(r)'
    BY <2>1 DEF RequestFollow, At
  <2> QED
    BY <1>3, <1>4, <2>1, <2>2 DEF FollowInv
<1>7. ASSUME NEW t \in Target, DeleteFlow(r, t)
      PROVE  FollowInv'
  <2>1. /\ req'[r].pc = "findGone" /\ req'[r].target = t
        /\ flow' = [flow EXCEPT ![t] = NoFlow]
    BY <1>7, DeleteShape
  <2>2. flow'[t] = NoFlow /\ \A u \in Target \ {t} : flow'[u] = flow[u]
    BY <2>1 DEF TypeInv, StoreOK
  <2>3. RequestFollow(r)' /\ Writes(t)'
    BY <2>1, <2>2 DEF RequestFollow, At, Writes
  <2> QED
    BY <1>3, <1>4, <1>5, <2>2, <2>3 DEF FollowInv
<1>8. ASSUME NEW t \in Target, NEW on \in BOOLEAN, BeginToggle(r, t, on)
      PROVE  FollowInv'
  <2>1. req'[r].pc = "findToggle" /\ UNCHANGED flow
    BY <1>8, ToggleShape
  <2>2. RequestFollow(r)'
    BY <2>1 DEF RequestFollow, At
  <2> QED
    BY <1>3, <1>4, <2>1, <2>2 DEF FollowInv
<1> QED
  BY <1>6, <1>7, <1>8 DEF Arrive

LEMMA ExpireFollow ==
  ASSUME TypeInv, TypeInv', AloneInv, FollowInv, NEW k \in Fires, Expire(k), crashes = 0
  PROVE  FollowInv'
<1>1. PICK i \in Id :
        /\ fire[k].id = i /\ fire[k].pc = "judge" /\ fire[k].rec \in Record
        /\ table' = [table EXCEPT ![i] = [fire[k].rec EXCEPT !.enabled = FALSE]]
  BY ExpireShape
<1>2. fire[k].rec = table[i] /\ table[i] \in Record
  BY <1>1 DEF AloneInv, CopyInv, FireCopy
<1>3. /\ table'[i] \in Record /\ table'[i] # NoRecord /\ table[i] # NoRecord
      /\ table'[i].target = table[i].target /\ table'[i].cron = table[i].cron
      /\ table'[i].input = table[i].input /\ table'[i].ends = table[i].ends
      /\ table'[i].enabled = FALSE
      /\ \A j \in Id \ {i} : table'[j] = table[j]
  <2>1. table'[i] = [table[i] EXCEPT !.enabled = FALSE] /\ \A j \in Id \ {i} : table'[j] = table[j]
    BY <1>1, <1>2 DEF TypeInv, StoreOK
  <2>2. /\ [table[i] EXCEPT !.enabled = FALSE] \in Record
        /\ [table[i] EXCEPT !.enabled = FALSE].target = table[i].target
        /\ [table[i] EXCEPT !.enabled = FALSE].cron = table[i].cron
        /\ [table[i] EXCEPT !.enabled = FALSE].input = table[i].input
        /\ [table[i] EXCEPT !.enabled = FALSE].ends = table[i].ends
        /\ [table[i] EXCEPT !.enabled = FALSE].enabled = FALSE
    BY <1>2 DEF Record
  <2> QED
    BY <1>2, <2>1, <2>2, DistinctAssumption
<1>4. \A r \in Request : req[r].pc \in {"idle", "done"}
  BY <1>1, Alone DEF AloneInv, Checking
<1>5. UNCHANGED <<flow, req, crashes>>
  BY DEF Expire
<1>6. \A r \in Request : RequestFollow(r)'
  BY <1>4, <1>5 DEF RequestFollow, At
<1>7. ASSUME NEW t \in Target
      PROVE  Single(t)' /\ Settled(t)'
  <2>1. Single(t) /\ Settled(t)
    BY <1>4 DEF FollowInv, Writes
  <2>2. RecordsOf(t)' = RecordsOf(t)
    BY <1>3 DEF RecordsOf
  <2>3. ASSUME Given(t) PROVE Given(t)'
    <3>1. PICK j \in RecordsOf(t) :
            /\ table[j] = RecordOf(t, flow[t], table[j].enabled)
            /\ table[j].enabled => flow[t].cron # Invalid /\ flow[t].input = "given"
      BY <2>3 DEF Given
    <3>2. CASE j = i
      <4>0. /\ table'[i].target = t /\ table'[i].cron = StoredCron(flow[t])
            /\ table'[i].input = (flow[t].input = "given") /\ table'[i].ends = flow[t].ends
        BY <1>3, <3>1, <3>2 DEF RecordOf
      <4>1. table'[i] = RecordOf(t, flow[t], FALSE)
        BY <1>3, <4>0 DEF Record, RecordOf
      <4>2. table'[i] = RecordOf(t, flow[t], table[i].enabled)'
        BY <1>3, <1>5, <4>1 DEF RecordOf, StoredCron
      <4> QED
        BY <1>3, <2>2, <3>1, <3>2, <4>2 DEF Given
    <3>3. CASE j # i
      <4>1. table'[j] = table[j] /\ flow' = flow
        BY <1>3, <1>5, <3>1, <3>3 DEF RecordsOf
      <4>2. table'[j] = RecordOf(t, flow[t], table[j].enabled)'
        BY <3>1, <4>1 DEF RecordOf, StoredCron
      <4> QED
        BY <2>2, <3>1, <4>1, <4>2 DEF Given
    <3> QED
      BY <3>2, <3>3
  <2> QED
    BY <1>5, <2>1, <2>2, <2>3 DEF Single, Settled
<1> QED
  BY <1>6, <1>7 DEF FollowInv

LEMMA FollowStep ==
  ASSUME Overlap = FALSE, TypeInv, AloneInv, FollowInv, [Next]_vars
  PROVE  FollowInv'
<1>0. TypeInv'
  BY TypeStep
<1>1. CASE crashes # 0 \/ Crash
  <2>1. crashes' # 0
    <3>1. crashes \in Nat
      BY ScheduleBounds DEF TypeInv, StoreOK
    <3>2. CASE Crash
      BY <3>1, <3>2 DEF Crash
    <3>3. CASE ~Crash
      BY <1>1, <3>3, ArriveShape, ServeShape, CheckShape, FireShape
         DEF Next, Tick, Sync, ReadBatch, RegisterNext, EndDatePasses, vars
    <3> QED
      BY <3>2, <3>3
  <2> QED
    BY <2>1 DEF FollowInv
<1>2. CASE crashes = 0 /\ ~Crash
  <2>1. ASSUME NEW r \in Request, Arrive(r)
        PROVE  FollowInv'
    BY <1>0, <1>2, <2>1, ArriveFollow
  <2>2. ASSUME NEW r \in Request, Serve(r)
        PROVE  FollowInv'
    BY <1>0, <1>2, <2>2, ServeFollow
  <2>3. ASSUME NEW k \in Fires, Check(k)
        PROVE  FollowInv'
    <3>1. CASE Expire(k)
      BY <1>0, <1>2, <3>1, ExpireFollow
    <3>2. CASE ~Expire(k)
      <4>1. UNCHANGED <<flow, table, req, crashes>>
        BY <2>3, <3>2, CheckShape, LeaveShape DEF Check, LoadRecord
      <4> QED
        BY <1>0, <4>1, FollowStays
    <3> QED
      BY <3>1, <3>2
  <2>4. ASSUME NEW k \in Fires, NEW i \in Id, Fire(k, i)
        PROVE  FollowInv'
    BY <1>0, <2>4, FireShape, FollowStays
  <2>5. CASE Sync \/ EndDatePasses \/ UNCHANGED vars
    <3>1. UNCHANGED <<flow, table, req, crashes>>
      BY <2>5 DEF Sync, ReadBatch, RegisterNext, EndDatePasses, vars
    <3> QED
      BY <1>0, <3>1, FollowStays
  <2> QED
    BY <1>2, <2>1, <2>2, <2>3, <2>4, <2>5 DEF Next, Tick
<1> QED
  BY <1>1, <1>2

LEMMA FollowInit == Init => FollowInv
BY NewTypes DEF Init, FollowInv, Single, Settled, RecordsOf, RequestFollow, At

(* When requests and fires do not overlap, no save, deletion, toggle or    *)
(* fire leaves a chatflow with a record of other settings, with a second   *)
(* record, or with one that is enabled and cannot run.                     *)
THEOREM RecordsFollowFlows ==
  ASSUME Overlap = FALSE
  PROVE  Spec => []RecordFollowsFlow
<1>1. Init => TypeInv /\ AloneInv /\ FollowInv
  BY InitType, AloneInit, FollowInit
<1>2. TypeInv /\ AloneInv /\ FollowInv /\ [Next]_vars => (TypeInv /\ AloneInv /\ FollowInv)'
  BY TypeStep, AloneStep, FollowStep
<1>3. FollowInv => RecordFollowsFlow
  <2> SUFFICES ASSUME FollowInv, Quiet, crashes = 0, NEW t \in Target
               PROVE  /\ flow[t] = NoFlow \/ ~flow[t].scheduled => RecordsOf(t) = {}
                      /\ (flow[t] # NoFlow /\ flow[t].scheduled /\ flow[t].input # "unset") =>
                           \E i \in Id :
                             /\ RecordsOf(t) = {i}
                             /\ table[i] = RecordOf(t, flow[t], table[i].enabled)
                             /\ table[i].enabled =>
                                  flow[t].cron # Invalid /\ flow[t].input = "given"
    BY DEF RecordFollowsFlow
  <2>1. Single(t) /\ Settled(t)
    BY DEF FollowInv, Quiet, Busy, Writes
  <2>2. Given(t) =>
          \E i \in Id :
            /\ RecordsOf(t) = {i}
            /\ table[i] = RecordOf(t, flow[t], table[i].enabled)
            /\ table[i].enabled => flow[t].cron # Invalid /\ flow[t].input = "given"
    BY <2>1 DEF Given, Single, RecordsOf
  <2> QED
    BY <2>1, <2>2 DEF Settled
<1> QED
  BY <1>1, <1>2, <1>3, PTL DEF Spec
=============================================================================
