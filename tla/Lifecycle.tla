------------------------------ MODULE Lifecycle ------------------------------
(***************************************************************************)
(* The API requests that change a schedule: schedule_service.py (look the  *)
(* schedule up, 404 if it is gone) and lifecycle.py (create, apply,        *)
(* run_now, delete).                                                       *)
(*                                                                         *)
(* Every request is a coroutine on one event loop.  Between two awaits it  *)
(* runs alone, and an awaited MongoDB operation takes effect at some       *)
(* moment before the coroutine is resumed, so an action here is either one *)
(* such stretch of code or one database operation:                         *)
(*                                                                         *)
(*    Call   --  the lookup reads the document                             *)
(*    decide --  the checks, the disarm, and the next operation is sent    *)
(*    write / insert / remove / revert / uncreate  --  MongoDB applies it  *)
(*    arm / armNew  --  the coroutine is resumed and adds the job          *)
(*                                                                         *)
(* pause and resume are the PATCH-like requests whose only change is the   *)
(* status: the service sends both through the same apply.                  *)
(***************************************************************************)
EXTENDS ScheduleStore

CONSTANTS
    Clients,     \* concurrent callers; each has at most one request in flight
    Calls        \* the requests they make, without the schedule they name

Ops == {"create", "patch", "pause", "resume", "delete", "run"}

\* status and trigger are what the request asks for, "keep" when it is silent.
CallShapes == [op : Ops, status : {"keep", "active", "paused"}, trigger : Triggers \cup {"keep"}]

ASSUME CallsAssumption ==
    /\ Calls \subseteq CallShapes
    /\ \A c \in Calls :
          /\ c.op = "pause" => c.status = "paused"
          /\ c.op = "resume" => c.status = "active"
          /\ c.op \in {"create", "delete", "run"} => c.status = "keep"
          /\ c.op = "create" => c.trigger # "keep"
          /\ c.op \notin {"create", "patch"} => c.trigger = "keep"

VARIABLE req     \* req[r]: Idle, or where client r's request stands

lifecycleVars == <<req>>

Steps == {"decide", "insert", "armNew", "uncreate", "write", "arm", "revert", "remove"}

Idle == [at |-> "idle"]

Requests == [at : Steps, call : Calls, id : Schedules, seen : Docs]

LifecycleTypeOK == req \in [Clients -> {Idle} \cup Requests]

LifecycleInit == req = [r \in Clients |-> Idle]

-----------------------------------------------------------------------------
(* What a request in flight has computed from the document it read. *)

Busy(r) == req[r] # Idle
On(r, s) == Busy(r) /\ req[r].id = s
At(r, step) == Busy(r) /\ req[r].at = step

Goto(r, step) == req' = [req EXCEPT ![r].at = step]
Return(r) == req' = [req EXCEPT ![r] = Idle]

\* The trigger the edited copy of the loaded document has.
EditedTrigger(r) ==
    IF req[r].call.trigger = "keep" THEN req[r].seen.trigger ELSE req[r].call.trigger

EditedStatus(r) ==
    IF req[r].call.status = "keep" THEN req[r].seen.status ELSE req[r].call.status

Resuming(r) == req[r].call.status = "active" /\ req[r].seen.status # "active"

TriggerChanged(r) == req[r].call.trigger # "keep"

Rearms(r) == EditedStatus(r) = "active" /\ (Resuming(r) \/ TriggerChanged(r))

\* d with the fields the request changes set from `from': the partial $set.
SetFields(r, d, status, trigger, errors) ==
    [ status  |-> IF req[r].call.status = "keep" THEN d.status ELSE status,
      trigger |-> IF TriggerChanged(r) THEN trigger ELSE d.trigger,
      errors  |-> IF Resuming(r) THEN errors ELSE d.errors ]

-----------------------------------------------------------------------------
(* The lookup: Schedule.get for a request on an existing schedule, the name *)
(* check for a create, whose document id no one else can name yet.         *)

Lookup(r, s, c) ==
    /\ ~Busy(r)
    /\ c.op # "create"
    /\ Exists(s)
    /\ req' = [req EXCEPT ![r] = [at |-> "decide", call |-> c, id |-> s, seen |-> doc[s]]]
    /\ UNCHANGED storeVars

LookupName(r, s, c) ==
    /\ ~Busy(r)
    /\ c.op = "create"
    /\ doc[s].status = "absent"
    /\ \A q \in Clients : ~On(q, s)
    /\ req' = [req EXCEPT ![r] = [at |-> "decide", call |-> c, id |-> s, seen |-> doc[s]]]
    /\ UNCHANGED storeVars

-----------------------------------------------------------------------------
(* create *)

\* Seeded bug: the trigger of a new schedule is not checked.
CreateUnchecked(r) ==
    /\ At(r, "decide")
    /\ req[r].call.op = "create"
    /\ Goto(r, "insert")
    /\ UNCHANGED storeVars

CreateAccepted(r) ==
    /\ At(r, "decide")
    /\ req[r].call.op = "create"
    /\ Armable(req[r].call.trigger)
    /\ Goto(r, "insert")
    /\ UNCHANGED storeVars

Inserted(r) ==
    [doc EXCEPT ![req[r].id] =
        [status |-> "active", trigger |-> req[r].call.trigger, errors |-> 0]]

Insert(r) ==
    /\ At(r, "insert")
    /\ doc' = Inserted(r)
    /\ Goto(r, "armNew")
    /\ UNCHANGED <<job, queued, expired>>

ArmNew(r) ==
    /\ At(r, "armNew")
    /\ Arm(req[r].id, req[r].call.trigger)
    /\ Return(r)
    /\ UNCHANGED <<doc, queued, expired>>

\* The job could not be added: `await schedule.delete()', then re-raise.
Uncreate(r) ==
    /\ At(r, "uncreate")
    /\ doc' = [doc EXCEPT ![req[r].id].status = "deleted"]
    /\ Return(r)
    /\ UNCHANGED <<job, queued, expired>>

-----------------------------------------------------------------------------
(* apply, reached by PATCH, pause and resume *)

\* pause of a paused schedule and resume of an active one never reach apply.
NothingToDo(r) ==
    /\ At(r, "decide")
    /\ req[r].call.op \in {"pause", "resume"}
    /\ req[r].call.status = req[r].seen.status
    /\ Return(r)
    /\ UNCHANGED storeVars

Reaches(r) ==
    /\ At(r, "decide")
    /\ req[r].call.op \in {"patch", "pause", "resume"}
    /\ req[r].call.op # "patch" => req[r].call.status # req[r].seen.status

\* Seeded bug: the save alone, the job stays.
SaveInactive(r) ==
    /\ Reaches(r)
    /\ EditedStatus(r) # "active"
    /\ TriggerChanged(r) => EditedTrigger(r) \notin Invalid
    /\ Goto(r, "write")
    /\ UNCHANGED storeVars

\* The edited schedule is not active: disarm before the save.
DisarmThenSave(r) ==
    /\ Reaches(r)
    /\ EditedStatus(r) # "active"
    /\ TriggerChanged(r) => EditedTrigger(r) \notin Invalid
    /\ Disarm(req[r].id)
    /\ Goto(r, "write")
    /\ UNCHANGED <<doc, queued, expired>>

\* Nothing the job depends on changed: save only.
SaveOnly(r) ==
    /\ Reaches(r)
    /\ EditedStatus(r) = "active"
    /\ ~Rearms(r)
    /\ Goto(r, "write")
    /\ UNCHANGED storeVars

\* The job is to follow the save; the trigger is checked first.
SaveThenArm(r) ==
    /\ Reaches(r)
    /\ Rearms(r)
    /\ Armable(EditedTrigger(r))
    /\ Goto(r, "write")
    /\ UNCHANGED storeVars

\* 422: a trigger that cannot be built, or armed when it must be.
Refused(r) ==
    /\ At(r, "decide")
    /\ \/ req[r].call.op = "create" /\ ~Armable(req[r].call.trigger)
       \/ Reaches(r) /\ Rearms(r) /\ ~Armable(EditedTrigger(r))
       \/ Reaches(r) /\ ~Rearms(r) /\ TriggerChanged(r) /\ EditedTrigger(r) \in Invalid
    /\ Return(r)
    /\ UNCHANGED storeVars

\* Seeded bug: becoming active keeps the error count.
SavedKeepingErrors(r) ==
    LET s == req[r].id IN
    [doc EXCEPT ![s] = SetFields(r, doc[s], req[r].call.status, req[r].call.trigger, doc[s].errors)]

Saved(r) ==
    LET s == req[r].id IN
    [doc EXCEPT ![s] = SetFields(r, doc[s], req[r].call.status, req[r].call.trigger, 0)]

\* Seeded bug: a full-document save (an upsert) instead of the partial $set.
WriteWhole(r) ==
    /\ At(r, "write")
    /\ doc' = [doc EXCEPT ![req[r].id] =
                 SetFields(r, req[r].seen, req[r].call.status, req[r].call.trigger, 0)]
    /\ IF Rearms(r) THEN Goto(r, "arm") ELSE Return(r)
    /\ UNCHANGED <<job, queued, expired>>

\* The $set reaches a document that is still there.
Write(r) ==
    /\ At(r, "write")
    /\ Exists(req[r].id)
    /\ doc' = Saved(r)
    /\ IF Rearms(r) THEN Goto(r, "arm") ELSE Return(r)
    /\ UNCHANGED <<job, queued, expired>>

\* The document was deleted meanwhile: nothing is written, and the driver
\* either raises or reports a write that matched nothing.
WriteMissed(r) ==
    /\ At(r, "write")
    /\ ~Exists(req[r].id)
    /\ \/ Return(r)
       \/ Rearms(r) /\ Goto(r, "arm")
    /\ UNCHANGED storeVars

\* Seeded bug: arms with the trigger of the document as loaded.
ArmLoaded(r) ==
    /\ At(r, "arm")
    /\ Arm(req[r].id, req[r].seen.trigger)
    /\ Return(r)
    /\ UNCHANGED <<doc, queued, expired>>

\* Seeded bug: arms with the trigger field of the request, present or not.
ArmRequested(r) ==
    /\ At(r, "arm")
    /\ Arm(req[r].id, req[r].call.trigger)
    /\ Return(r)
    /\ UNCHANGED <<doc, queued, expired>>

ArmEdited(r) ==
    /\ At(r, "arm")
    /\ Arm(req[r].id, EditedTrigger(r))
    /\ Return(r)
    /\ UNCHANGED <<doc, queued, expired>>

\* Seeded bug: only the status is put back.
RevertStatus(r) ==
    /\ At(r, "revert")
    /\ doc' = IF Exists(req[r].id)
              THEN [doc EXCEPT ![req[r].id].status = req[r].seen.status]
              ELSE doc
    /\ Return(r)
    /\ UNCHANGED <<job, queued, expired>>

\* The job could not be added: put the fields back as they were when read.
Revert(r) ==
    LET s == req[r].id
        seen == req[r].seen
    IN
    /\ At(r, "revert")
    /\ doc' = IF Exists(s)
              THEN [doc EXCEPT ![s] = SetFields(r, doc[s], seen.status, seen.trigger, seen.errors)]
              ELSE doc
    /\ Return(r)
    /\ UNCHANGED <<job, queued, expired>>

-----------------------------------------------------------------------------
(* run_now and delete *)

QueueRunNow(r) ==
    /\ At(r, "decide")
    /\ req[r].call.op = "run"
    /\ queued' = queued \cup {req[r].id}
    /\ Return(r)
    /\ UNCHANGED <<doc, job, expired>>

\* Seeded bug: the document goes, its job stays.
DeleteOnly(r) ==
    /\ At(r, "decide")
    /\ req[r].call.op = "delete"
    /\ Goto(r, "remove")
    /\ UNCHANGED storeVars

DisarmThenDelete(r) ==
    /\ At(r, "decide")
    /\ req[r].call.op = "delete"
    /\ Disarm(req[r].id)
    /\ Goto(r, "remove")
    /\ UNCHANGED <<doc, queued, expired>>

Remove(r) ==
    /\ At(r, "remove")
    /\ doc' = [doc EXCEPT ![req[r].id].status = "deleted"]
    /\ Return(r)
    /\ UNCHANGED <<job, queued, expired>>

-----------------------------------------------------------------------------
(* A call of the request raises, to the database or to the jobstore: without *)
(* effect (StepFails), or after it took effect (ReplyLost).  `create' and   *)
(* `apply' catch only a failure to add the job, and undo their write;       *)
(* everything else leaves the request as an error response.                *)

\* The next thing the request does is to remove the job.
Disarms(r) ==
    \/ At(r, "decide") /\ req[r].call.op = "delete"
    \/ /\ Reaches(r)
       /\ EditedStatus(r) # "active"
       /\ TriggerChanged(r) => EditedTrigger(r) \notin Invalid

Uses(r) ==   \* the step the request is at calls the database or the jobstore
    \/ req[r].at # "decide"
    \/ req[r].call.op = "run"
    \/ Disarms(r)

\* Seeded bug: a failed arm is reported, and nothing undone.
FailsWithoutUndo(r) ==
    /\ Busy(r)
    /\ Uses(r)
    /\ Return(r)
    /\ UNCHANGED storeVars

StepFails(r) ==
    /\ Busy(r)
    /\ Uses(r)
    /\ CASE At(r, "armNew") -> Goto(r, "uncreate")
         [] At(r, "arm")    -> Goto(r, "revert")
         [] OTHER           -> Return(r)
    /\ UNCHANGED storeVars

WriteReplyLost(r) ==
    /\ \/ At(r, "insert") /\ doc' = Inserted(r)
       \/ At(r, "write") /\ Exists(req[r].id) /\ doc' = Saved(r)
    /\ Return(r)
    /\ UNCHANGED <<job, queued, expired>>

\* The job is there, and undoing the write does not remove it.
ArmReplyLost(r) ==
    /\ \/ At(r, "armNew") /\ Arm(req[r].id, req[r].call.trigger) /\ Goto(r, "uncreate")
       \/ At(r, "arm") /\ Arm(req[r].id, EditedTrigger(r)) /\ Goto(r, "revert")
    /\ UNCHANGED <<doc, queued, expired>>

\* The job is gone, and nothing is saved.
DisarmReplyLost(r) ==
    /\ Disarms(r)
    /\ Disarm(req[r].id)
    /\ Return(r)
    /\ UNCHANGED <<doc, queued, expired>>

\* After any other call the request is over as if it had succeeded.
ReplyLost(r) == WriteReplyLost(r) \/ ArmReplyLost(r) \/ DisarmReplyLost(r)

RequestStep(r) ==
    \/ CreateAccepted(r) \/ Insert(r) \/ ArmNew(r) \/ Uncreate(r)
    \/ NothingToDo(r) \/ DisarmThenSave(r) \/ SaveOnly(r) \/ SaveThenArm(r) \/ Refused(r)
    \/ Write(r) \/ WriteMissed(r) \/ ArmEdited(r) \/ Revert(r)
    \/ QueueRunNow(r) \/ DisarmThenDelete(r) \/ Remove(r)
==============================================================================
