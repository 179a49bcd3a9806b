---------------------------- MODULE ScheduleEdits ----------------------------
(***************************************************************************)
(* Requests that create, edit and delete schedules, down to the fields:    *)
(* schedule_service.py (owners, names, masked headers) over lifecycle.py   *)
(* (partial writes, the trigger as merged, the job), for callers who use   *)
(* the same schedules at the same time and for a worker process that       *)
(* starts and resyncs meanwhile.  Lifecycle takes the same requests with   *)
(* the trigger as one value, and has the runs, the auto-pause and the      *)
(* restarts; here a PATCH names any of the fields.                         *)
(*                                                                         *)
(* The steps of a request are those of Lifecycle, with one more:           *)
(*    name   --  the document is read (or about to be created); MongoDB is *)
(*               asked for another schedule of that name                   *)
(***************************************************************************)
EXTENDS TriggerRules, FiniteSets

CONSTANTS
    Schedules,     \* ids a Schedule document may be given
    Clients,       \* concurrent callers; each has at most one request in flight
    Owners,        \* values of the X-Owner-Id header
    Names,         \* schedule names
    HeaderKey,     \* the header names in use, and the lower-case form of each
    HeaderRank,    \* the order the headers of one action are kept in
    Calls,         \* the requests the callers make, without the schedule they name
    Now,           \* the hour the model takes place in
    MaxFaults,     \* bound of the model on failing operations and lost jobs
    MaxRequests    \* bound of the model on requests

Mask == "***"

EditableFields == {"name", "status", "headers"} \cup TriggerFields

Fields == {"owner"} \cup EditableFields

Ops == {"create", "patch", "pause", "resume", "delete"}

HeaderNames == DOMAIN HeaderKey

\* Any header names there are, one is the last of them.
ASSUME HeaderAssumption ==
    \A names \in SUBSET HeaderNames :
        names # {} => \E last \in names : \A h \in names : HeaderRank[h] <= HeaderRank[last]

ASSUME EditsAssumption ==
    /\ Now \in Int
    /\ MaxFaults \in Nat
    /\ MaxRequests \in Nat
    /\ \A c \in Calls :
          /\ c.op \in Ops /\ c.owner \in Owners
          /\ DOMAIN c.changes \subseteq EditableFields
          /\ c.op = "create" => DOMAIN c.changes = EditableFields \ {"status"}
          /\ c.op = "pause" => c.changes = [status |-> "paused"]
          /\ c.op = "resume" => c.changes = [status |-> "active"]
          /\ "name" \in DOMAIN c.changes => c.changes.name \in Names
          /\ "status" \in DOMAIN c.changes => c.changes.status \in {"active", "paused"}
          /\ "headers" \in DOMAIN c.changes => DOMAIN c.changes.headers \subseteq HeaderNames

VARIABLES
    doc,       \* doc[s]: the Schedule document, as a function from its fields
    job,       \* job[s]: None, or the trigger s is armed with
    req,       \* req[r]: Idle, or where client r's request stands
    listed,    \* what the resync of a starting worker has read: the trigger
               \*   specification of each schedule that was active, and that
               \*   it has not done yet
    found,     \* those of them it has found without a job
    faults,    \* how many faults there have been
    made,      \* how many requests there have been
    crowded,   \* history: schedules two editors have met on
    cut,       \* history: schedules an operation on which has failed half way
    stuck,     \* history: schedules whose failed edit could not be taken back, or
               \*   whose job or new trigger was stored although the call failed
    shifted    \* history: schedules stored with a bound of their window at
               \*   another hour than the one it was checked and armed for

docVars == <<doc, shifted>>
storeVars == <<docVars, job>>
resyncVars == <<listed, found>>
historyVars == <<crowded, cut, stuck>>
vars == <<storeVars, req, resyncVars, faults, made, historyVars>>

Merge(d, changes) == [f \in DOMAIN d |-> IF f \in DOMAIN changes THEN changes[f] ELSE d[f]]

Spec5(d) == [f \in TriggerFields |-> d[f]]

Bounds == {"start_date", "end_date"}

\* The trigger built from d: the bounds of its window, if it has one, are localized.
Trigger(d) ==
    [f \in TriggerFields |->
        IF f \notin Bounds THEN d[f]
        ELSE IF d.trigger_type = "date" \/ d[f] = None THEN None
        ELSE <<Localize(d[f], d.timezone), "utc">>]

\* A date without an offset is stored as though it were in UTC, and read back
\* with tz_aware as one that is.
Stored(changes) ==
    [f \in DOMAIN changes |->
        IF f \in Bounds /\ changes[f] # None THEN <<changes[f][1], "utc">> ELSE changes[f]]

NoDoc == [f \in Fields |-> "absent"]

\* Seeded bug: the owner is left out.
NewDocOfNobody(owner) == [NoDoc EXCEPT !["status"] = "active"]

\* What Schedule(..., owner_id) adds to the fields a create gives.
NewDoc(owner) == [NoDoc EXCEPT !["owner"] = owner, !["status"] = "active"]

Exists(s) == doc[s].status \in {"active", "paused"}
Active(s) == doc[s].status = "active"
Armed(s) == job[s] # None

Arm(s, d) == job' = [job EXCEPT ![s] = Trigger(d)]
Disarm(s) == job' = [job EXCEPT ![s] = None]

Armable(d) == ArmableAt(d, Now)

Idle == [at |-> "idle"]
NotStarting == [s \in {} |-> None]

Init ==
    /\ doc = [s \in Schedules |-> NoDoc]
    /\ job = [s \in Schedules |-> None]
    /\ req = [r \in Clients |-> Idle]
    /\ listed = NotStarting
    /\ found = {}
    /\ faults = 0
    /\ made = 0
    /\ crowded = {} /\ cut = {} /\ stuck = {} /\ shifted = {}

-----------------------------------------------------------------------------
(* What a request in flight has read and computed. *)

Busy(r) == req[r] # Idle
On(r, s) == Busy(r) /\ req[r].id = s
At(r, step) == Busy(r) /\ req[r].at = step

Goto(r, step) == req' = [req EXCEPT ![r].at = step]
Return(r) == req' = [req EXCEPT ![r] = Idle]

Named(r) == DOMAIN req[r].changes    \* the fields the caller set

\* model_copy(update=changes) of the document as loaded.
Edited(r) == Merge(req[r].seen, req[r].changes)

Resuming(r) == Edited(r).status = "active" /\ req[r].seen.status # "active"

\* Seeded bug: a field is missing from TRIGGER_FIELDS.
TriggerChangedButZone(r) == Named(r) \cap (TriggerFields \ {"timezone"}) # {}

TriggerChanged(r) == Named(r) \cap TriggerFields # {}

Rearms(r) == Edited(r).status = "active" /\ (Resuming(r) \/ TriggerChanged(r))

Editing(r) == req[r].op \in {"patch", "pause", "resume"}

\* Seeded bug: there is no unique index.
NameNotIndexed(s, d) == FALSE

\* Another schedule of the owner has d's name: what the unique index refuses.
NameInUse(s, d) ==
    \E q \in Schedules \ {s} : Exists(q) /\ doc[q].owner = d.owner /\ doc[q].name = d.name

\* Who is changing s.
Editors(s) ==
    {<<"request", r>> : r \in {c \in Clients : On(c, s)}}
    \cup {<<"worker", q>> : q \in DOMAIN listed \cap {s}}

Crowded(s) == \E a, b \in Editors(s) : a # b

History(cutNow, stuckNow) ==
    /\ crowded' = crowded \cup {s \in Schedules : Crowded(s)'}
    /\ cut' = cut \cup cutNow
    /\ stuck' = stuck \cup stuckNow

Uneventful == History({}, {}) /\ UNCHANGED <<faults, made>>

Fault == faults < MaxFaults /\ faults' = faults + 1 /\ UNCHANGED made

-----------------------------------------------------------------------------
(* schedule_service.py.  A request is answered without a trace when the id is *)
(* unknown or another owner's (404), or a PATCH names no field (422).       *)

Begin(r, s, c, seen, step) ==
    /\ ~Busy(r)
    /\ made < MaxRequests
    /\ made' = made + 1
    /\ req' = [req EXCEPT ![r] =
                 [at |-> step, op |-> c.op, id |-> s, seen |-> seen, changes |-> c.changes]]
    /\ UNCHANGED <<storeVars, resyncVars, faults>>
    /\ History({}, {})

\* get_schedule; update_schedule then asks for the name if it is to change.
Lookup(r, s, c) ==
    /\ c.op # "create"
    /\ Exists(s)
    /\ doc[s].owner = c.owner
    /\ DOMAIN c.changes # {} \/ c.op = "delete"
    /\ LET renaming == "name" \in DOMAIN c.changes /\ c.changes.name # doc[s].name
       IN Begin(r, s, c, doc[s], IF renaming THEN "name" ELSE "decide")

\* create_schedule: the id is one nobody has yet.
BeginCreate(r, s, c) ==
    /\ c.op = "create"
    /\ doc[s].status = "absent"
    /\ \A q \in Clients : ~On(q, s)
    /\ Begin(r, s, c, NewDoc(c.owner), "name")

FindByName(r) ==
    \E q \in Schedules :
        Exists(q) /\ doc[q].owner = req[r].seen.owner /\ doc[q].name = Edited(r).name

NameFree(r) ==
    /\ At(r, "name")
    /\ ~FindByName(r)
    /\ Goto(r, "decide")
    /\ UNCHANGED <<storeVars, resyncVars>>

\* 409
NameTaken(r) ==
    /\ At(r, "name")
    /\ FindByName(r)
    /\ Return(r)
    /\ UNCHANGED <<storeVars, resyncVars>>

\* _unmask_headers: names match as HTTP's do.
StoredHeaders(r) ==
    IF req[r].op = "create" THEN {} ELSE DOMAIN req[r].seen.headers

\* Seeded bug: the first stored value will do.
KeptByAny(r, name) == StoredHeaders(r)

KeptBy(r, name) == {g \in StoredHeaders(r) : HeaderKey[g] = HeaderKey[name]}

\* Of several spellings of one name, the last one's value is kept.
KeptSpelling(r, name) ==
    CHOOSE last \in KeptBy(r, name) :
        \A g \in KeptBy(r, name) : HeaderRank[g] <= HeaderRank[last]

Masked(r) == {h \in DOMAIN req[r].changes.headers : req[r].changes.headers[h] = Mask}

CanUnmask(r) == "headers" \in Named(r) => \A h \in Masked(r) : KeptBy(r, h) # {}

\* Seeded bug: header names are compared as they are spelt.
UnmaskedExactly(r) ==
    IF "headers" \notin Named(r) THEN req[r].changes
    ELSE [req[r].changes EXCEPT !.headers =
            [h \in DOMAIN @ |->
                IF h \in Masked(r) \cap StoredHeaders(r) THEN req[r].seen.headers[h] ELSE @[h]]]

Unmasked(r) ==
    IF "headers" \notin Named(r) THEN req[r].changes
    ELSE [req[r].changes EXCEPT !.headers =
            [h \in DOMAIN @ |->
                IF h \in Masked(r) THEN req[r].seen.headers[KeptSpelling(r, h)]
                ELSE @[h]]]

\* What request r stores of the fields it names.
Written(r) == Stored(Unmasked(r))

-----------------------------------------------------------------------------
(* lifecycle.create *)

CreateAccepted(r) ==
    /\ At(r, "decide")
    /\ req[r].op = "create"
    /\ CanUnmask(r)
    /\ Armable(Edited(r))
    /\ Goto(r, "insert")
    /\ UNCHANGED <<storeVars, resyncVars>>

Shifts(r) ==
    \E f \in Bounds \cap Named(r) :
        LET date == Edited(r)[f]
        IN date # None /\ Localize(date, Edited(r).timezone) # date[1]

Store(r, d) ==
    /\ doc' = [doc EXCEPT ![req[r].id] = d]
    /\ shifted' = IF Shifts(r) THEN shifted \cup {req[r].id} ELSE shifted

Insert(r) ==
    /\ At(r, "insert")
    /\ ~NameInUse(req[r].id, Edited(r))
    /\ Store(r, Merge(req[r].seen, Written(r)))
    /\ Goto(r, "armNew")
    /\ UNCHANGED <<job, resyncVars>>

\* DuplicateKeyError: a 409 as well.
InsertClashes(r) ==
    /\ At(r, "insert")
    /\ NameInUse(req[r].id, Edited(r))
    /\ Return(r)
    /\ UNCHANGED <<storeVars, resyncVars>>

ArmNew(r) ==
    /\ At(r, "armNew")
    /\ Arm(req[r].id, Edited(r))
    /\ Return(r)
    /\ UNCHANGED <<docVars, resyncVars>>

Uncreate(r) ==
    /\ At(r, "uncreate")
    /\ doc' = [doc EXCEPT ![req[r].id].status = "deleted"]
    /\ Return(r)
    /\ UNCHANGED <<job, shifted, resyncVars>>

-----------------------------------------------------------------------------
(* lifecycle.apply *)

\* pause of a paused schedule, resume of an active one
Settled(r) == req[r].op \in {"pause", "resume"} /\ req[r].changes.status = req[r].seen.status

NothingToDo(r) ==
    /\ At(r, "decide")
    /\ Settled(r)
    /\ Return(r)
    /\ UNCHANGED <<storeVars, resyncVars>>

Reaches(r) == At(r, "decide") /\ Editing(r) /\ ~Settled(r)

\* Seeded bug: the schedule as loaded is checked, not as edited.
AcceptableAsLoaded(r) ==
    /\ CanUnmask(r)
    /\ IF Rearms(r) THEN Armable(req[r].seen) ELSE TriggerChanged(r) => Builds(req[r].seen)

\* What apply checks before any write: pausing alone does not check the trigger.
Acceptable(r) ==
    /\ CanUnmask(r)
    /\ IF Rearms(r) THEN Armable(Edited(r)) ELSE TriggerChanged(r) => Builds(Edited(r))

\* 422
Refused(r) ==
    /\ \/ At(r, "decide") /\ req[r].op = "create" /\ ~(CanUnmask(r) /\ Armable(Edited(r)))
       \/ Reaches(r) /\ ~Acceptable(r)
    /\ Return(r)
    /\ UNCHANGED <<storeVars, resyncVars>>

DisarmThenSave(r) ==
    /\ Reaches(r)
    /\ Acceptable(r)
    /\ Edited(r).status # "active"
    /\ Disarm(req[r].id)
    /\ Goto(r, "write")
    /\ UNCHANGED <<docVars, resyncVars>>

\* Active before and after: the job stays until the save is done, if the trigger
\* is to change at all.
SaveFirst(r) ==
    /\ Reaches(r)
    /\ Acceptable(r)
    /\ Edited(r).status = "active"
    /\ Goto(r, "write")
    /\ UNCHANGED <<storeVars, resyncVars>>

Saved(r) == Merge(doc[req[r].id], Written(r))

WriteClashes(r) ==
    /\ At(r, "write")
    /\ Exists(req[r].id)
    /\ NameInUse(req[r].id, Saved(r))
    /\ Return(r)
    /\ UNCHANGED <<storeVars, resyncVars>>

\* Seeded bug: the whole document as edited, not the fields.
WriteWhole(r) ==
    /\ At(r, "write")
    /\ Exists(req[r].id)
    /\ ~NameInUse(req[r].id, Edited(r))
    /\ Store(r, Merge(req[r].seen, Written(r)))
    /\ IF Rearms(r) THEN Goto(r, "arm") ELSE Return(r)
    /\ UNCHANGED <<job, resyncVars>>

\* The partial $set.
Write(r) ==
    /\ At(r, "write")
    /\ Exists(req[r].id)
    /\ ~NameInUse(req[r].id, Saved(r))
    /\ Store(r, Saved(r))
    /\ IF Rearms(r) THEN Goto(r, "arm") ELSE Return(r)
    /\ UNCHANGED <<job, resyncVars>>

\* The document is gone: the driver raises, or reports a write that matched none.
WriteMissed(r) ==
    /\ At(r, "write")
    /\ ~Exists(req[r].id)
    /\ \/ Return(r)
       \/ Rearms(r) /\ Goto(r, "arm")
    /\ UNCHANGED <<storeVars, resyncVars>>

ArmEdited(r) ==
    /\ At(r, "arm")
    /\ Arm(req[r].id, Edited(r))
    /\ Return(r)
    /\ UNCHANGED <<docVars, resyncVars>>

\* Seeded bug: taken after the save, which refreshes the loaded document.
BeforeTooLate(r) == Written(r)

\* The fields named, as they were when loaded.
Before(r) == [f \in Named(r) |-> req[r].seen[f]]

Reverted(r) == Merge(doc[req[r].id], Before(r))

Revert(r) ==
    /\ At(r, "revert")
    /\ IF Exists(req[r].id)
       THEN /\ ~NameInUse(req[r].id, Reverted(r))
            /\ doc' = [doc EXCEPT ![req[r].id] = Reverted(r)]
       ELSE UNCHANGED doc
    /\ Return(r)
    /\ UNCHANGED <<job, shifted, resyncVars>>

\* The name the edit gave up has been taken meanwhile: nothing is put back.
RevertClashes(r) ==
    /\ At(r, "revert")
    /\ Exists(req[r].id)
    /\ NameInUse(req[r].id, Reverted(r))
    /\ Return(r)
    /\ UNCHANGED <<storeVars, resyncVars>>

-----------------------------------------------------------------------------
(* lifecycle.delete *)

DisarmThenDelete(r) ==
    /\ At(r, "decide")
    /\ req[r].op = "delete"
    /\ Disarm(req[r].id)
    /\ Goto(r, "remove")
    /\ UNCHANGED <<docVars, resyncVars>>

Remove(r) ==
    /\ At(r, "remove")
    /\ doc' = [doc EXCEPT ![req[r].id].status = "deleted"]
    /\ Return(r)
    /\ UNCHANGED <<job, shifted, resyncVars>>

-----------------------------------------------------------------------------
(* Steps that fail: without effect (StepFails), or after they took effect    *)
(* (ReplyLost).  Only a failure to add the job is caught and undone.        *)

StepFails(r) ==
    /\ Busy(r)
    /\ ~(At(r, "decide") /\ Settled(r))
    /\ CASE At(r, "armNew") -> Goto(r, "uncreate")
         [] At(r, "arm")    -> Goto(r, "revert")
         [] OTHER           -> Return(r)
    /\ UNCHANGED <<storeVars, resyncVars>>

InsertReplyLost(r) ==
    /\ At(r, "insert")
    /\ ~NameInUse(req[r].id, Edited(r))
    /\ Store(r, Merge(req[r].seen, Written(r)))
    /\ Return(r)
    /\ UNCHANGED <<job, resyncVars>>

WriteReplyLost(r) ==
    /\ At(r, "write")
    /\ Exists(req[r].id)
    /\ ~NameInUse(req[r].id, Saved(r))
    /\ Store(r, Saved(r))
    /\ Return(r)
    /\ UNCHANGED <<job, resyncVars>>

\* The job is there, and undoing the write does not remove it.
ArmReplyLost(r) ==
    /\ \/ At(r, "armNew") /\ Goto(r, "uncreate")
       \/ At(r, "arm") /\ Goto(r, "revert")
    /\ Arm(req[r].id, Edited(r))
    /\ UNCHANGED <<docVars, resyncVars>>

\* The job is gone, and nothing is saved.
DisarmReplyLost(r) ==
    /\ \/ At(r, "decide") /\ req[r].op = "delete"
       \/ Reaches(r) /\ Acceptable(r) /\ Edited(r).status # "active"
    /\ Disarm(req[r].id)
    /\ Return(r)
    /\ UNCHANGED <<docVars, resyncVars>>

ReplyLost(r) ==
    InsertReplyLost(r) \/ WriteReplyLost(r) \/ ArmReplyLost(r) \/ DisarmReplyLost(r)

\* What is left behind when request r ends where it stands: a schedule that
\* stays active without a job, or one that fires on its old trigger.
LeavesUnarmed(r) ==
    \/ req[r].at \in {"uncreate", "remove"}
    \/ req[r].at = "write" /\ Edited(r).status # "active"
    \/ req[r].at = "revert" /\ Resuming(r)

EndsAt(r) ==
    LET s == req[r].id IN
    History(IF LeavesUnarmed(r) THEN {s} ELSE {},
            IF req[r].at = "revert" /\ ~Resuming(r) THEN {s} ELSE {})

\* What a lost reply leaves: no job though the schedule is active, or the wrong job.
LosesJob(r) == req[r].at \in {"insert", "decide"} \/ (req[r].at = "write" /\ Resuming(r))

LosesTrack(r) ==
    \/ req[r].at \in {"armNew", "arm"}
    \/ req[r].at = "write" /\ Rearms(r) /\ ~Resuming(r)

-----------------------------------------------------------------------------
(* A worker process starts beside the ones that serve requests (WORKERS, or  *)
(* one that died and is replaced).  Its jobstore may find jobs it cannot    *)
(* restore, and deletes them; resync_jobs rebuilds the missing ones.        *)

WorkerStarts ==
    /\ listed = NotStarting
    /\ listed' = [s \in {q \in Schedules : Active(q)} |-> Spec5(doc[s])]
    /\ UNCHANGED <<docVars, req, found, made>>
    /\ \E lost \in SUBSET {s \in Schedules : Armed(s)} :
          /\ job' = [s \in Schedules |-> IF s \in lost THEN None ELSE job[s]]
          /\ IF lost = {} THEN UNCHANGED faults ELSE faults < MaxFaults /\ faults' = faults + 1
          /\ History({s \in lost : Active(s)}, {})

\* Seeded bug: what is found missing is armed without being checked.
MissingUnchecked(s) == ~Armed(s)

Missing(s) == ~Armed(s) /\ Armable(listed[s])

Forget(s) == [q \in DOMAIN listed \ {s} |-> listed[q]]

\* A schedule that has its job, or nothing left to fire, is skipped.
Skip(s) ==
    /\ s \in DOMAIN listed \ found
    /\ ~Missing(s)
    /\ listed' = Forget(s)
    /\ cut' = cut \ {s}
    /\ UNCHANGED <<storeVars, req, found, faults, made, crowded, stuck>>

\* get_job found none; other processes may act before the job is added.
FindMissing(s) ==
    /\ s \in DOMAIN listed \ found
    /\ Missing(s)
    /\ found' = found \cup {s}
    /\ UNCHANGED <<storeVars, req, listed, faults, made, historyVars>>

Restore(s) ==
    /\ s \in found
    /\ Arm(s, listed[s])
    /\ listed' = Forget(s)
    /\ found' = found \ {s}
    /\ cut' = cut \ {s}
    /\ UNCHANGED <<docVars, req, faults, made, crowded, stuck>>

\* Logged and counted; the others are restored all the same.
RestoreFails(s) ==
    /\ s \in found
    /\ Fault
    /\ listed' = Forget(s)
    /\ found' = found \ {s}
    /\ UNCHANGED <<storeVars, req, historyVars>>

-----------------------------------------------------------------------------
RequestStep(r) ==
    \/ NameFree(r) \/ NameTaken(r) \/ Refused(r)
    \/ CreateAccepted(r) \/ Insert(r) \/ InsertClashes(r) \/ ArmNew(r) \/ Uncreate(r)
    \/ NothingToDo(r) \/ DisarmThenSave(r) \/ SaveFirst(r)
    \/ Write(r) \/ WriteMissed(r) \/ ArmEdited(r) \/ Revert(r)
    \/ DisarmThenDelete(r) \/ Remove(r)

Call(r) == \E s \in Schedules, c \in Calls : Lookup(r, s, c) \/ BeginCreate(r, s, c)

Serve(r) == RequestStep(r) /\ Uneventful

Clash(r) ==
    /\ WriteClashes(r) \/ RevertClashes(r)
    /\ EndsAt(r)
    /\ UNCHANGED <<faults, made>>

RequestFault(r) ==
    /\ Fault
    /\ StepFails(r)
    /\ IF At(r, "arm") \/ At(r, "armNew") THEN History({}, {}) ELSE EndsAt(r)

ReplyFault(r) ==
    LET s == req[r].id IN
    /\ Fault
    /\ ReplyLost(r)
    /\ History(IF LosesJob(r) THEN {s} ELSE {}, IF LosesTrack(r) THEN {s} ELSE {})

Next ==
    \/ \E r \in Clients : Call(r) \/ Serve(r) \/ Clash(r) \/ RequestFault(r) \/ ReplyFault(r)
    \/ WorkerStarts
    \/ \E s \in Schedules : Skip(s) \/ FindMissing(s) \/ Restore(s) \/ RestoreFails(s)

Spec == Init /\ [][Next]_vars

-----------------------------------------------------------------------------
(* Properties *)

EditsTypeOK ==
    /\ DOMAIN doc = Schedules
    /\ \A s \in Schedules :
          /\ DOMAIN doc[s] = Fields
          /\ doc[s].status \in {"absent", "active", "paused", "deleted"}
          /\ doc[s].status # "absent" => doc[s].owner \in Owners /\ doc[s].name \in Names
    /\ \A s \in Schedules : Armed(s) => DOMAIN job[s] = TriggerFields
    /\ \A r \in Clients :
          Busy(r) => /\ req[r].op \in Ops
                     /\ req[r].id \in Schedules
                     /\ DOMAIN req[r].seen = Fields
                     /\ Named(r) \subseteq EditableFields
    /\ DOMAIN listed \subseteq Schedules /\ found \subseteq DOMAIN listed
    /\ faults \in 0..MaxFaults
    /\ made \in 0..MaxRequests

\* The name each schedule holds, as NameDirectory writes it.
Held ==
    [s \in Schedules |->
        IF Exists(s) THEN <<doc[s].owner, doc[s].name>>
        ELSE IF doc[s].status = "absent" THEN <<>> ELSE <<"gone">>]

Directory == INSTANCE NameDirectory WITH holds <- Held

\* Names are unique per owner although every request looks a name up first and
\* writes it later: what requests do to names, creates, renames, reverts and
\* deletions together, is what NameDirectory does in single steps.
KeepsDirectory == Directory!Spec

\* Whatever races there are between partial edits, a schedule is armed only with
\* five fields that were checked together and have a fire to come.  Two PATCHes
\* may leave a document whose merged trigger nobody has checked; neither they
\* nor the resync of a starting worker arm that.
ArmedWasChecked == \A s \in Schedules : Armed(s) => Armable(job[s])

\* The trigger stored is one that builds, as long as the requests on the
\* schedule come one after the other.
StoredTriggerBuilds ==
    \A s \in Schedules : Exists(s) => Builds(doc[s]) \/ s \in crowded \cup shifted

AtRest(s) == Editors(s) = {}

\* An edit reaches the job whichever of the five fields it names: at rest an
\* active schedule is armed with the trigger it has, any other is not armed.
\* The exceptions are schedules editors have met on (crowded), an operation that
\* failed half way (cut, until a worker starts), the cases of EditsFailSafe
\* (stuck), and a bound of the window that was stored at another hour (shifted).
JobFollowsFields ==
    \A s \in Schedules :
        AtRest(s) /\ s \notin crowded \cup cut \cup stuck \cup shifted =>
            job[s] = IF Active(s) THEN Trigger(doc[s]) ELSE None

\* After these failures too, what fires is what the document says, or nothing
\* does: the index refuses the save or the insert, or any call fails and has had
\* no effect, or the job was removed or the document inserted, or set to active,
\* but the reply was lost.  These leave a job that is not the document's (stuck):
\* an edit whose undoing fails as well, for which a rename and another caller's
\* create of the old name suffice; the lost reply of the $set that edits the
\* trigger of an active schedule; the lost reply of adding a job, whose write is
\* undone and whose job is not.
EditsFailSafe ==
    \A s \in Schedules :
        AtRest(s) /\ Armed(s) /\ s \notin crowded \cup stuck \cup shifted =>
            Active(s) /\ job[s] = Trigger(doc[s])

\* No edit is lost: a field of a schedule changes only when a request that names
\* it writes, so callers who edit different fields at the same time both succeed,
\* also when one of them has to take its edit back.
OnlyNamedFieldsChange ==
    [][\A s \in Schedules : \A f \in Fields :
         Exists(s) /\ doc'[s][f] # doc[s][f] =>
             \E r \in Clients : On(r, s) /\ (f \in Named(r) \/ doc'[s].status = "deleted")]_vars

\* Header values are write-only, but no mask is ever stored in place of one: a
\* read sent back has a value for every name, however it is spelt, and a mask
\* with nothing behind it is refused.
MaskNeverStored ==
    \A s \in Schedules :
        Exists(s) => \A h \in DOMAIN doc[s].headers : doc[s].headers[h] # Mask

\* A masked header keeps the value stored under its name when the request writes,
\* and not only the one it read, unless editors met on the schedule.  Of several
\* spellings of the name it is the last one's, whichever the mask stood for.
MaskKeepsValue ==
    [][\A r \in Clients :
         Busy(r) => LET s == req[r].id IN
         (Write(r) \/ WriteReplyLost(r)) /\ "headers" \in Named(r) /\ s \notin crowded =>
             \A h \in Masked(r) : \E g \in DOMAIN doc[s].headers :
                 /\ HeaderKey[g] = HeaderKey[h]
                 /\ \A f \in DOMAIN doc[s].headers :
                       HeaderKey[f] = HeaderKey[h] => HeaderRank[f] <= HeaderRank[g]
                 /\ doc'[s].headers[h] = doc[s].headers[g]]_vars

-----------------------------------------------------------------------------
(* What Lifecycle has of all this: statuses, whether there is a job, and the *)
(* steps of requests, with one trigger that can always be armed.  The name  *)
(* check is a part of its `decide'.                                         *)

DocsSeen == [s \in Schedules |-> [status |-> doc[s].status, trigger |-> "t", errors |-> 0]]

JobsSeen == [s \in Schedules |-> IF Armed(s) THEN "t" ELSE "none"]

CallSeen(r) ==
    [op |-> req[r].op,
     status |-> IF "status" \in Named(r) THEN req[r].changes.status ELSE "keep",
     trigger |-> IF TriggerChanged(r) THEN "t" ELSE "keep"]

RequestSeen(r) ==
    [at |-> IF req[r].at = "name" THEN "decide" ELSE req[r].at,
     call |-> CallSeen(r),
     id |-> req[r].id,
     seen |-> [status |-> IF req[r].op = "create" THEN "absent" ELSE req[r].seen.status,
               trigger |-> "t", errors |-> 0]]

RequestsSeen == [r \in Clients |-> IF Busy(r) THEN RequestSeen(r) ELSE Idle]

Coarse ==
    INSTANCE Lifecycle
        WITH Triggers <- {"t"}, Invalid <- {}, OneShot <- {}, Endless <- {"t"}, Threshold <- 1,
             Calls <- {}, doc <- DocsSeen, job <- JobsSeen, queued <- {}, expired <- {},
             req <- RequestsSeen

Asks(r) ==
    /\ ~Busy(r) /\ Busy(r)'
    /\ \E s \in Schedules, c \in {CallSeen(r)'} \cap Coarse!CallShapes :
          Coarse!Lookup(r, s, c) \/ Coarse!LookupName(r, s, c)

\* For a name, a mask or a trigger, or by a failure.
TurnedAway(r) == Coarse!At(r, "decide") /\ Coarse!Return(r) /\ UNCHANGED Coarse!storeVars

JobRestored ==
    /\ \E s \in DOMAIN listed : JobsSeen' = [JobsSeen EXCEPT ![s] = "t"]
    /\ UNCHANGED <<DocsSeen, RequestsSeen>>

JobsLost ==
    /\ \A s \in Schedules : JobsSeen'[s] \in {JobsSeen[s], "none"}
    /\ UNCHANGED <<DocsSeen, RequestsSeen>>

LifecycleMoves ==
    \/ \E r \in Clients :
          Asks(r) \/ TurnedAway(r) \/ Coarse!RequestStep(r)
          \/ Coarse!StepFails(r) \/ Coarse!ReplyLost(r)
    \/ JobRestored
    \/ JobsLost

\* The two views of a request agree.  Field by field, with names, masks and
\* clashes, requests still go through the steps of Lifecycle and do with the
\* status and the job what it says, in the same order, however many of them meet
\* on a schedule: Lifecycle, which SchedulingService puts among runs and restarts,
\* leaves out nothing that partial edits do to either.
FollowsLifecycle == [][LifecycleMoves]_<<RequestsSeen, Coarse!storeVars>>
==============================================================================
