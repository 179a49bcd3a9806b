-------------------------- MODULE ScheduleEditsProofs --------------------------
(***************************************************************************)
(* ArmedWasChecked for any schedules, callers, requests, zones and faults: *)
(* what a job is armed with was checked whole, whatever partial edits and  *)
(* the resync of another worker leave in the documents.                    *)
(***************************************************************************)
EXTENDS ScheduleEdits, TLAPS

RequestFields == {"at", "op", "id", "seen", "changes"}

Formed(r) == DOMAIN req[r] = RequestFields /\ req[r].id \in Schedules

Shape ==
    /\ DOMAIN job = Schedules
    /\ DOMAIN req = Clients
    /\ \A r \in Clients : Busy(r) => Formed(r)
    /\ DOMAIN listed \subseteq Schedules
    /\ found \subseteq DOMAIN listed

\* Request r is about to arm, or has decided to, and has checked what.
WillArm(r) ==
    At(r, "insert") \/ At(r, "armNew") \/ At(r, "arm") \/ (At(r, "write") /\ Rearms(r))

EditChecked(r) == WillArm(r) => Armable(Edited(r))

CheckedInv ==
    /\ Shape
    /\ ArmedWasChecked
    /\ \A r \in Clients : EditChecked(r)
    /\ \A s \in found : Armable(listed[s])

-----------------------------------------------------------------------------
(* The trigger built from an armable specification is armable: localizing   *)
(* the bounds of its window changes none of the times they stand for.      *)

LEMMA LocalizeOnce ==
    ASSUME NEW hour, NEW zone
    PROVE  Localize(<<hour, "utc">>, zone) = hour /\ <<hour, "utc">> # None
  BY DEF Localize, None

LEMMA TriggerFieldsKept ==
    ASSUME NEW d
    PROVE  /\ Trigger(d).trigger_type = d.trigger_type
           /\ Trigger(d).trigger_args = d.trigger_args
           /\ Trigger(d).timezone = d.timezone
           /\ d.trigger_type = "date" =>
                 Trigger(d).start_date = None /\ Trigger(d).end_date = None
           /\ d.trigger_type # "date" =>
                 /\ Trigger(d).start_date =
                       IF d.start_date = None THEN None
                       ELSE <<Localize(d.start_date, d.timezone), "utc">>
                 /\ Trigger(d).end_date =
                       IF d.end_date = None THEN None
                       ELSE <<Localize(d.end_date, d.timezone), "utc">>
  BY DEF Trigger, TriggerFields, Bounds

LEMMA TriggerBuilds == ASSUME NEW d, Builds(d) PROVE Builds(Trigger(d))
<1>1. ZoneKnown(Trigger(d)) /\ ArgsAllowed(Trigger(d))
  BY TriggerFieldsKept DEF Builds, ZoneKnown, ArgsAllowed
<1>2. ArgsFit(Trigger(d))
  BY TriggerFieldsKept DEF Builds, ArgsFit
<1>3. WindowInOrder(Trigger(d))
  <2>1. CASE d.trigger_type = "date"
    BY <2>1, TriggerFieldsKept DEF WindowInOrder
  <2>2. CASE d.trigger_type # "date"
    BY <2>2, TriggerFieldsKept, LocalizeOnce DEF WindowInOrder, Builds
  <2> QED
    BY <2>1, <2>2
<1> QED
  BY <1>1, <1>2, <1>3 DEF Builds

LEMMA TriggerNextFire ==
    ASSUME NEW d, NEW now PROVE NextFire(Trigger(d), now) = NextFire(d, now)
<1>1. CASE d.trigger_type = "date"
  BY <1>1, TriggerFieldsKept DEF NextFire
<1>2. CASE d.trigger_type # "date"
  <2>1. Opens(Trigger(d), now) = Opens(d, now)
    BY <1>2, TriggerFieldsKept, LocalizeOnce DEF Opens
  <2>2. \A t : Closed(Trigger(d), t) = Closed(d, t)
    BY <1>2, TriggerFieldsKept, LocalizeOnce DEF Closed
  <2> QED
    BY <1>2, <2>1, <2>2, TriggerFieldsKept DEF NextFire
<1> QED
  BY <1>1, <1>2

LEMMA TriggerArmable == ASSUME NEW d, Armable(d) PROVE Armable(Trigger(d))
  BY TriggerBuilds, TriggerNextFire DEF Armable, ArmableAt, HasFutureFire

-----------------------------------------------------------------------------
(* What steps do to requests and jobs. *)

LEMMA OthersKeep ==
    ASSUME NEW q \in Clients, EditChecked(q), req'[q] = req[q]
    PROVE  EditChecked(q)' /\ (Formed(q)' <=> Formed(q)) /\ (Busy(q)' <=> Busy(q))
  BY DEF EditChecked, WillArm, At, Busy, Rearms, Resuming, TriggerChanged, Named, Edited, Merge,
     Armable, Formed

LEMMA GotoKeeps ==
    ASSUME Shape, NEW r \in Clients, Busy(r), NEW step, Goto(r, step), step # "idle"
    PROVE  /\ DOMAIN req' = Clients
           /\ \A q \in Clients \ {r} : req'[q] = req[q]
           /\ Formed(r)' /\ Busy(r)'
           /\ req'[r].at = step
           /\ req'[r].seen = req[r].seen /\ req'[r].changes = req[r].changes
           /\ req'[r].id = req[r].id /\ req'[r].op = req[r].op
  BY DEF Shape, Goto, Formed, RequestFields, Busy, Idle

LEMMA EditStays ==
    ASSUME NEW r, req'[r].seen = req[r].seen, req'[r].changes = req[r].changes
    PROVE  Edited(r)' = Edited(r) /\ (Rearms(r)' <=> Rearms(r))
  BY DEF Edited, Merge, Rearms, Resuming, TriggerChanged, Named

LEMMA GotoInv ==
    ASSUME CheckedInv, NEW r \in Clients, Busy(r), NEW step, Goto(r, step), step # "idle",
           \/ step \in {"name", "decide", "remove", "revert", "uncreate"}
           \/ Armable(Edited(r))
           \/ step = "write" /\ ~Rearms(r)
    PROVE  /\ DOMAIN req' = Clients
           /\ \A q \in Clients : (Busy(q)' => Formed(q)') /\ EditChecked(q)'
<1>1. \A q \in Clients \ {r} : (Busy(q)' => Formed(q)') /\ EditChecked(q)'
  BY GotoKeeps, OthersKeep DEF CheckedInv, Shape
<1>2. EditChecked(r)'
  BY GotoKeeps, EditStays DEF CheckedInv, EditChecked, WillArm, At, Armable
<1> QED
  BY <1>1, <1>2, GotoKeeps DEF CheckedInv

LEMMA ReturnInv ==
    ASSUME CheckedInv, NEW r \in Clients, Return(r)
    PROVE  /\ DOMAIN req' = Clients
           /\ \A q \in Clients : (Busy(q)' => Formed(q)') /\ EditChecked(q)'
<1>1. DOMAIN req' = Clients /\ req'[r] = Idle /\ \A q \in Clients \ {r} : req'[q] = req[q]
  BY DEF CheckedInv, Shape, Return
<1>2. \A q \in Clients \ {r} : (Busy(q)' => Formed(q)') /\ EditChecked(q)'
  BY <1>1, OthersKeep DEF CheckedInv, Shape
<1> QED
  BY <1>1, <1>2 DEF EditChecked, WillArm, At, Busy

LEMMA ArmKeeps ==
    ASSUME Shape, ArmedWasChecked, NEW s \in Schedules, NEW d, Armable(d), Arm(s, d)
    PROVE  ArmedWasChecked' /\ DOMAIN job' = Schedules
<1>1. Armable(Trigger(d))
  BY TriggerArmable
<1> QED
  BY <1>1 DEF Shape, ArmedWasChecked, Arm, Armed, Armable

LEMMA NoneArmed ==
    ASSUME ArmedWasChecked, DOMAIN job' = Schedules,
           \A s \in Schedules : job'[s] \in {job[s], None}
    PROVE  ArmedWasChecked'
  BY DEF ArmedWasChecked, Armed, Armable

LEMMA DisarmKeeps ==
    ASSUME Shape, ArmedWasChecked, NEW s, Disarm(s)
    PROVE  ArmedWasChecked' /\ DOMAIN job' = Schedules
<1>1. DOMAIN job' = Schedules /\ \A q \in Schedules : job'[q] \in {job[q], None}
  BY DEF Shape, Disarm
<1> QED
  BY <1>1, NoneArmed

\* A step of a request leaves the resync of the starting worker alone.
LEMMA RequestsKeep ==
    ASSUME CheckedInv, UNCHANGED resyncVars, DOMAIN job' = Schedules, ArmedWasChecked',
           DOMAIN req' = Clients,
           \A q \in Clients : (Busy(q)' => Formed(q)') /\ EditChecked(q)'
    PROVE  CheckedInv'
  BY DEF CheckedInv, Shape, resyncVars, Armable

LEMMA SameJobs ==
    ASSUME CheckedInv, job' = job PROVE DOMAIN job' = Schedules /\ ArmedWasChecked'
  BY DEF CheckedInv, Shape, ArmedWasChecked, Armed, Armable

-----------------------------------------------------------------------------
(* Steps of requests. *)

LEMMA BeginInv ==
    ASSUME CheckedInv, NEW r \in Clients, Call(r) PROVE CheckedInv'
<1> PICK s \in Schedules, c \in Calls : Lookup(r, s, c) \/ BeginCreate(r, s, c)
  BY DEF Call
<1> PICK seen, step : Begin(r, s, c, seen, step) /\ step \in {"name", "decide"}
  BY DEF Lookup, BeginCreate
<1>1. /\ DOMAIN req' = Clients
      /\ \A q \in Clients \ {r} : req'[q] = req[q]
      /\ req'[r] = [at |-> step, op |-> c.op, id |-> s, seen |-> seen, changes |-> c.changes]
      /\ UNCHANGED <<job, listed, found>>
  BY DEF Begin, CheckedInv, Shape, storeVars, resyncVars
<1>2. \A q \in Clients \ {r} : (Busy(q)' => Formed(q)') /\ EditChecked(q)'
  BY <1>1, OthersKeep DEF CheckedInv, Shape
<1>3. Formed(r)'
  BY <1>1 DEF Formed, RequestFields
<1>4. EditChecked(r)'
  BY <1>1 DEF EditChecked, WillArm, At
<1> QED
  BY <1>1, <1>2, <1>3, <1>4, SameJobs, RequestsKeep DEF resyncVars

\* Steps that leave both stores as they are, and neither save nor arm next.
LEMMA AnswerInv ==
    ASSUME CheckedInv, NEW r \in Clients, UNCHANGED resyncVars, job' = job, Return(r)
    PROVE  CheckedInv'
  BY ReturnInv, SameJobs, RequestsKeep

LEMMA MoveInv ==
    ASSUME CheckedInv, NEW r \in Clients, UNCHANGED resyncVars, job' = job,
           Busy(r), NEW step, Goto(r, step), step # "idle",
           \/ step \in {"name", "decide", "remove", "revert", "uncreate"}
           \/ Armable(Edited(r))
           \/ step = "write" /\ ~Rearms(r)
    PROVE  CheckedInv'
  BY GotoInv, SameJobs, RequestsKeep

LEMMA DisarmInv ==
    ASSUME CheckedInv, NEW r \in Clients, DisarmThenSave(r) \/ DisarmThenDelete(r)
    PROVE  CheckedInv'
<1>1. ArmedWasChecked' /\ DOMAIN job' = Schedules
  BY DisarmKeeps DEF CheckedInv, DisarmThenSave, DisarmThenDelete
<1>2. CASE DisarmThenSave(r)
  <2>1. Busy(r) /\ Goto(r, "write") /\ ~Rearms(r) /\ UNCHANGED resyncVars
    BY <1>2 DEF DisarmThenSave, Reaches, At, Rearms, resyncVars
  <2> QED
    BY <1>1, <2>1, GotoInv, RequestsKeep
<1>3. CASE DisarmThenDelete(r)
  <2>1. Busy(r) /\ Goto(r, "remove") /\ UNCHANGED resyncVars
    BY <1>3 DEF DisarmThenDelete, At, resyncVars
  <2> QED
    BY <1>1, <2>1, GotoInv, RequestsKeep
<1> QED
  BY <1>2, <1>3

LEMMA ArmInv ==
    ASSUME CheckedInv, NEW r \in Clients, ArmNew(r) \/ ArmEdited(r)
    PROVE  CheckedInv'
<1>1. Armable(Edited(r)) /\ req[r].id \in Schedules
  BY DEF CheckedInv, Shape, EditChecked, WillArm, ArmNew, ArmEdited, Formed, At
<1>2. Arm(req[r].id, Edited(r)) /\ Return(r) /\ UNCHANGED resyncVars
  BY DEF ArmNew, ArmEdited, resyncVars
<1>3. ArmedWasChecked' /\ DOMAIN job' = Schedules
  BY <1>1, <1>2, ArmKeeps DEF CheckedInv
<1> QED
  BY <1>2, <1>3, ReturnInv, RequestsKeep

\* From a decision or a save to the step that arms: what is armed is what was checked.
LEMMA AcceptInv ==
    ASSUME CheckedInv, NEW r \in Clients,
           CreateAccepted(r) \/ Insert(r) \/ SaveFirst(r) \/ Write(r) \/ WriteMissed(r)
    PROVE  CheckedInv'
<1>0. Busy(r) /\ UNCHANGED resyncVars /\ job' = job
  BY DEF CreateAccepted, Insert, SaveFirst, Write, WriteMissed, Reaches, At, resyncVars, storeVars
<1>1. CASE CreateAccepted(r)
  <2>1. Goto(r, "insert") /\ Armable(Edited(r))
    BY <1>1 DEF CreateAccepted
  <2> QED
    BY <1>0, <2>1, MoveInv
<1>2. CASE Insert(r)
  <2>1. Goto(r, "armNew") /\ Armable(Edited(r))
    BY <1>2 DEF Insert, CheckedInv, EditChecked, WillArm
  <2> QED
    BY <1>0, <2>1, MoveInv
<1>3. CASE SaveFirst(r)
  <2>1. Goto(r, "write") /\ (Armable(Edited(r)) \/ ~Rearms(r))
    BY <1>3 DEF SaveFirst, Acceptable
  <2> QED
    BY <1>0, <2>1, MoveInv
<1>4. CASE Write(r) \/ WriteMissed(r)
  <2>1. At(r, "write") /\ (Return(r) \/ (Rearms(r) /\ Goto(r, "arm")))
    BY <1>4 DEF Write, WriteMissed
  <2>2. CASE Return(r)
    BY <1>0, <2>2, AnswerInv
  <2>3. CASE Rearms(r) /\ Goto(r, "arm")
    <3>1. Armable(Edited(r))
      BY <2>1, <2>3 DEF CheckedInv, EditChecked, WillArm
    <3> QED
      BY <1>0, <2>3, <3>1, MoveInv
  <2> QED
    BY <2>1, <2>2, <2>3
<1> QED
  BY <1>1, <1>2, <1>3, <1>4

LEMMA ServeInv ==
    ASSUME CheckedInv, NEW r \in Clients, RequestStep(r) PROVE CheckedInv'
<1>1. CASE NameFree(r)
  <2>1. Busy(r) /\ Goto(r, "decide") /\ UNCHANGED resyncVars /\ job' = job
    BY <1>1 DEF NameFree, At, storeVars, resyncVars
  <2> QED
    BY <2>1, MoveInv
<1>2. CASE \/ NameTaken(r) \/ Refused(r) \/ InsertClashes(r) \/ Uncreate(r)
           \/ NothingToDo(r) \/ Revert(r) \/ Remove(r)
  <2>1. Return(r) /\ UNCHANGED resyncVars /\ job' = job
    BY <1>2 DEF NameTaken, Refused, InsertClashes, Uncreate, NothingToDo, Revert, Remove,
                storeVars, resyncVars
  <2> QED
    BY <2>1, AnswerInv
<1>3. CASE CreateAccepted(r) \/ Insert(r) \/ SaveFirst(r) \/ Write(r) \/ WriteMissed(r)
  BY <1>3, AcceptInv
<1>4. CASE ArmNew(r) \/ ArmEdited(r)
  BY <1>4, ArmInv
<1>5. CASE DisarmThenSave(r) \/ DisarmThenDelete(r)
  BY <1>5, DisarmInv
<1> QED
  BY <1>1, <1>2, <1>3, <1>4, <1>5 DEF RequestStep

LEMMA FailsInv ==
    ASSUME CheckedInv, NEW r \in Clients, Clash(r) \/ StepFails(r) PROVE CheckedInv'
<1>1. CASE Clash(r)
  <2>1. Return(r) /\ UNCHANGED resyncVars /\ job' = job
    BY <1>1 DEF Clash, WriteClashes, RevertClashes, storeVars, resyncVars
  <2> QED
    BY <2>1, AnswerInv
<1>2. CASE StepFails(r)
  <2>1. Busy(r) /\ UNCHANGED resyncVars /\ job' = job
    BY <1>2 DEF StepFails, storeVars, resyncVars
  <2>2. Goto(r, "uncreate") \/ Goto(r, "revert") \/ Return(r)
    BY <1>2 DEF StepFails
  <2> QED
    BY <2>1, <2>2, MoveInv, AnswerInv
<1> QED
  BY <1>1, <1>2

\* A lost reply: a job that was added although the call raised is of what was
\* checked.
LEMMA ReplyLostChecked ==
    ASSUME CheckedInv, NEW r \in Clients, ReplyLost(r) PROVE CheckedInv'
<1>1. UNCHANGED resyncVars
  BY DEF ReplyLost, InsertReplyLost, WriteReplyLost, ArmReplyLost, DisarmReplyLost
<1>2. CASE InsertReplyLost(r) \/ WriteReplyLost(r)
  <2>1. Return(r) /\ job' = job
    BY <1>2 DEF InsertReplyLost, WriteReplyLost
  <2> QED
    BY <1>1, <2>1, AnswerInv
<1>3. CASE DisarmReplyLost(r)
  <2>1. Return(r) /\ Disarm(req[r].id)
    BY <1>3 DEF DisarmReplyLost
  <2>2. ArmedWasChecked' /\ DOMAIN job' = Schedules
    BY <2>1, DisarmKeeps DEF CheckedInv
  <2> QED
    BY <1>1, <2>1, <2>2, ReturnInv, RequestsKeep
<1>4. CASE ArmReplyLost(r)
  <2>1. /\ Busy(r) /\ Arm(req[r].id, Edited(r))
        /\ Goto(r, "uncreate") \/ Goto(r, "revert")
    BY <1>4 DEF ArmReplyLost, At
  <2>2. Armable(Edited(r)) /\ req[r].id \in Schedules
    BY <1>4 DEF CheckedInv, Shape, EditChecked, WillArm, ArmReplyLost, Formed, At
  <2>3. ArmedWasChecked' /\ DOMAIN job' = Schedules
    BY <2>1, <2>2, ArmKeeps DEF CheckedInv
  <2>4. DOMAIN req' = Clients /\ \A q \in Clients : (Busy(q)' => Formed(q)') /\ EditChecked(q)'
    BY <2>1, GotoInv
  <2> QED
    BY <1>1, <2>3, <2>4, RequestsKeep
<1> QED
  BY <1>2, <1>3, <1>4 DEF ReplyLost

-----------------------------------------------------------------------------
(* The worker that starts. *)

LEMMA RequestsAlone ==
    ASSUME CheckedInv, req' = req
    PROVE  /\ DOMAIN req' = Clients
           /\ \A q \in Clients : (Busy(q)' => Formed(q)') /\ EditChecked(q)'
  BY OthersKeep DEF CheckedInv, Shape

LEMMA WorkerStartsInv == ASSUME CheckedInv, WorkerStarts PROVE CheckedInv'
<1>1. PICK lost : job' = [s \in Schedules |-> IF s \in lost THEN None ELSE job[s]]
  BY DEF WorkerStarts
<1>2. DOMAIN job' = Schedules /\ ArmedWasChecked'
  BY <1>1, NoneArmed DEF CheckedInv
<1>3. found = {}
  BY DEF CheckedInv, Shape, WorkerStarts, NotStarting
<1>4. req' = req /\ found' = found /\ DOMAIN listed' \subseteq Schedules
  BY DEF WorkerStarts
<1> QED
  BY <1>2, <1>3, <1>4, RequestsAlone DEF CheckedInv, Shape

LEMMA ResyncInv ==
    ASSUME CheckedInv, NEW s \in Schedules,
           Skip(s) \/ FindMissing(s) \/ Restore(s) \/ RestoreFails(s)
    PROVE  CheckedInv'
<1>1. CASE Skip(s)
  <2>1. /\ req' = req /\ job' = job /\ found' = found /\ s \notin found
        /\ listed' = Forget(s)
    BY <1>1 DEF Skip, storeVars
  <2> QED
    BY <2>1, RequestsAlone, SameJobs DEF CheckedInv, Shape, Forget, Armable
<1>2. CASE FindMissing(s)
  <2>1. /\ req' = req /\ job' = job /\ listed' = listed /\ found' = found \cup {s}
        /\ s \in DOMAIN listed /\ Armable(listed[s])
    BY <1>2 DEF FindMissing, Missing, storeVars
  <2> QED
    BY <2>1, RequestsAlone, SameJobs DEF CheckedInv, Shape, Armable
<1>3. CASE Restore(s)
  <2>1. /\ req' = req /\ Arm(s, listed[s]) /\ listed' = Forget(s) /\ found' = found \ {s}
        /\ s \in found
    BY <1>3 DEF Restore
  <2>2. DOMAIN job' = Schedules /\ ArmedWasChecked'
    BY <2>1, ArmKeeps DEF CheckedInv
  <2> QED
    BY <2>1, <2>2, RequestsAlone DEF CheckedInv, Shape, Forget, Armable
<1>4. CASE RestoreFails(s)
  <2>1. req' = req /\ job' = job /\ listed' = Forget(s) /\ found' = found \ {s}
    BY <1>4 DEF RestoreFails, storeVars
  <2> QED
    BY <2>1, RequestsAlone, SameJobs DEF CheckedInv, Shape, Forget, Armable
<1> QED
  BY <1>1, <1>2, <1>3, <1>4

-----------------------------------------------------------------------------
LEMMA InitChecked == Init => CheckedInv
  BY DEF Init, CheckedInv, Shape, ArmedWasChecked, Armed, EditChecked, WillArm, At, Busy,
         NotStarting

LEMMA NextChecked == CheckedInv /\ [Next]_vars => CheckedInv'
<1> SUFFICES ASSUME CheckedInv, [Next]_vars PROVE CheckedInv'
  OBVIOUS
<1>1. ASSUME NEW r \in Clients, Call(r) PROVE CheckedInv'
  BY <1>1, BeginInv
<1>2. ASSUME NEW r \in Clients, Serve(r) PROVE CheckedInv'
  BY <1>2, ServeInv DEF Serve
<1>3. ASSUME NEW r \in Clients, Clash(r) \/ RequestFault(r) \/ ReplyFault(r) PROVE CheckedInv'
  BY <1>3, FailsInv, ReplyLostChecked DEF RequestFault, ReplyFault
<1>4. CASE WorkerStarts
  BY <1>4, WorkerStartsInv
<1>5. ASSUME NEW s \in Schedules, Skip(s) \/ FindMissing(s) \/ Restore(s) \/ RestoreFails(s)
      PROVE  CheckedInv'
  BY <1>5, ResyncInv
<1>6. CASE UNCHANGED vars
  <2>1. req' = req /\ job' = job /\ UNCHANGED resyncVars
    BY <1>6 DEF vars, storeVars
  <2> QED
    BY <2>1, RequestsAlone, SameJobs, RequestsKeep
<1> QED
  BY <1>1, <1>2, <1>3, <1>4, <1>5, <1>6 DEF Next

\* A schedule is only ever armed with five fields that were checked together and
\* have a fire to come, for any schedules, callers, requests, zones and faults.
THEOREM ArmedWasCheckedAlways == Spec => []ArmedWasChecked
<1>1. CheckedInv => ArmedWasChecked
  BY DEF CheckedInv
<1> QED
  BY <1>1, InitChecked, NextChecked, PTL DEF Spec
==============================================================================
