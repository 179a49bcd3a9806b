----------------------- MODULE SchedulingServiceProofs -----------------------
(***************************************************************************)
(* Theorems about SchedulingService for every set of schedules, clients,   *)
(* triggers and calls, every threshold and every number of faults.         *)
(***************************************************************************)
EXTENDS ServiceInvariant, TLAPS

-----------------------------------------------------------------------------
(* Types *)

\* The fields of a request in flight.
LEMMA RequestFields ==
    ASSUME LifecycleTypeOK, NEW r \in Clients, Busy(r)
    PROVE  /\ req[r] \in Requests
           /\ req[r].at \in Steps
           /\ req[r].id \in Schedules
           /\ req[r].call \in Calls
           /\ req[r].call.op \in Ops
           /\ req[r].call.status \in {"keep", "active", "paused"}
           /\ req[r].call.trigger \in Triggers \cup {"keep"}
           /\ req[r].seen \in Docs
           /\ req[r].seen.status \in Statuses
           /\ req[r].seen.trigger \in Triggers
           /\ req[r].seen.errors \in Nat
<1>1. req[r] \in Requests
  BY DEF LifecycleTypeOK, Busy
<1>2. req[r].call \in CallShapes
  BY <1>1, CallsAssumption DEF Requests
<1> QED BY <1>1, <1>2 DEF Requests, CallShapes, Docs

\* Moving to a step of Steps, or returning, keeps the type of requests.
LEMMA GotoType ==
    ASSUME LifecycleTypeOK, NEW r \in Clients, Busy(r), NEW step \in Steps, Goto(r, step)
    PROVE  LifecycleTypeOK'
<1>1. [req[r] EXCEPT !.at = step] \in Requests
  BY RequestFields DEF Requests
<1> QED BY <1>1 DEF LifecycleTypeOK, Goto

LEMMA ReturnType ==
    ASSUME LifecycleTypeOK, NEW r \in Clients, Return(r)
    PROVE  LifecycleTypeOK'
BY DEF LifecycleTypeOK, Return

\* What the helpers on the store yield.
LEMMA ArmType ==
    ASSUME job \in [Schedules -> Jobs], NEW s \in Schedules, NEW t \in Triggers, Arm(s, t)
    PROVE  job' \in [Schedules -> Jobs]
BY DEF Arm, ArmedWith, Jobs

LEMMA DisarmType ==
    ASSUME job \in [Schedules -> Jobs], NEW s \in Schedules, Disarm(s)
    PROVE  job' \in [Schedules -> Jobs]
BY DEF Disarm, Jobs

LEMMA EditedTriggerType ==
    ASSUME LifecycleTypeOK, NEW r \in Clients, Busy(r)
    PROVE  EditedTrigger(r) \in Triggers
BY RequestFields DEF EditedTrigger

LEMMA SetFieldsType ==
    ASSUME LifecycleTypeOK, NEW r \in Clients, Busy(r), NEW d \in Docs,
           NEW status, req[r].call.status # "keep" => status \in Statuses,
           NEW trigger, TriggerChanged(r) => trigger \in Triggers,
           NEW errors \in Nat
    PROVE  SetFields(r, d, status, trigger, errors) \in Docs
BY DEF SetFields, Docs

LEMMA SavedType ==
    ASSUME LifecycleTypeOK, doc \in [Schedules -> Docs], NEW r \in Clients, Busy(r)
    PROVE  Saved(r) \in [Schedules -> Docs]
<1> DEFINE s == req[r].id
<1>1. SetFields(r, doc[s], req[r].call.status, req[r].call.trigger, 0) \in Docs
  BY RequestFields, SetFieldsType DEF Statuses, TriggerChanged
<1> QED BY <1>1 DEF Saved

LEMMA InsertedType ==
    ASSUME LifecycleTypeOK, RequestsOnTrack, doc \in [Schedules -> Docs],
           NEW r \in Clients, At(r, "insert")
    PROVE  Inserted(r) \in [Schedules -> Docs]
<1>1. Busy(r) /\ req[r].at = "insert"
  BY DEF At
<1>2. req[r].call.op = "create"
  BY <1>1, RequestFields DEF RequestsOnTrack, StepsOf, Ops
<1>3. req[r].call.trigger \in Triggers
  BY <1>1, <1>2, RequestFields, CallsAssumption
<1> QED BY <1>1, <1>3, RequestFields DEF Inserted, Docs, Statuses

\* The store keeps its type, and requests theirs, in every step of a request.
LEMMA RequestStepTypes ==
    ASSUME StoreTypeOK, LifecycleTypeOK, RequestsOnTrack, NEW r \in Clients, RequestStep(r)
    PROVE  StoreTypeOK' /\ LifecycleTypeOK'
<1> USE DEF StoreTypeOK, storeVars, Steps
<1>0. Busy(r)
  BY DEF RequestStep, CreateAccepted, Insert, ArmNew, Uncreate, NothingToDo, DisarmThenSave,
         SaveOnly, SaveThenArm, Refused, Reaches, Write, WriteMissed, ArmEdited, Revert,
         QueueRunNow, DisarmThenDelete, Remove, At
<1>1. CASE CreateAccepted(r)
  BY <1>0, <1>1, GotoType DEF CreateAccepted
<1>2. CASE Insert(r)
  BY <1>0, <1>2, GotoType, InsertedType DEF Insert
<1>3. CASE ArmNew(r)
  <2>1. req[r].call.op = "create"
    BY <1>0, <1>3, RequestFields DEF RequestsOnTrack, StepsOf, Ops, ArmNew, At
  <2>2. req[r].call.trigger \in Triggers
    BY <1>0, <2>1, RequestFields, CallsAssumption
  <2> QED BY <1>0, <1>3, <2>2, ReturnType, ArmType, RequestFields DEF ArmNew
<1>4. CASE Uncreate(r)
  <2>1. doc' \in [Schedules -> Docs]
    BY <1>0, <1>4, RequestFields DEF Uncreate, Docs, Statuses
  <2> QED BY <1>4, <2>1, ReturnType DEF Uncreate
<1>5. CASE NothingToDo(r)
  BY <1>5, ReturnType DEF NothingToDo
<1>6. CASE DisarmThenSave(r)
  BY <1>0, <1>6, GotoType, DisarmType, RequestFields DEF DisarmThenSave
<1>7. CASE SaveOnly(r)
  BY <1>0, <1>7, GotoType DEF SaveOnly
<1>8. CASE SaveThenArm(r)
  BY <1>0, <1>8, GotoType DEF SaveThenArm
<1>9. CASE Refused(r)
  BY <1>9, ReturnType DEF Refused
<1>10. CASE Write(r)
  BY <1>0, <1>10, GotoType, ReturnType, SavedType DEF Write
<1>11. CASE WriteMissed(r)
  BY <1>0, <1>11, GotoType, ReturnType DEF WriteMissed
<1>12. CASE ArmEdited(r)
  BY <1>0, <1>12, ReturnType, ArmType, EditedTriggerType, RequestFields DEF ArmEdited
<1>13. CASE Revert(r)
  <2> DEFINE s == req[r].id
             seen == req[r].seen
  <2>1. SetFields(r, doc[s], seen.status, seen.trigger, seen.errors) \in Docs
    BY <1>0, RequestFields, SetFieldsType
  <2>2. doc' \in [Schedules -> Docs]
    BY <1>13, <2>1 DEF Revert
  <2> QED BY <1>13, <2>2, ReturnType DEF Revert
<1>14. CASE QueueRunNow(r)
  BY <1>0, <1>14, ReturnType, RequestFields DEF QueueRunNow
<1>15. CASE DisarmThenDelete(r)
  BY <1>0, <1>15, GotoType, DisarmType, RequestFields DEF DisarmThenDelete
<1>16. CASE Remove(r)
  <2>1. doc' \in [Schedules -> Docs]
    BY <1>0, <1>16, RequestFields DEF Remove, Docs, Statuses
  <2> QED BY <1>16, <2>1, ReturnType DEF Remove
<1> QED BY <1>1, <1>2, <1>3, <1>4, <1>5, <1>6, <1>7, <1>8, <1>9, <1>10, <1>11, <1>12,
           <1>13, <1>14, <1>15, <1>16 DEF RequestStep

\* A request only moves to a step of its own operation, or is over.
LEMMA RequestMoves ==
    ASSUME LifecycleTypeOK, RequestsOnTrack, NEW r \in Clients, RequestStep(r)
    PROVE  /\ Busy(r)
           /\ \/ Return(r)
              \/ \E step \in StepsOf(req[r].call.op) :
                     Goto(r, step) /\ (step \in {"arm", "revert"} => Rearms(r))
<1>0. Busy(r)
  BY DEF RequestStep, CreateAccepted, Insert, ArmNew, Uncreate, NothingToDo, DisarmThenSave,
         SaveOnly, SaveThenArm, Refused, Reaches, Write, WriteMissed, ArmEdited, Revert,
         QueueRunNow, DisarmThenDelete, Remove, At
<1>1. req[r].call.op \in Ops /\ req[r].at \in StepsOf(req[r].call.op)
  BY <1>0, RequestFields DEF RequestsOnTrack
<1> QED
  BY <1>0, <1>1 DEF RequestStep, CreateAccepted, Insert, ArmNew, Uncreate, NothingToDo,
     DisarmThenSave, SaveOnly, SaveThenArm, Refused, Reaches, Write, WriteMissed, ArmEdited,
     Revert, QueueRunNow, DisarmThenDelete, Remove, At, StepsOf, Ops

LEMMA FaultMoves ==
    ASSUME LifecycleTypeOK, RequestsOnTrack, NEW r \in Clients, StepFails(r) \/ ReplyLost(r)
    PROVE  /\ Busy(r)
           /\ \/ Return(r)
              \/ \E step \in StepsOf(req[r].call.op) :
                     Goto(r, step) /\ (step \in {"arm", "revert"} => Rearms(r))
<1>0. Busy(r)
  BY DEF StepFails, ReplyLost, WriteReplyLost, ArmReplyLost, DisarmReplyLost, Disarms, Reaches, At
<1>1. req[r].call.op \in Ops /\ req[r].at \in StepsOf(req[r].call.op)
  BY <1>0, RequestFields DEF RequestsOnTrack
<1>2. CASE ReplyLost(r)
  <2>1. CASE WriteReplyLost(r) \/ DisarmReplyLost(r)
    BY <1>0, <2>1 DEF WriteReplyLost, DisarmReplyLost
  <2>2. CASE ArmReplyLost(r)
    BY <1>0, <1>1, <2>2 DEF ArmReplyLost, At, StepsOf, Ops, RequestsOnTrack
  <2> QED BY <1>2, <2>1, <2>2 DEF ReplyLost
<1>3. CASE StepFails(r)
  <2>1. CASE At(r, "armNew") \/ At(r, "arm")
    BY <1>0, <1>1, <1>3, <2>1 DEF StepFails, At, StepsOf, Ops, RequestsOnTrack
  <2>2. CASE ~(At(r, "armNew") \/ At(r, "arm"))
    BY <1>0, <1>3, <2>2 DEF StepFails
  <2> QED BY <2>1, <2>2
<1> QED BY <1>2, <1>3

\* The store keeps its type when the reply of a call that took effect is lost.
LEMMA ReplyLostTypes ==
    ASSUME StoreTypeOK, LifecycleTypeOK, RequestsOnTrack, NEW r \in Clients, ReplyLost(r)
    PROVE  StoreTypeOK' /\ UNCHANGED <<queued, expired>>
<1>0. Busy(r)
  BY FaultMoves
<1>1. CASE WriteReplyLost(r)
  BY <1>0, <1>1, InsertedType, SavedType DEF StoreTypeOK, WriteReplyLost
<1>2. CASE ArmReplyLost(r)
  <2>1. req[r].at = "armNew" => req[r].call.trigger \in Triggers
    BY <1>0, RequestFields, CallsAssumption DEF RequestsOnTrack, StepsOf, Ops
  <2>2. job' \in [Schedules -> Jobs]
    BY <1>0, <1>2, <2>1, ArmType, EditedTriggerType, RequestFields
       DEF StoreTypeOK, ArmReplyLost, At
  <2> QED BY <1>2, <2>2 DEF StoreTypeOK, ArmReplyLost
<1>3. CASE DisarmReplyLost(r)
  BY <1>0, <1>3, DisarmType, RequestFields DEF StoreTypeOK, DisarmReplyLost
<1> QED BY <1>1, <1>2, <1>3 DEF ReplyLost

\* Such a move keeps requests typed and on track.
LEMMA MoveKeepsTrack ==
    ASSUME LifecycleTypeOK, RequestsOnTrack, NEW r \in Clients, Busy(r), phase' = phase,
           \/ Return(r)
           \/ \E step \in StepsOf(req[r].call.op) :
                  Goto(r, step) /\ (step \in {"arm", "revert"} => Rearms(r))
    PROVE  LifecycleTypeOK' /\ RequestsOnTrack'
<1>1. req[r] \in Requests /\ req[r].call.op \in Ops
  BY RequestFields
<1>2. CASE Return(r)
  <2>1. \A q \in Clients : Busy(q)' => q # r /\ req'[q] = req[q] /\ Busy(q)
    BY <1>2 DEF LifecycleTypeOK, Return, Busy
  <2> QED BY <1>2, <2>1, ReturnType
          DEF RequestsOnTrack, Rearms, EditedStatus, Resuming, TriggerChanged
<1>3. ASSUME NEW step \in StepsOf(req[r].call.op), Goto(r, step),
             step \in {"arm", "revert"} => Rearms(r)
      PROVE  LifecycleTypeOK' /\ RequestsOnTrack'
  <2>1. step \in Steps
    BY <1>1, <1>3 DEF StepsOf, Ops, Steps
  <2>2. \A q \in Clients \ {r} : req'[q] = req[q]
    BY <1>3 DEF LifecycleTypeOK, Goto
  <2>3. req'[r] = [req[r] EXCEPT !.at = step]
    BY <1>3 DEF LifecycleTypeOK, Goto
  <2>4. /\ req'[r].at = step
        /\ req'[r].call = req[r].call
        /\ req'[r].seen = req[r].seen
    BY <1>1, <2>3 DEF Requests
  <2>5. RequestsOnTrack'
    BY <1>3, <2>2, <2>4 DEF RequestsOnTrack, Busy, Rearms, EditedStatus, Resuming, TriggerChanged
  <2> QED BY <1>3, <2>1, <2>5, GotoType
<1> QED BY <1>2, <1>3

LEMMA RunStepTypes ==
    ASSUME StoreTypeOK, RunTypeOK, NEW s \in Schedules, NEW k \in JobKinds, RunStep(s, k)
    PROVE  StoreTypeOK' /\ RunTypeOK'
<1> USE DEF StoreTypeOK, storeVars
<1>0. \A stage \in Stages : Advance(s, k, stage) => RunTypeOK'
  BY DEF RunTypeOK, Advance
<1>1. CASE Load(s, k)
  BY <1>0, <1>1 DEF Load, Stages
<1>2. CASE Answer(s, k)
  BY <1>0, <1>2 DEF Answer, Stages
<1>3. CASE RecordSuccess(s, k)
  <2>1. doc' \in [Schedules -> Docs]
    BY <1>3 DEF RecordSuccess, Cleared, Docs
  <2> QED BY <1>0, <1>3, <2>1 DEF RecordSuccess, Cleared, Stages
<1>4. CASE RecordFailure(s, k)
  <2>1. doc' \in [Schedules -> Docs]
    BY <1>4 DEF RecordFailure, Counted, Docs
  <2> QED BY <1>0, <1>4, <2>1 DEF RecordFailure, Counted, Stages
<1>5. CASE PauseFailing(s, k)
  <2>1. doc' \in [Schedules -> Docs]
    BY <1>5 DEF PauseFailing, Docs, Statuses
  <2> QED BY <1>0, <1>5, <2>1 DEF PauseFailing, Stages
<1>6. CASE LeaveAlone(s, k)
  BY <1>0, <1>6 DEF LeaveAlone, Stages
<1>7. CASE DisarmFailing(s, k)
  BY <1>0, <1>7, DisarmType DEF DisarmFailing, Stages
<1>8. CASE Report(s, k)
  BY <1>0, <1>8 DEF Report, Stages
<1> QED BY <1>1, <1>2, <1>3, <1>4, <1>5, <1>6, <1>7, <1>8 DEF RunStep

LEMMA RunReplyTypes ==
    ASSUME StoreTypeOK, RunTypeOK, NEW s \in Schedules, NEW k \in JobKinds, RunReplyLost(s, k)
    PROVE  StoreTypeOK' /\ UNCHANGED <<queued, expired>> /\ RunTypeOK'
<1>1. RunTypeOK' /\ UNCHANGED <<queued, expired>>
  BY DEF RunReplyLost, Advance, RunTypeOK, Stages
<1>2. doc' \in [Schedules -> Docs]
  BY DEF RunReplyLost, Cleared, Counted, StoreTypeOK, Docs, Statuses
<1>3. job' \in [Schedules -> Jobs]
  BY DisarmType DEF RunReplyLost, StoreTypeOK
<1> QED BY <1>1, <1>2, <1>3 DEF StoreTypeOK

-----------------------------------------------------------------------------
(* The history *)

Harms == [Schedules -> SUBSET Mishaps]
Mends == [Schedules -> SUBSET {"unsaved", "unchecked"}]

\* Races and wrong jobs are never forgotten, and a crowd is always noticed.
LEMMA HistoryGrows ==
    ASSUME mishaps \in Harms, NEW left \in Harms, NEW mended \in Mends, History(left, mended)
    PROVE  /\ mishaps' \in Harms
           /\ \A s \in Schedules :
                 /\ left[s] \subseteq mishaps'[s]
                 /\ mishaps[s] \cap {"raced", "misarmed"} \subseteq mishaps'[s]
                 /\ Crowded(s)' => "raced" \in mishaps'[s]
BY DEF History, Harms, Mends, Mishaps

LEMMA NothingType == Nothing \in Harms /\ Nothing \in Mends
BY DEF Nothing, Harms, Mends

LEMMA OnlyType ==
    /\ \A s \in Schedules, what \in SUBSET Mishaps :
          Only(s, what) \in Harms /\ Only(s, what)[s] = what
    /\ \A s \in Schedules, what \in SUBSET {"unsaved", "unchecked"} : Only(s, what) \in Mends
BY DEF Nothing, Only, Harms, Mends

LEMMA LeavesTypes ==
    /\ \A r \in Clients : RequestLeaves(r) \in SUBSET Mishaps
    /\ \A s \in Schedules, k \in JobKinds : RunLeaves(s, k) \in SUBSET Mishaps
    /\ \A s \in Schedules : StopLeaves(s) \in SUBSET Mishaps
<1>1. \A r \in Clients : RequestLeaves(r) \in SUBSET Mishaps
  BY DEF RequestLeaves, Mishaps
<1>2. \A s \in Schedules, k \in JobKinds : RunLeaves(s, k) \in SUBSET Mishaps
  BY DEF RunLeaves, Mishaps
<1> QED BY <1>1, <1>2 DEF StopLeaves

LEMMA LostReplyTypes == \A r \in Clients : LostReplyLeaves(r) \in SUBSET Mishaps
BY DEF LostReplyLeaves, Mishaps

-----------------------------------------------------------------------------
(* Types are kept by every step of the service, and its history grows. *)

HistoryKept ==
    \A s \in Schedules :
        /\ mishaps[s] \cap {"raced", "misarmed"} \subseteq mishaps'[s]
        /\ Crowded(s)' => "raced" \in mishaps'[s]

LEMMA HistoryStep ==
    ASSUME mishaps \in Harms, NEW left \in Harms, NEW mended \in Mends, History(left, mended)
    PROVE  mishaps' \in Harms /\ HistoryKept
BY HistoryGrows DEF HistoryKept

\* What the call whose reply is lost leaves behind is on record.
LEMMA LostReplyMarks ==
    ASSUME ServiceTypeOK, RequestsOnTrack, NEW r \in Clients, ReplyFault(r)
    PROVE  LostReplyLeaves(r) \subseteq mishaps'[req[r].id]
<1>1. req[r].id \in Schedules /\ mishaps \in Harms
  BY FaultMoves, RequestFields DEF ReplyFault, ServiceTypeOK, Harms
<1> QED BY <1>1, LostReplyTypes, OnlyType, NothingType, HistoryGrows DEF ReplyFault

LEMMA UneventfulStep ==
    ASSUME mishaps \in Harms, Uneventful
    PROVE  mishaps' \in Harms /\ HistoryKept /\ faults' = faults
BY HistoryStep, NothingType DEF Uneventful

LEMMA FaultType ==
    ASSUME faults \in 0..MaxFaults, Fault
    PROVE  faults' \in 0..MaxFaults
BY MaxFaultsAssumption DEF Fault

LEMMA ClientSteps ==
    ASSUME ServiceTypeOK, RequestsOnTrack, NEW r \in Clients,
           Call(r) \/ Serve(r) \/ RequestFault(r) \/ ReplyFault(r)
    PROVE  ServiceTypeOK' /\ RequestsOnTrack' /\ HistoryKept
<1> USE DEF ServiceTypeOK, StoreTypeOK, storeVars, lifecycleVars, runVars, processVars, RunTypeOK,
        Harms
<1>1. CASE Call(r)
  <2> PICK s \in Schedules, c \in Calls : Lookup(r, s, c) \/ LookupName(r, s, c)
    BY <1>1 DEF Call
  <2>1. phase = "up" /\ UNCHANGED <<storeVars, runVars, processVars>>
    BY <1>1 DEF Call, Lookup, LookupName
  <2>2. req' = [req EXCEPT ![r] = [at |-> "decide", call |-> c, id |-> s, seen |-> doc[s]]]
    BY DEF Lookup, LookupName
  <2>3. [at |-> "decide", call |-> c, id |-> s, seen |-> doc[s]] \in Requests
    BY DEF Requests, Steps
  <2>4. LifecycleTypeOK'
    BY <2>2, <2>3 DEF LifecycleTypeOK
  <2>5. c.op \in Ops /\ "decide" \in StepsOf(c.op)
    BY CallsAssumption DEF CallShapes, StepsOf, Ops
  <2>6. c.op # "create" => doc[s].status \in {"active", "paused"}
    BY DEF Lookup, LookupName, Exists
  <2>7. RequestsOnTrack'
    <3> SUFFICES ASSUME NEW q \in Clients, Busy(q)'
                 PROVE  /\ phase' = "up"
                        /\ req'[q].at \in StepsOf(req'[q].call.op)
                        /\ req'[q].at \in {"arm", "revert"} => Rearms(q)'
                        /\ req'[q].call.op # "create" => req'[q].seen.status \in {"active", "paused"}
      BY DEF RequestsOnTrack
    <3>1. CASE q = r
      BY <2>1, <2>2, <2>5, <2>6, <3>1 DEF LifecycleTypeOK
    <3>2. CASE q # r
      BY <2>1, <2>2, <3>2 DEF LifecycleTypeOK, RequestsOnTrack, Busy, Rearms, EditedStatus,
         Resuming, TriggerChanged
    <3> QED BY <3>1, <3>2
  <2> QED BY <1>1, <2>1, <2>4, <2>7, UneventfulStep DEF Call
<1>2. CASE Serve(r)
  <2>1. RequestStep(r) /\ UNCHANGED <<runVars, processVars>>
    BY <1>2 DEF Serve
  <2>2. StoreTypeOK' /\ expired' = expired
    BY <2>1, RequestStepTypes DEF RequestStep, CreateAccepted, Insert, ArmNew, Uncreate,
       NothingToDo, DisarmThenSave, SaveOnly, SaveThenArm, Refused, Write, WriteMissed,
       ArmEdited, Revert, QueueRunNow, DisarmThenDelete, Remove
  <2>3. LifecycleTypeOK' /\ RequestsOnTrack'
    BY <2>1, RequestMoves, MoveKeepsTrack
  <2> QED BY <1>2, <2>1, <2>2, <2>3, UneventfulStep DEF Serve
<1>3. CASE RequestFault(r)
  <2>1. StepFails(r) /\ UNCHANGED <<runVars, processVars>> /\ Fault
    BY <1>3 DEF RequestFault
  <2>2. UNCHANGED storeVars
    BY <2>1 DEF StepFails
  <2>3. LifecycleTypeOK' /\ RequestsOnTrack'
    BY <2>1, FaultMoves, MoveKeepsTrack
  <2> DEFINE what == IF At(r, "arm") \/ At(r, "armNew") THEN {} ELSE RequestLeaves(r)
  <2>4. what \in SUBSET Mishaps /\ req[r].id \in Schedules
    BY <2>1, LeavesTypes, FaultMoves, RequestFields
  <2>5. History(Only(req[r].id, what), Nothing)
    BY <1>3 DEF RequestFault
  <2>6. mishaps' \in Harms /\ HistoryKept
    BY <2>4, <2>5, OnlyType, NothingType, HistoryStep
  <2> QED BY <2>1, <2>2, <2>3, <2>6, FaultType
<1>4. CASE ReplyFault(r)
  <2>1. ReplyLost(r) /\ UNCHANGED <<runVars, processVars>> /\ Fault
    BY <1>4 DEF ReplyFault
  <2>2. Busy(r) /\ StoreTypeOK' /\ UNCHANGED <<queued, expired>>
    BY <2>1, FaultMoves, ReplyLostTypes
  <2>3. LifecycleTypeOK' /\ RequestsOnTrack'
    BY <2>1, FaultMoves, MoveKeepsTrack
  <2>4. mishaps' \in Harms /\ HistoryKept
    BY <1>4, <2>2, LostReplyTypes, RequestFields, OnlyType, NothingType, HistoryStep
       DEF ReplyFault
  <2> QED BY <2>1, <2>2, <2>3, <2>4, FaultType
<1> QED BY <1>1, <1>2, <1>3, <1>4

LEMMA RunSteps ==
    ASSUME ServiceTypeOK, RequestsOnTrack, NEW s \in Schedules, NEW k \in JobKinds,
           Execute(s, k) \/ RunFault(s, k) \/ RunReplyFault(s, k)
    PROVE  ServiceTypeOK' /\ RequestsOnTrack' /\ HistoryKept
<1> USE DEF ServiceTypeOK, StoreTypeOK, storeVars, lifecycleVars, processVars, Harms
<1>0. ASSUME UNCHANGED <<lifecycleVars, processVars>>
      PROVE  LifecycleTypeOK' /\ RequestsOnTrack'
  BY <1>0 DEF LifecycleTypeOK, RequestsOnTrack, Busy, Rearms, EditedStatus, Resuming,
     TriggerChanged
<1>1. CASE Execute(s, k)
  <2>1. RunStep(s, k) /\ UNCHANGED <<lifecycleVars, processVars, faults>>
    BY <1>1 DEF Execute
  <2>2. StoreTypeOK' /\ RunTypeOK'
    BY <2>1, RunStepTypes
  <2>3. expired' = expired
    BY <2>1 DEF RunStep, Load, Answer, RecordSuccess, RecordFailure, PauseFailing, LeaveAlone,
       DisarmFailing, Report
  <2> DEFINE what == IF run[s][k] = "check" THEN {"unchecked"} ELSE {}
  <2>4. History(Nothing, Only(s, what))
    BY <1>1 DEF Execute
  <2>5. mishaps' \in Harms /\ HistoryKept
    BY <2>4, OnlyType, NothingType, HistoryStep
  <2> QED BY <1>0, <2>1, <2>2, <2>3, <2>5
<1>2. CASE RunFault(s, k)
  <2>1. RunFails(s, k) /\ UNCHANGED <<lifecycleVars, processVars>> /\ Fault
    BY <1>2 DEF RunFault
  <2>2. UNCHANGED storeVars /\ RunTypeOK'
    BY <2>1 DEF RunFails, RunTypeOK, Advance, Stages
  <2>3. mishaps' \in Harms /\ HistoryKept
    BY <1>2, LeavesTypes, OnlyType, NothingType, HistoryStep DEF RunFault
  <2> QED BY <1>0, <2>1, <2>2, <2>3, FaultType
<1>3. CASE RunReplyFault(s, k)
  <2>1. RunReplyLost(s, k) /\ UNCHANGED <<lifecycleVars, processVars>> /\ Fault
    BY <1>3 DEF RunReplyFault
  <2>2. StoreTypeOK' /\ UNCHANGED <<queued, expired>> /\ RunTypeOK'
    BY <2>1, RunReplyTypes
  <2> DEFINE what == CASE run[s][k] = "failure" -> {"unchecked"}
                       [] run[s][k] = "check"   -> {"misarmed"}
                       [] OTHER -> {}
  <2>3. what \in SUBSET Mishaps /\ History(Only(s, what), Nothing)
    BY <1>3 DEF RunReplyFault, Mishaps
  <2>4. mishaps' \in Harms /\ HistoryKept
    BY <2>3, OnlyType, NothingType, HistoryStep
  <2> QED BY <1>0, <2>1, <2>2, <2>4, FaultType
<1> QED BY <1>1, <1>2, <1>3

LEMMA AdvanceType ==
    ASSUME RunTypeOK, NEW s \in Schedules, NEW k \in JobKinds, NEW stage \in Stages,
           Advance(s, k, stage)
    PROVE  RunTypeOK'
BY DEF RunTypeOK, Advance

LEMMA SchedulerSteps ==
    ASSUME ServiceTypeOK, RequestsOnTrack,
           \/ \E s \in Schedules : Fire(s) \/ MissLast(s) \/ FireNow(s) \/ DropNow(s)
           \/ Tick
    PROVE  ServiceTypeOK' /\ RequestsOnTrack' /\ HistoryKept
<1> USE DEF ServiceTypeOK, StoreTypeOK, storeVars, lifecycleVars, processVars, Harms
<1>0. ASSUME UNCHANGED <<lifecycleVars, processVars>>
      PROVE  LifecycleTypeOK' /\ RequestsOnTrack'
  BY <1>0 DEF LifecycleTypeOK, RequestsOnTrack, Busy, Rearms, EditedStatus, Resuming,
     TriggerChanged
<1>a. ASSUME NEW s \in Schedules, AfterFire(s)
      PROVE  job' \in [Schedules -> Jobs]
  BY <1>a DEF AfterFire, Jobs
<1>1. ASSUME NEW s \in Schedules, Fire(s)
      PROVE  ServiceTypeOK' /\ RequestsOnTrack' /\ HistoryKept
  <2>1. RunTypeOK'
    BY <1>1, AdvanceType DEF Fire, JobKinds, Stages
  <2>2. mishaps' \in Harms /\ HistoryKept /\ faults' = faults
    BY <1>1, UneventfulStep DEF Fire
  <2> QED BY <1>0, <1>a, <1>1, <2>1, <2>2 DEF Fire
<1>2. ASSUME NEW s \in Schedules, MissLast(s)
      PROVE  ServiceTypeOK' /\ RequestsOnTrack' /\ HistoryKept
  <2>1. mishaps' \in Harms /\ HistoryKept /\ faults' = faults
    BY <1>2, UneventfulStep DEF MissLast
  <2>2. RunTypeOK'
    BY <1>2 DEF MissLast, runVars, RunTypeOK
  <2> QED BY <1>0, <1>a, <1>2, <2>1, <2>2 DEF MissLast
<1>3. ASSUME NEW s \in Schedules, FireNow(s)
      PROVE  ServiceTypeOK' /\ RequestsOnTrack' /\ HistoryKept
  <2>1. RunTypeOK'
    BY <1>3, AdvanceType DEF FireNow, JobKinds, Stages
  <2>2. mishaps' \in Harms /\ HistoryKept /\ faults' = faults
    BY <1>3, UneventfulStep DEF FireNow
  <2> QED BY <1>0, <1>3, <2>1, <2>2 DEF FireNow
<1>4. ASSUME NEW s \in Schedules, DropNow(s)
      PROVE  ServiceTypeOK' /\ RequestsOnTrack' /\ HistoryKept
  <2>1. mishaps' \in Harms /\ HistoryKept /\ faults' = faults
    BY <1>4, UneventfulStep DEF DropNow
  <2>2. RunTypeOK'
    BY <1>4 DEF DropNow, runVars, RunTypeOK
  <2> QED BY <1>0, <1>4, <2>1, <2>2 DEF DropNow
<1>5. CASE Tick
  <2>1. mishaps' \in Harms /\ HistoryKept /\ faults' = faults
    BY <1>5, UneventfulStep DEF Tick
  <2>2. RunTypeOK' /\ UNCHANGED <<lifecycleVars, processVars>>
    BY <1>5 DEF Tick, runVars, RunTypeOK
  <2>3. StoreTypeOK' /\ expired \subseteq expired'
    BY <1>5 DEF Tick, Expire
  <2> QED BY <1>0, <2>1, <2>2, <2>3
<1> QED BY <1>1, <1>2, <1>3, <1>4, <1>5

LEMMA ProcessSteps ==
    ASSUME ServiceTypeOK, RequestsOnTrack, Crash \/ Shutdown \/ Boot
    PROVE  ServiceTypeOK' /\ RequestsOnTrack' /\ HistoryKept
<1> USE DEF ServiceTypeOK, StoreTypeOK, storeVars, lifecycleVars, runVars, Harms
<1>0. ASSUME UNCHANGED <<lifecycleVars, runVars>>, phase = "up" => phase' = "up"
      PROVE  LifecycleTypeOK' /\ RequestsOnTrack' /\ RunTypeOK'
  BY <1>0 DEF LifecycleTypeOK, RequestsOnTrack, Busy, Rearms, EditedStatus, Resuming,
     TriggerChanged, RunTypeOK
<1>1. CASE Crash \/ Shutdown
  <2>1. Stop
    BY <1>1 DEF Crash, Shutdown
  <2>2. faults' \in 0..MaxFaults
    BY <1>1, FaultType DEF Crash, Shutdown
  <2>3. LifecycleTypeOK' /\ RequestsOnTrack'
    BY <2>1 DEF Stop, LifecycleTypeOK, RequestsOnTrack, Busy
  <2>4. RunTypeOK'
    BY <2>1 DEF Stop, NoRuns, RunTypeOK, Stages
  <2>5. [s \in Schedules |-> StopLeaves(s)] \in Harms
    BY LeavesTypes
  <2>6. mishaps' \in Harms /\ HistoryKept
    BY <2>1, <2>5, NothingType, HistoryStep DEF Stop
  <2> QED BY <2>1, <2>2, <2>3, <2>4, <2>6 DEF Stop, Phases
<1>2. ASSUME NEW kept \in SUBSET Schedules, StartScheduler(kept)
      PROVE  ServiceTypeOK' /\ RequestsOnTrack' /\ HistoryKept
  <2> DEFINE left == [s \in Schedules |-> IF s \in kept THEN {} ELSE {"unsaved"}]
  <2>1. faults' \in 0..MaxFaults
    BY <1>2, FaultType DEF StartScheduler
  <2>2. left \in Harms
    BY DEF Mishaps
  <2>3. mishaps' \in Harms /\ HistoryKept
    BY <1>2, <2>2, NothingType, HistoryStep DEF StartScheduler
  <2>4. job' \in [Schedules -> Jobs]
    BY <1>2 DEF StartScheduler, Jobs
  <2> QED BY <1>0, <1>2, <2>1, <2>3, <2>4 DEF StartScheduler, Phases
<1>3. CASE ListActive
  <2>1. mishaps' \in Harms /\ HistoryKept /\ faults' = faults
    BY <1>3, UneventfulStep DEF ListActive
  <2> QED BY <1>0, <1>3, <2>1 DEF ListActive, Phases
<1>4. ASSUME NEW failed \in SUBSET Schedules, Resync(failed)
      PROVE  ServiceTypeOK' /\ RequestsOnTrack' /\ HistoryKept
  <2> DEFINE mended == [s \in Schedules |-> IF s \in failed THEN {} ELSE {"unsaved"}]
  <2>1. faults' \in 0..MaxFaults
    BY <1>4, FaultType DEF Resync
  <2>2. mended \in Mends
    BY DEF Mends
  <2>3. mishaps' \in Harms /\ HistoryKept
    BY <1>4, <2>2, NothingType, HistoryStep DEF Resync
  <2>4. job' \in [Schedules -> Jobs]
    <3>1. \A s \in Schedules : doc[s].trigger \in Triggers
      BY DEF Docs
    <3> QED BY <1>4, <3>1 DEF Resync, ArmedWith, Jobs
  <2> QED BY <1>0, <1>4, <2>1, <2>3, <2>4 DEF Resync, Phases
<1> QED BY <1>1, <1>2, <1>3, <1>4 DEF Boot

LEMMA NextTypes ==
    ASSUME ServiceTypeOK, RequestsOnTrack, Next
    PROVE  ServiceTypeOK' /\ RequestsOnTrack' /\ HistoryKept
BY ClientSteps, RunSteps, SchedulerSteps, ProcessSteps DEF Next

LEMMA InitTypes == Init => ServiceTypeOK /\ RequestsOnTrack
<1> SUFFICES ASSUME Init PROVE ServiceTypeOK /\ RequestsOnTrack
  OBVIOUS
<1>1. NoDoc \in Docs
  BY TriggerAssumption DEF NoDoc, Docs, Statuses
<1>2. StoreTypeOK
  BY <1>1 DEF Init, StoreInit, StoreTypeOK, Jobs
<1>3. LifecycleTypeOK /\ RequestsOnTrack
  BY DEF Init, LifecycleInit, LifecycleTypeOK, RequestsOnTrack, Busy
<1>4. RunTypeOK
  BY DEF Init, RunInit, NoRuns, RunTypeOK, Stages
<1> QED BY <1>2, <1>3, <1>4, MaxFaultsAssumption DEF Init, ServiceTypeOK, Phases

\* Documents, jobs, requests, runs and the process keep their types, and each
\* request in flight stands at a step of its own operation, in a process that
\* serves: no step of one operation is ever taken for another's.
THEOREM TypeCorrect == Spec => [](ServiceTypeOK /\ RequestsOnTrack)
<1>1. ServiceTypeOK /\ RequestsOnTrack /\ [Next]_vars => (ServiceTypeOK /\ RequestsOnTrack)'
  <2> SUFFICES ASSUME ServiceTypeOK, RequestsOnTrack, UNCHANGED vars
               PROVE  (ServiceTypeOK /\ RequestsOnTrack)'
    BY NextTypes
  <2> QED BY DEF vars, storeVars, lifecycleVars, runVars, processVars, historyVars, ServiceTypeOK,
             StoreTypeOK, LifecycleTypeOK, RunTypeOK, RequestsOnTrack, Busy, Rearms,
             EditedStatus, Resuming, TriggerChanged
<1> QED BY <1>1, InitTypes, PTL DEF Spec

-----------------------------------------------------------------------------
(* Only an active schedule is armed. *)

LEMMA CleanStays ==
    ASSUME HistoryKept, NEW s \in Schedules
    PROVE  /\ "raced" \notin mishaps'[s] => "raced" \notin mishaps[s]
           /\ ~Misarmed(s)' => ~Misarmed(s)
BY DEF HistoryKept, Misarmed

\* Without a race, a request that changes a schedule is its only editor.
LEMMA Alone ==
    ASSUME CrowdsAreRaced, NEW r \in Clients, NEW s \in Schedules, On(r, s),
           req[r].call.op # "run", "raced" \notin mishaps[s]
    PROVE  /\ \A q \in Clients \ {r} : On(q, s) => req[q].call.op = "run"
           /\ \A k \in JobKinds : run[s][k] \notin {"check", "disarm"}
           /\ s \notin listed
<1>1. ~Crowded(s)
  BY DEF CrowdsAreRaced
<1>2. <<"request", r>> \in Editors(s)
  BY DEF Editors
<1>3. \A a \in Editors(s) : a = <<"request", r>>
  BY <1>1, <1>2 DEF Crowded
<1>4. ASSUME NEW q \in Clients \ {r}, On(q, s) PROVE req[q].call.op = "run"
  <2>1. req[q].call.op # "run" => <<"request", q>> \in Editors(s)
    BY <1>4 DEF Editors
  <2> QED BY <1>3, <2>1
<1>5. ASSUME NEW k \in JobKinds PROVE run[s][k] \notin {"check", "disarm"}
  <2>1. run[s][k] \in {"check", "disarm"} => <<"run", k>> \in Editors(s)
    BY DEF Editors
  <2> QED BY <1>3, <2>1
<1>6. s \notin listed
  <2>1. s \in listed => <<"resync", s>> \in Editors(s)
    BY DEF Editors
  <2> QED BY <1>3, <2>1
<1> QED BY <1>4, <1>5, <1>6

\* A run at its check or its disarm is the only editor as well.
LEMMA RunAlone ==
    ASSUME CrowdsAreRaced, NEW s \in Schedules, NEW k \in JobKinds,
           run[s][k] \in {"check", "disarm"}, "raced" \notin mishaps[s]
    PROVE  /\ \A q \in Clients : On(q, s) => req[q].call.op = "run"
           /\ s \notin listed
<1>1. ~Crowded(s)
  BY DEF CrowdsAreRaced
<1>2. <<"run", k>> \in Editors(s)
  BY DEF Editors
<1>3. \A a \in Editors(s) : a = <<"run", k>>
  BY <1>1, <1>2 DEF Crowded
<1>4. ASSUME NEW q \in Clients, On(q, s) PROVE req[q].call.op = "run"
  <2>1. req[q].call.op # "run" => <<"request", q>> \in Editors(s)
    BY <1>4 DEF Editors
  <2> QED BY <1>3, <2>1
<1>5. s \notin listed
  <2>1. s \in listed => <<"resync", s>> \in Editors(s)
    BY DEF Editors
  <2> QED BY <1>3, <2>1
<1> QED BY <1>4, <1>5

\* A run-now request relies on nothing the other conjuncts speak of.
LEMMA RunNowReliesOnNothing ==
    ASSUME LifecycleTypeOK, RequestsOnTrack, NEW r \in Clients, Busy(r), req[r].call.op = "run"
    PROVE  ~Relies(r) /\ ~Unarmed(r) /\ req[r].at \notin {"armNew", "arm"}
BY RequestFields DEF RequestsOnTrack, StepsOf, Ops, Relies, Unarmed

\* What has to be shown of the schedule s and the client q of a request's step;
\* the rest of the invariant is untouched by it.
LocalReads(q, s) ==
    Busy(q) /\ "raced" \notin mishaps[s] =>
        /\ Relies(q) => doc[s].status = req[q].seen.status
        /\ req[q].at \in {"armNew", "arm"} => Active(s)

LocalJob(q, s) == Busy(q) /\ ~Misarmed(s) /\ Unarmed(q) => ~Armed(s)

LocalArmed(s) ==
    Armed(s) /\ ~Active(s) => Misarmed(s) \/ \E k \in JobKinds : run[s][k] = "disarm"

LEMMA RequestStepLocal ==
    ASSUME ServiceInv, ServiceTypeOK', RequestsOnTrack', HistoryKept,
           NEW q \in Clients, NEW s \in Schedules,
           phase = "up", UNCHANGED <<phase, listed, run>>,
           \A r \in Clients \ {q} : req'[r] = req[r],
           Busy(q)' => req'[q].id = s,
           \A x \in Schedules \ {s} : doc'[x] = doc[x] /\ job'[x] = job[x],
           \/ doc'[s] = doc[s] /\ job'[s] = job[s]
           \/ On(q, s) /\ req[q].call.op # "run",
           LocalReads(q, s)', LocalJob(q, s)', LocalArmed(s)'
    PROVE  ServiceInv'
<1> USE DEF ServiceInv
<1>0. LifecycleTypeOK /\ LifecycleTypeOK'
  BY DEF ServiceTypeOK
<1>1. CrowdsAreRaced'
  BY DEF HistoryKept, CrowdsAreRaced
<1>2. ListedWhileResyncing' /\ ListedAreActive'
  BY DEF ListedWhileResyncing, ListedAreActive
<1>3. OnlyActiveArmed'
  <2>1. \A x \in Schedules \ {s} : LocalArmed(x)'
    BY CleanStays DEF OnlyActiveArmed, LocalArmed, Armed, Active
  <2> QED BY <2>1 DEF OnlyActiveArmed, LocalArmed
<1>4. ASSUME NEW r \in Clients, Busy(r)'
      PROVE  LocalReads(r, req[r].id)' /\ LocalJob(r, req[r].id)'
  <2> DEFINE x == req'[r].id
  <2>1. CASE r = q
    BY <1>4, <2>1 DEF LocalReads, LocalJob
  <2>2. CASE r # q
    <3>1. Busy(r) /\ req'[r] = req[r] /\ x = req[r].id /\ x \in Schedules
      BY <1>0, <1>4, <2>2, RequestFields DEF Busy
    <3>2. Relies(r)' = Relies(r) /\ Unarmed(r)' = Unarmed(r)
      BY <3>1 DEF Relies, Unarmed, EditedStatus, Resuming
    <3>3. CASE doc'[x] = doc[x] /\ job'[x] = job[x]
      <4>1. LocalReads(r, req[r].id)'
        BY <3>1, <3>2, <3>3, CleanStays DEF ReadsStand, LocalReads, Active
      <4>2. LocalJob(r, req[r].id)'
        BY <3>1, <3>2, <3>3, CleanStays DEF NoJobBehind, LocalJob, Armed
      <4> QED BY <4>1, <4>2
    <3>4. CASE ~(doc'[x] = doc[x] /\ job'[x] = job[x])
      <4>1. x = s /\ On(q, s) /\ req[q].call.op # "run"
        BY <3>1, <3>4
      <4>2. req[r].call.op = "run" \/ "raced" \in mishaps[s]
        BY <2>2, <3>1, <4>1, Alone DEF On
      <4>3. "raced" \in mishaps[s] => "raced" \in mishaps'[s]
        BY CleanStays
      <4>4. CASE "raced" \in mishaps'[x]
        BY <4>4 DEF LocalReads, LocalJob, Misarmed
      <4>5. CASE req[r].call.op = "run"
        BY <1>0, <3>1, <3>2, <4>5, RunNowReliesOnNothing DEF LocalReads, LocalJob
      <4> QED BY <4>1, <4>2, <4>3, <4>4, <4>5
    <3> QED BY <3>3, <3>4
  <2> QED BY <2>1, <2>2
<1>5. ReadsStand'
  BY <1>4 DEF ReadsStand, LocalReads
<1>6. NoJobBehind'
  BY <1>4 DEF NoJobBehind, LocalJob
<1> QED BY <1>1, <1>2, <1>3, <1>5, <1>6

LEMMA AfterGoto ==
    ASSUME LifecycleTypeOK, NEW q \in Clients, Busy(q), NEW step, Goto(q, step)
    PROVE  /\ \A r \in Clients \ {q} : req'[r] = req[r]
           /\ req'[q].at = step
           /\ req'[q].id = req[q].id
           /\ req'[q].call = req[q].call
           /\ req'[q].seen = req[q].seen
           /\ EditedStatus(q)' = EditedStatus(q)
           /\ Resuming(q)' = Resuming(q)
<1>1. req[q] \in Requests /\ req'[q] = [req[q] EXCEPT !.at = step]
  BY RequestFields DEF LifecycleTypeOK, Goto
<1>2. /\ req'[q].at = step
      /\ req'[q].id = req[q].id
      /\ req'[q].call = req[q].call
      /\ req'[q].seen = req[q].seen
  BY <1>1 DEF Requests
<1> QED BY <1>2 DEF LifecycleTypeOK, Goto, EditedStatus, Resuming

LEMMA AfterReturn ==
    ASSUME LifecycleTypeOK, NEW q \in Clients, Return(q)
    PROVE  (\A r \in Clients \ {q} : req'[r] = req[r]) /\ ~Busy(q)'
BY DEF LifecycleTypeOK, Return, Busy

\* What a request may count on before its step.
LEMMA BeforeStep ==
    ASSUME ServiceInv, NEW q \in Clients, Busy(q), NEW s, req[q].id = s
    PROVE  /\ s \in Schedules /\ phase = "up" /\ LifecycleTypeOK /\ On(q, s)
           /\ doc \in [Schedules -> Docs] /\ job \in [Schedules -> Jobs]
           /\ LocalReads(q, s) /\ LocalJob(q, s) /\ LocalArmed(s)
           /\ req[q].call.op # "run" /\ ~Misarmed(s) /\ Armed(s) => Active(s)
<1>1. s \in Schedules /\ phase = "up" /\ LifecycleTypeOK /\ On(q, s)
  BY RequestFields DEF ServiceInv, ServiceTypeOK, RequestsOnTrack, On
<1>2. LocalReads(q, s) /\ LocalJob(q, s)
  BY DEF ServiceInv, ReadsStand, NoJobBehind, LocalReads, LocalJob
<1>3. LocalArmed(s)
  BY <1>1 DEF ServiceInv, OnlyActiveArmed, LocalArmed
<1>4. ASSUME req[q].call.op # "run", ~Misarmed(s), Armed(s) PROVE Active(s)
  <2>1. "raced" \notin mishaps[s]
    BY <1>4 DEF Misarmed
  <2>2. \A k \in JobKinds : run[s][k] # "disarm"
    BY <1>1, <1>4, <2>1, Alone DEF ServiceInv
  <2> QED BY <1>3, <1>4, <2>2 DEF LocalArmed
<1> QED BY <1>1, <1>2, <1>3, <1>4 DEF ServiceInv, ServiceTypeOK, StoreTypeOK

\* A step that returns, or goes on, without touching document or job.
LEMMA IdleStep ==
    ASSUME ServiceInv, ServiceTypeOK', RequestsOnTrack', HistoryKept,
           NEW q \in Clients, Busy(q), NEW s, req[q].id = s,
           UNCHANGED <<phase, listed, run, doc, job>>,
           \/ Return(q)
           \/ \E step : Goto(q, step) /\ LocalReads(q, s)' /\ LocalJob(q, s)'
    PROVE  ServiceInv'
<1>1. s \in Schedules /\ phase = "up" /\ LifecycleTypeOK /\ LocalArmed(s)
  BY BeforeStep
<1>2. LocalArmed(s)'
  BY <1>1, CleanStays DEF LocalArmed, Armed, Active
<1>3. CASE Return(q)
  <2>1. LocalReads(q, s)' /\ LocalJob(q, s)'
    BY <1>1, <1>3, AfterReturn DEF LocalReads, LocalJob
  <2> QED BY <1>1, <1>2, <1>3, <2>1, AfterReturn, RequestStepLocal
<1>4. CASE \E step : Goto(q, step) /\ LocalReads(q, s)' /\ LocalJob(q, s)'
  <2> PICK step : Goto(q, step) /\ LocalReads(q, s)' /\ LocalJob(q, s)'
    BY <1>4
  <2>1. (\A r \in Clients \ {q} : req'[r] = req[r]) /\ req'[q].id = s
    BY <1>1, AfterGoto
  <2> QED BY <1>1, <1>2, <2>1, RequestStepLocal
<1> QED BY <1>3, <1>4

\* The steps of a request that leave document and job alone.
LEMMA QuietRequestSteps ==
    ASSUME ServiceInv, ServiceTypeOK', RequestsOnTrack', HistoryKept, NEW q \in Clients,
           NEW s, req[q].id = s, UNCHANGED <<phase, listed, run>>,
           \/ CreateAccepted(q) \/ NothingToDo(q) \/ SaveOnly(q) \/ SaveThenArm(q)
           \/ Refused(q) \/ QueueRunNow(q) \/ WriteMissed(q) \/ StepFails(q)
    PROVE  ServiceInv'
<1>0. Busy(q)
  BY DEF CreateAccepted, NothingToDo, SaveOnly, SaveThenArm, Refused, QueueRunNow, WriteMissed,
     StepFails, Reaches, At
<1>a. /\ s \in Schedules /\ LifecycleTypeOK /\ req[q].call.op \in Ops
      /\ LocalReads(q, s) /\ LocalJob(q, s)
      /\ req[q].call.op # "run" /\ ~Misarmed(s) /\ Armed(s) => Active(s)
      /\ req[q].at \in StepsOf(req[q].call.op)
      /\ req[q].call.op # "create" => req[q].seen.status \in {"active", "paused"}
      /\ req[q].at \in {"arm", "revert"} => Rearms(q)
  BY <1>0, BeforeStep, RequestFields DEF ServiceInv, RequestsOnTrack
<1>b. UNCHANGED <<doc, job>>
  BY DEF CreateAccepted, NothingToDo, SaveOnly, SaveThenArm, Refused, QueueRunNow, WriteMissed,
     StepFails, storeVars
<1>c. ASSUME NEW step, Goto(q, step)
      PROVE  /\ req'[q].at = step /\ req'[q].call = req[q].call /\ req'[q].seen = req[q].seen
             /\ EditedStatus(q)' = EditedStatus(q) /\ Resuming(q)' = Resuming(q)
  BY <1>0, <1>a, <1>c, AfterGoto
<1>d. /\ "raced" \notin mishaps'[s] => "raced" \notin mishaps[s]
      /\ ~Misarmed(s)' => ~Misarmed(s)
      /\ ~Misarmed(s) => "raced" \notin mishaps[s]
  BY <1>a, CleanStays DEF Misarmed
<1> SUFFICES ASSUME ~Return(q)
             PROVE  \E step : Goto(q, step) /\ LocalReads(q, s)' /\ LocalJob(q, s)'
  BY <1>0, <1>b, IdleStep
<1>1. CASE CreateAccepted(q)
  <2>1. Goto(q, "insert") /\ req[q].call.op = "create"
    BY <1>1 DEF CreateAccepted
  <2>2. LocalReads(q, s)' /\ LocalJob(q, s)'
    BY <1>0, <1>a, <1>b, <1>c, <1>d, <2>1 DEF LocalReads, LocalJob, Relies, Unarmed, Armed
  <2> QED BY <2>1, <2>2
<1>2. CASE SaveOnly(q)
  <2>1. /\ Goto(q, "write") /\ req[q].at = "decide" /\ EditedStatus(q) = "active"
        /\ req[q].call.op \in {"patch", "pause", "resume"} /\ ~Resuming(q)
    BY <1>2 DEF SaveOnly, Reaches, At, Rearms
  <2>2. LocalReads(q, s)'
    BY <1>0, <1>a, <1>b, <1>c, <1>d, <2>1 DEF LocalReads, Relies
  <2>3. LocalJob(q, s)'
    BY <1>c, <2>1 DEF LocalJob, Unarmed
  <2> QED BY <2>1, <2>2, <2>3
<1>3. CASE SaveThenArm(q)
  <2>1. /\ Goto(q, "write") /\ req[q].at = "decide" /\ EditedStatus(q) = "active"
        /\ req[q].call.op \in {"patch", "pause", "resume"}
    BY <1>3 DEF SaveThenArm, Reaches, At, Rearms
  <2>2. LocalReads(q, s)'
    BY <1>0, <1>a, <1>b, <1>c, <1>d, <2>1 DEF LocalReads, Relies
  <2>3. Resuming(q) /\ ~Misarmed(s) => ~Armed(s)
    <3>1. "raced" \notin mishaps[s] => doc[s].status = req[q].seen.status
      BY <1>0, <1>a, <2>1 DEF LocalReads, Relies
    <3> QED BY <1>a, <1>d, <2>1, <3>1 DEF Resuming, Active
  <2>4. LocalJob(q, s)'
    BY <1>b, <1>c, <1>d, <2>1, <2>3 DEF LocalJob, Unarmed, Armed
  <2> QED BY <2>1, <2>2, <2>4
<1>4. CASE WriteMissed(q)
  <2>1. Goto(q, "arm") /\ req[q].at = "write" /\ ~Exists(s)
    BY <1>4 DEF WriteMissed, At
  <2>2. req[q].call.op \in {"patch", "pause", "resume"}
    BY <1>a, <2>1 DEF StepsOf, Ops
  <2>3. "raced" \in mishaps[s]
    BY <1>0, <1>a, <2>1, <2>2 DEF LocalReads, Relies, Exists
  <2> QED BY <1>d, <2>1, <2>3 DEF LocalReads, LocalJob
<1>5. CASE StepFails(q)
  <2>1. CASE At(q, "armNew")
    <3>1. Goto(q, "uncreate") /\ req[q].call.op = "create"
      BY <1>5, <1>a, <2>1 DEF StepFails, At, StepsOf, Ops
    <3>2. LocalReads(q, s)' /\ LocalJob(q, s)'
      BY <1>0, <1>a, <1>b, <1>c, <1>d, <3>1 DEF LocalReads, LocalJob, Relies, Unarmed, Armed
    <3> QED BY <3>1, <3>2
  <2>2. CASE At(q, "arm")
    <3>1. Goto(q, "revert") /\ req[q].at = "arm"
      BY <1>5, <2>2 DEF StepFails, At
    <3>2. req[q].call.op \in {"patch", "pause", "resume"}
      BY <1>a, <3>1 DEF StepsOf, Ops
    <3>3. LocalReads(q, s)'
      BY <1>c, <3>1 DEF LocalReads, Relies
    <3>4. LocalJob(q, s)'
      BY <1>0, <1>a, <1>b, <1>c, <1>d, <3>1, <3>2 DEF LocalJob, Unarmed, Armed
    <3> QED BY <3>1, <3>3, <3>4
  <2> QED BY <1>5, <2>1, <2>2 DEF StepFails
<1> QED BY <1>1, <1>2, <1>3, <1>4, <1>5 DEF NothingToDo, Refused, QueueRunNow

\* The steps that write the document or the job.
LEMMA BusyRequestSteps ==
    ASSUME ServiceInv, ServiceTypeOK', RequestsOnTrack', HistoryKept, NEW q \in Clients,
           NEW s, req[q].id = s, UNCHANGED <<phase, listed, run>>,
           \/ Insert(q) \/ ArmNew(q) \/ Uncreate(q) \/ DisarmThenSave(q) \/ Write(q)
           \/ ArmEdited(q) \/ Revert(q) \/ DisarmThenDelete(q) \/ Remove(q)
           \/ WriteReplyLost(q) \/ DisarmReplyLost(q)
    PROVE  ServiceInv'
<1>0. Busy(q)
  BY DEF Insert, ArmNew, Uncreate, DisarmThenSave, Write, ArmEdited, Revert, DisarmThenDelete,
     Remove, WriteReplyLost, DisarmReplyLost, Disarms, Reaches, At
<1>a. /\ s \in Schedules /\ LifecycleTypeOK /\ phase = "up" /\ On(q, s)
      /\ doc \in [Schedules -> Docs] /\ job \in [Schedules -> Jobs]
      /\ LocalReads(q, s) /\ LocalJob(q, s) /\ req[q].call.op \in Ops
      /\ req[q].call.op # "run" /\ ~Misarmed(s) /\ Armed(s) => Active(s)
      /\ req[q].at \in StepsOf(req[q].call.op)
      /\ req[q].call.op # "create" => req[q].seen.status \in {"active", "paused"}
      /\ req[q].at \in {"arm", "revert"} => Rearms(q)
      /\ req[q].call.status \in {"keep", "active", "paused"}
  BY <1>0, BeforeStep, RequestFields DEF ServiceInv, RequestsOnTrack
<1>b. ASSUME NEW step, Goto(q, step)
      PROVE  /\ \A r \in Clients \ {q} : req'[r] = req[r]
             /\ req'[q].id = s /\ req'[q].at = step
             /\ req'[q].call = req[q].call /\ req'[q].seen = req[q].seen
             /\ EditedStatus(q)' = EditedStatus(q) /\ Resuming(q)' = Resuming(q)
  BY <1>0, <1>a, <1>b, AfterGoto
<1>c. ASSUME Return(q)
      PROVE  /\ \A r \in Clients \ {q} : req'[r] = req[r]
             /\ ~Busy(q)' /\ LocalReads(q, s)' /\ LocalJob(q, s)'
  BY <1>a, <1>c, AfterReturn DEF LocalReads, LocalJob
<1>d. /\ "raced" \notin mishaps'[s] => "raced" \notin mishaps[s]
      /\ ~Misarmed(s)' => ~Misarmed(s)
      /\ ~Misarmed(s) => "raced" \notin mishaps[s]
  BY <1>a, CleanStays DEF Misarmed
<1>e. /\ req[q].at = "insert" => req[q].call.op = "create"
      /\ req[q].at = "armNew" => req[q].call.op = "create"
      /\ req[q].at = "uncreate" => req[q].call.op = "create"
      /\ req[q].at \in {"write", "arm", "revert"} => req[q].call.op \in {"patch", "pause", "resume"}
      /\ req[q].at = "remove" => req[q].call.op = "delete"
  BY <1>a DEF StepsOf, Ops
<1>1. CASE Insert(q)
  <2>1. req[q].at = "insert" /\ Goto(q, "armNew") /\ job' = job
    BY <1>1 DEF Insert, At
  <2>2. /\ \A x \in Schedules \ {s} : doc'[x] = doc[x]
        /\ Active(s)'
    BY <1>1, <1>a DEF Insert, Inserted, Active
  <2>3. LocalReads(q, s)' /\ LocalJob(q, s)' /\ LocalArmed(s)'
    BY <1>0, <1>a, <1>b, <1>d, <1>e, <2>1, <2>2
       DEF LocalReads, LocalJob, LocalArmed, Relies, Unarmed, Armed
  <2> QED BY <1>a, <1>b, <1>e, <2>1, <2>2, <2>3, RequestStepLocal
<1>2. CASE ArmNew(q)
  <2>1. req[q].at = "armNew" /\ Return(q) /\ doc' = doc
    BY <1>2 DEF ArmNew, At
  <2>2. \A x \in Schedules \ {s} : job'[x] = job[x]
    BY <1>2, <1>a DEF ArmNew, Arm
  <2>3. LocalArmed(s)'
    BY <1>0, <1>a, <1>d, <2>1 DEF LocalArmed, LocalReads, Active
  <2> QED BY <1>a, <1>c, <1>e, <2>1, <2>2, <2>3, RequestStepLocal
<1>3. CASE Uncreate(q)
  <2>1. req[q].at = "uncreate" /\ Return(q) /\ job' = job
    BY <1>3 DEF Uncreate, At
  <2>2. \A x \in Schedules \ {s} : doc'[x] = doc[x]
    BY <1>3, <1>a DEF Uncreate
  <2>3. LocalArmed(s)'
    BY <1>0, <1>a, <1>d, <1>e, <2>1 DEF LocalArmed, LocalJob, Unarmed, Armed
  <2> QED BY <1>a, <1>c, <1>e, <2>1, <2>2, <2>3, RequestStepLocal
<1>4. CASE DisarmThenSave(q)
  <2>1. /\ req[q].at = "decide" /\ Goto(q, "write") /\ doc' = doc
        /\ req[q].call.op \in {"patch", "pause", "resume"}
    BY <1>4 DEF DisarmThenSave, Reaches, At
  <2>2. /\ \A x \in Schedules \ {s} : job'[x] = job[x]
        /\ ~Armed(s)'
    BY <1>4, <1>a DEF DisarmThenSave, Disarm, Armed
  <2>3. LocalReads(q, s)' /\ LocalJob(q, s)' /\ LocalArmed(s)'
    BY <1>0, <1>a, <1>b, <1>d, <2>1, <2>2 DEF LocalReads, LocalJob, LocalArmed, Relies
  <2> QED BY <1>a, <1>b, <2>1, <2>2, <2>3, RequestStepLocal
<1>5. CASE DisarmThenDelete(q)
  <2>1. /\ req[q].at = "decide" /\ Goto(q, "remove") /\ doc' = doc
        /\ req[q].call.op = "delete"
    BY <1>5 DEF DisarmThenDelete, At
  <2>2. /\ \A x \in Schedules \ {s} : job'[x] = job[x]
        /\ ~Armed(s)'
    BY <1>5, <1>a DEF DisarmThenDelete, Disarm, Armed
  <2>3. LocalReads(q, s)' /\ LocalJob(q, s)' /\ LocalArmed(s)'
    BY <1>0, <1>a, <1>b, <1>d, <2>1, <2>2 DEF LocalReads, LocalJob, LocalArmed, Relies
  <2> QED BY <1>a, <1>b, <2>1, <2>2, <2>3, RequestStepLocal
<1>6. CASE Remove(q)
  <2>1. req[q].at = "remove" /\ Return(q) /\ job' = job
    BY <1>6 DEF Remove, At
  <2>2. \A x \in Schedules \ {s} : doc'[x] = doc[x]
    BY <1>6, <1>a DEF Remove
  <2>3. LocalArmed(s)'
    BY <1>0, <1>a, <1>d, <2>1 DEF LocalArmed, LocalJob, Unarmed, Armed
  <2> QED BY <1>a, <1>c, <1>e, <2>1, <2>2, <2>3, RequestStepLocal
<1>7. CASE ArmEdited(q)
  <2>1. req[q].at = "arm" /\ Return(q) /\ doc' = doc
    BY <1>7 DEF ArmEdited, At
  <2>2. \A x \in Schedules \ {s} : job'[x] = job[x]
    BY <1>7, <1>a DEF ArmEdited, Arm
  <2>3. LocalArmed(s)'
    BY <1>0, <1>a, <1>d, <2>1 DEF LocalArmed, LocalReads, Active
  <2> QED BY <1>a, <1>c, <1>e, <2>1, <2>2, <2>3, RequestStepLocal
<1>8. CASE Revert(q)
  <2>1. req[q].at = "revert" /\ Return(q) /\ job' = job /\ Rearms(q)
    BY <1>8, <1>a DEF Revert, At
  <2>2. \A x \in Schedules \ {s} : doc'[x] = doc[x]
    BY <1>8, <1>a DEF Revert
  <2>3. \/ doc'[s].status = doc[s].status
        \/ req[q].call.status = "active" /\ doc'[s].status = req[q].seen.status
    BY <1>8, <1>a, <2>1 DEF Revert, SetFields, Rearms, EditedStatus
  <2>4. LocalArmed(s)'
    <3>1. CASE doc'[s].status = doc[s].status
      BY <1>0, <1>a, <1>d, <1>e, <2>1, <3>1 DEF LocalArmed, Armed, Active
    <3>2. CASE req[q].call.status = "active" /\ doc'[s].status = req[q].seen.status
      BY <1>0, <1>a, <1>d, <1>e, <2>1, <3>2
         DEF LocalArmed, LocalJob, Unarmed, Resuming, Armed, Active
    <3> QED BY <2>3, <3>1, <3>2
  <2> QED BY <1>a, <1>c, <1>e, <2>1, <2>2, <2>4, RequestStepLocal
<1>f. ASSUME req[q].at = "write", doc' = Saved(q), job' = job
      PROVE  /\ \A x \in Schedules \ {s} : doc'[x] = doc[x]
             /\ doc'[s].status = IF req[q].call.status = "keep" THEN doc[s].status
                                                            ELSE req[q].call.status
             /\ LocalArmed(s)'
             /\ "raced" \notin mishaps[s] /\ Rearms(q) => Active(s)'
  <2>1. /\ \A x \in Schedules \ {s} : doc'[x] = doc[x]
        /\ doc'[s].status = IF req[q].call.status = "keep" THEN doc[s].status
                                                       ELSE req[q].call.status
    BY <1>a, <1>f DEF Saved, SetFields
  <2>2. LocalArmed(s)'
    BY <1>0, <1>a, <1>d, <1>e, <1>f, <2>1
       DEF LocalArmed, LocalJob, Unarmed, EditedStatus, Armed, Active
  <2>3. "raced" \notin mishaps[s] /\ Rearms(q) => Active(s)'
    BY <1>0, <1>a, <1>e, <1>f, <2>1 DEF LocalReads, Relies, Rearms, EditedStatus, Active
  <2> QED BY <2>1, <2>2, <2>3
<1>9. CASE Write(q)
  <2>1. req[q].at = "write" /\ doc' = Saved(q) /\ job' = job
    BY <1>9 DEF Write, At
  <2>2. CASE Return(q)
    BY <1>a, <1>c, <1>e, <1>f, <2>1, <2>2, RequestStepLocal
  <2>3. CASE Goto(q, "arm") /\ Rearms(q)
    <3>1. LocalReads(q, s)'
      BY <1>b, <1>d, <1>f, <2>1, <2>3 DEF LocalReads, Relies
    <3>2. LocalJob(q, s)'
      BY <1>0, <1>a, <1>b, <1>d, <1>e, <2>1, <2>3 DEF LocalJob, Unarmed, Armed
    <3> QED BY <1>a, <1>b, <1>e, <1>f, <2>1, <2>3, <3>1, <3>2, RequestStepLocal
  <2> QED BY <1>9, <2>2, <2>3 DEF Write
<1>10. CASE WriteReplyLost(q)
  <2>1. Return(q) /\ job' = job
    BY <1>10 DEF WriteReplyLost
  <2>2. CASE req[q].at = "write" /\ doc' = Saved(q)
    BY <1>a, <1>c, <1>e, <1>f, <2>1, <2>2, RequestStepLocal
  <2>3. CASE req[q].at = "insert" /\ doc' = Inserted(q)
    <3>1. /\ \A x \in Schedules \ {s} : doc'[x] = doc[x]
          /\ LocalArmed(s)'
      BY <1>a, <2>3 DEF Inserted, Active, LocalArmed
    <3> QED BY <1>a, <1>c, <1>e, <2>1, <2>3, <3>1, RequestStepLocal
  <2> QED BY <1>10, <2>2, <2>3 DEF WriteReplyLost, At
<1>11. CASE DisarmReplyLost(q)
  <2>1. req[q].at = "decide" /\ Return(q) /\ doc' = doc /\ req[q].call.op # "run"
    BY <1>11 DEF DisarmReplyLost, Disarms, Reaches, At
  <2>2. (\A x \in Schedules \ {s} : job'[x] = job[x]) /\ ~Armed(s)'
    BY <1>11, <1>a DEF DisarmReplyLost, Disarm, Armed
  <2> QED BY <1>a, <1>c, <2>1, <2>2, RequestStepLocal DEF LocalArmed
<1> QED BY <1>1, <1>2, <1>3, <1>4, <1>5, <1>6, <1>7, <1>8, <1>9, <1>10, <1>11

\* A job added by a call that then raised has left its trace in the history.
LEMMA ArmReplyLostKeepsInv ==
    ASSUME ServiceInv, ServiceTypeOK', RequestsOnTrack', HistoryKept, NEW q \in Clients,
           NEW s, req[q].id = s, UNCHANGED <<phase, listed, run>>,
           ArmReplyLost(q), "misarmed" \in mishaps'[s]
    PROVE  ServiceInv'
<1>1. /\ \E step \in {"uncreate", "revert"} : Goto(q, step)
      /\ Busy(q) /\ req[q].at \in {"armNew", "arm"} /\ doc' = doc
  BY DEF ArmReplyLost, At
<1>2. s \in Schedules /\ phase = "up" /\ On(q, s) /\ LifecycleTypeOK /\ job \in [Schedules -> Jobs]
  BY <1>1, BeforeStep
<1>3. req[q].call.op # "run"
  BY <1>1, <1>2, RunNowReliesOnNothing DEF ServiceInv
<1>4. /\ \A r \in Clients \ {q} : req'[r] = req[r]
      /\ req'[q].id = s /\ req'[q].at \in {"uncreate", "revert"}
  BY <1>1, <1>2, AfterGoto
<1>5. \A x \in Schedules \ {s} : job'[x] = job[x]
  BY <1>2 DEF ArmReplyLost, Arm
<1>6. LocalReads(q, s)' /\ LocalJob(q, s)' /\ LocalArmed(s)'
  BY <1>4 DEF LocalReads, Relies, LocalJob, LocalArmed, Misarmed
<1> QED BY <1>1, <1>2, <1>3, <1>4, <1>5, <1>6, RequestStepLocal

\* A new request has read the document as it is.
LEMMA CallKeepsInv ==
    ASSUME ServiceInv, ServiceTypeOK', RequestsOnTrack', HistoryKept, NEW q \in Clients, Call(q)
    PROVE  ServiceInv'
<1> PICK s \in Schedules, c \in Calls : Lookup(q, s, c) \/ LookupName(q, s, c)
  BY DEF Call
<1>1. phase = "up" /\ UNCHANGED <<doc, job, phase, listed, run>> /\ LifecycleTypeOK
  BY DEF Call, Lookup, LookupName, storeVars, runVars, processVars, ServiceInv, ServiceTypeOK
<1>2. /\ req' = [req EXCEPT ![q] = [at |-> "decide", call |-> c, id |-> s, seen |-> doc[s]]]
      /\ c.op = "create" => doc[s].status = "absent"
  BY DEF Lookup, LookupName
<1>3. /\ \A r \in Clients \ {q} : req'[r] = req[r]
      /\ req'[q] = [at |-> "decide", call |-> c, id |-> s, seen |-> doc[s]]
  BY <1>1, <1>2 DEF LifecycleTypeOK
<1>4. LocalReads(q, s)'
  BY <1>1, <1>3 DEF LocalReads, Relies
<1>5. LocalArmed(s)'
  BY <1>1, CleanStays DEF ServiceInv, OnlyActiveArmed, LocalArmed, Armed, Active
<1>6. LocalJob(q, s)'
  <2> SUFFICES ASSUME Busy(q)', ~Misarmed(s)', Unarmed(q)', Armed(s)' PROVE FALSE
    BY DEF LocalJob
  <2>1. c.op = "create"
    BY <1>3 DEF Unarmed
  <2>2. PICK k \in JobKinds : run'[s][k] = "disarm"
    BY <1>1, <1>2, <1>5, <2>1 DEF LocalArmed, Active
  <2>3. CrowdsAreRaced' /\ "raced" \notin mishaps'[s] /\ On(q, s)'
    BY <1>3 DEF HistoryKept, CrowdsAreRaced, Misarmed, On
  <2>4. <<"request", q>> \in Editors(s)' /\ <<"run", k>> \in Editors(s)'
    BY <1>3, <2>1, <2>2, <2>3 DEF Editors
  <2> QED BY <2>3, <2>4 DEF CrowdsAreRaced, Crowded
<1> QED BY <1>1, <1>3, <1>4, <1>5, <1>6, RequestStepLocal

\* Steps that touch no request, no status and arm nothing.
LEMMA CalmStep ==
    ASSUME ServiceInv, ServiceTypeOK', RequestsOnTrack', HistoryKept, UNCHANGED req,
           \A s \in Schedules :
               /\ doc'[s].status = doc[s].status
               /\ Armed(s)' => Armed(s)
               /\ (\E k \in JobKinds : run[s][k] = "disarm") /\ Armed(s)' =>
                      \/ \E k \in JobKinds : run'[s][k] = "disarm"
                      \/ "misarmed" \in mishaps'[s],
           listed' # {} => phase' = "resync",
           \A s \in listed' : s \in listed \/ Active(s)
    PROVE  ServiceInv'
<1> USE DEF ServiceInv
<1>0. LifecycleTypeOK
  BY DEF ServiceTypeOK
<1>1. CrowdsAreRaced' /\ ListedWhileResyncing'
  BY DEF HistoryKept, CrowdsAreRaced, ListedWhileResyncing
<1>2. ListedAreActive'
  <2>1. listed' \subseteq Schedules
    BY DEF ServiceTypeOK
  <2> QED BY <2>1 DEF ListedAreActive, Active, HistoryKept
<1>3. OnlyActiveArmed'
  BY CleanStays DEF OnlyActiveArmed, Active, Misarmed
<1>4. ASSUME NEW r \in Clients, Busy(r)'
      PROVE  LocalReads(r, req[r].id)' /\ LocalJob(r, req[r].id)'
  <2>1. Busy(r) /\ req[r].id \in Schedules /\ req'[r] = req[r]
    BY <1>0, <1>4, RequestFields DEF Busy
  <2>2. Relies(r)' = Relies(r) /\ Unarmed(r)' = Unarmed(r)
    BY <2>1 DEF Relies, Unarmed, EditedStatus, Resuming
  <2>3. LocalReads(r, req[r].id)'
    BY <2>1, <2>2, CleanStays DEF ReadsStand, LocalReads, Active
  <2>4. LocalJob(r, req[r].id)'
    BY <2>1, <2>2, CleanStays DEF NoJobBehind, LocalJob
  <2> QED BY <2>3, <2>4
<1>5. ReadsStand' /\ NoJobBehind'
  BY <1>4 DEF ReadsStand, NoJobBehind, LocalReads, LocalJob
<1> QED BY <1>1, <1>2, <1>3, <1>5

LEMMA RunsKeepInv ==
    ASSUME ServiceInv, ServiceTypeOK', RequestsOnTrack', HistoryKept,
           NEW s \in Schedules, NEW k \in JobKinds,
           Execute(s, k) \/ RunFault(s, k) \/ RunReplyFault(s, k)
    PROVE  ServiceInv'
<1>0. /\ UNCHANGED <<req, phase, listed>>
      /\ doc \in [Schedules -> Docs] /\ job \in [Schedules -> Jobs] /\ RunTypeOK
      /\ listed # {} => phase = "resync"
  BY DEF Execute, RunFault, RunReplyFault, lifecycleVars, processVars, ServiceInv,
     ServiceTypeOK, StoreTypeOK, ListedWhileResyncing
<1>a. ASSUME NEW stage, Advance(s, k, stage), run[s][k] # "disarm"
      PROVE  \A x \in Schedules : (\E j \in JobKinds : run[x][j] = "disarm")
                                 => \E j \in JobKinds : run'[x][j] = "disarm"
  BY <1>0, <1>a DEF Advance, RunTypeOK
<1>1. CASE Load(s, k) \/ Answer(s, k) \/ LeaveAlone(s, k) \/ Report(s, k)
  <2>1. UNCHANGED <<doc, job>> /\ run[s][k] # "disarm" /\ \E stage : Advance(s, k, stage)
    BY <1>1 DEF Load, Answer, LeaveAlone, Report, storeVars
  <2> QED BY <1>0, <1>a, <2>1, CalmStep DEF Armed
<1>2. CASE RecordSuccess(s, k) \/ RecordFailure(s, k)
  <2>1. UNCHANGED job /\ run[s][k] # "disarm" /\ \E stage : Advance(s, k, stage)
    BY <1>2 DEF RecordSuccess, Cleared, RecordFailure, Counted
  <2>2. \A x \in Schedules : doc'[x].status = doc[x].status
    BY <1>0, <1>2 DEF RecordSuccess, Cleared, RecordFailure, Counted, Docs
  <2> QED BY <1>0, <1>a, <2>1, <2>2, CalmStep DEF Armed
<1>3. CASE DisarmFailing(s, k)
  <2>1. UNCHANGED doc /\ job' = [job EXCEPT ![s] = "none"]
    BY <1>3 DEF DisarmFailing, Disarm
  <2>2. run' = [run EXCEPT ![s][k] = "report"]
    BY <1>3 DEF DisarmFailing, Advance
  <2>3. \A x \in Schedules : x = s \/ run'[x] = run[x]
    BY <1>0, <2>2 DEF RunTypeOK
  <2>4. ~Armed(s)' /\ \A x \in Schedules : Armed(x)' => Armed(x)
    BY <1>0, <2>1 DEF Armed
  <2> QED BY <1>0, <2>1, <2>3, <2>4, CalmStep
<1>4. CASE RunFault(s, k)
  <2>1. UNCHANGED <<doc, job>> /\ run' = [run EXCEPT ![s][k] = "free"]
    BY <1>4 DEF RunFault, RunFails, Advance, storeVars
  <2>2. CASE run[s][k] # "disarm"
    BY <1>0, <1>a, <2>1, <2>2, CalmStep DEF Armed, Advance
  <2>3. CASE run[s][k] = "disarm"
    <3>1. RunLeaves(s, k) = {"misarmed"}
      BY <2>3 DEF RunLeaves
    <3>2. History(Only(s, {"misarmed"}), Nothing)
      BY <1>4, <3>1 DEF RunFault
    <3>3. mishaps \in Harms /\ {"misarmed"} \in SUBSET Mishaps
      BY DEF ServiceInv, ServiceTypeOK, Harms, Mishaps
    <3>4. "misarmed" \in mishaps'[s]
      BY <3>2, <3>3, OnlyType, NothingType, HistoryGrows
    <3>5. \A x \in Schedules : x = s \/ run'[x] = run[x]
      BY <1>0, <2>1 DEF RunTypeOK
    <3> QED BY <1>0, <2>1, <3>4, <3>5, CalmStep DEF Armed
  <2> QED BY <2>2, <2>3
<1>b. ASSUME run[s][k] = "check", UNCHANGED job, doc' = [doc EXCEPT ![s].status = "paused"],
             NEW stage, Advance(s, k, stage), stage = "disarm" \/ Misarmed(s)'
      PROVE  ServiceInv'
  <2>1. run[s][k] = "check" /\ UNCHANGED job
    BY <1>b
  <2>2. /\ \A x \in Schedules \ {s} : doc'[x] = doc[x]
        /\ \A x \in Schedules, j \in JobKinds : run[x][j] = "disarm" => run'[x][j] = "disarm"
        /\ run'[s][k] = "disarm" \/ Misarmed(s)'
    BY <1>0, <1>b DEF Advance, RunTypeOK
  <2>3. "raced" \in mishaps[s] \/ (/\ \A q \in Clients : On(q, s) => req[q].call.op = "run"
                                   /\ s \notin listed)
    BY <2>1, RunAlone DEF ServiceInv
  <2>4. CrowdsAreRaced' /\ ListedWhileResyncing'
    BY <1>0 DEF HistoryKept, CrowdsAreRaced, ListedWhileResyncing
  <2>5. ListedAreActive'
    <3>1. \A x \in listed : "raced" \in mishaps[x] \/ (x # s /\ Active(x))
      BY <2>3 DEF ServiceInv, ListedAreActive
    <3>2. listed \subseteq Schedules
      BY DEF ServiceInv, ServiceTypeOK
    <3> QED BY <1>0, <2>2, <3>1, <3>2, CleanStays DEF ListedAreActive, Active
  <2>6. OnlyActiveArmed'
    <3> SUFFICES ASSUME NEW x \in Schedules, Armed(x)', ~Active(x)', ~Misarmed(x)'
                 PROVE  \E j \in JobKinds : run'[x][j] = "disarm"
      BY DEF OnlyActiveArmed
    <3>1. CASE x = s
      BY <2>2, <3>1
    <3>2. CASE x # s
      BY <2>1, <2>2, <3>2, CleanStays DEF ServiceInv, OnlyActiveArmed, Armed, Active
    <3> QED BY <3>1, <3>2
  <2>7. ASSUME NEW r \in Clients, Busy(r)'
        PROVE  LocalReads(r, req[r].id)' /\ LocalJob(r, req[r].id)'
    <3>1. LifecycleTypeOK /\ RequestsOnTrack /\ Busy(r) /\ req[r].id \in Schedules /\ req' = req
      BY <1>0, <2>7, RequestFields DEF ServiceInv, ServiceTypeOK, Busy
    <3>2. Relies(r)' = Relies(r) /\ Unarmed(r)' = Unarmed(r)
      BY <3>1 DEF Relies, Unarmed, EditedStatus, Resuming
    <3>3. LocalJob(r, req[r].id)'
      BY <2>1, <3>1, <3>2, CleanStays DEF ServiceInv, NoJobBehind, LocalJob, Armed
    <3>4. CASE req[r].id # s
      BY <2>2, <3>1, <3>2, <3>3, <3>4, CleanStays DEF ServiceInv, ReadsStand, LocalReads, Active
    <3>5. CASE req[r].id = s
      <4>1. "raced" \in mishaps'[s] \/ req[r].call.op = "run"
        BY <2>3, <3>1, <3>5, CleanStays DEF On
      <4> QED BY <3>1, <3>2, <3>3, <3>5, <4>1, RunNowReliesOnNothing DEF LocalReads
    <3> QED BY <3>4, <3>5
  <2>8. ReadsStand' /\ NoJobBehind'
    BY <2>7 DEF ReadsStand, NoJobBehind, LocalReads, LocalJob
  <2> QED BY <2>4, <2>5, <2>6, <2>8 DEF ServiceInv
<1>5. CASE PauseFailing(s, k)
  BY <1>5, <1>b DEF PauseFailing
<1>6. CASE RunReplyFault(s, k)
  <2>1. RunReplyLost(s, k) /\ Advance(s, k, "free")
    BY <1>6 DEF RunReplyFault, RunReplyLost
  <2>2. CASE run[s][k] \in {"success", "failure"}
    <3>1. UNCHANGED job /\ \A x \in Schedules : doc'[x].status = doc[x].status
      BY <1>0, <2>1, <2>2 DEF RunReplyLost, Cleared, Counted, Docs
    <3> QED BY <1>0, <1>a, <2>1, <2>2, <3>1, CalmStep DEF Armed
  <2>3. CASE run[s][k] = "check"
    <3>1. History(Only(s, {"misarmed"}), Nothing)
      BY <1>6, <2>3 DEF RunReplyFault
    <3>2. mishaps \in Harms /\ {"misarmed"} \in SUBSET Mishaps
      BY DEF ServiceInv, ServiceTypeOK, Harms, Mishaps
    <3>3. Misarmed(s)'
      BY <3>1, <3>2, OnlyType, NothingType, HistoryGrows DEF Misarmed
    <3> QED BY <1>b, <2>1, <2>3, <3>3 DEF RunReplyLost
  <2>4. CASE run[s][k] = "disarm"
    <3>1. UNCHANGED doc /\ job' = [job EXCEPT ![s] = "none"]
      BY <2>1, <2>4 DEF RunReplyLost, Disarm
    <3>2. \A x \in Schedules : x = s \/ run'[x] = run[x]
      BY <1>0, <2>1 DEF Advance, RunTypeOK
    <3>3. ~Armed(s)' /\ \A x \in Schedules : Armed(x)' => Armed(x)
      BY <1>0, <3>1 DEF Armed
    <3> QED BY <1>0, <3>1, <3>2, <3>3, CalmStep
  <2> QED BY <2>1, <2>2, <2>3, <2>4 DEF RunReplyLost
<1> QED BY <1>1, <1>2, <1>3, <1>4, <1>5, <1>6 DEF Execute, RunStep

LEMMA SchedulerKeepsInv ==
    ASSUME ServiceInv, ServiceTypeOK', RequestsOnTrack', HistoryKept,
           \/ \E s \in Schedules : Fire(s) \/ MissLast(s) \/ FireNow(s) \/ DropNow(s)
           \/ Tick
    PROVE  ServiceInv'
<1>0. /\ UNCHANGED <<doc, req, phase, listed>>
      /\ job \in [Schedules -> Jobs] /\ RunTypeOK
      /\ listed # {} => phase = "resync"
  BY DEF Fire, MissLast, FireNow, DropNow, Tick, Expire, lifecycleVars, processVars, ServiceInv,
     ServiceTypeOK, StoreTypeOK, ListedWhileResyncing
<1>1. \A x \in Schedules : Armed(x)' => Armed(x)
  <2>1. UNCHANGED job \/ \E s \in Schedules : AfterFire(s)
    BY DEF Fire, MissLast, FireNow, DropNow, Tick, Expire
  <2> QED BY <1>0, <2>1 DEF AfterFire, Armed
<1>2. \A x \in Schedules, k \in JobKinds : run[x][k] = "disarm" => run'[x][k] = "disarm"
  <2>1. \/ UNCHANGED run
        \/ \E s \in Schedules, k \in JobKinds : run[s][k] = "free" /\ Advance(s, k, "load")
    BY DEF Fire, MissLast, FireNow, DropNow, Tick, runVars, JobKinds
  <2> QED BY <1>0, <2>1 DEF Advance, RunTypeOK
<1> QED BY <1>0, <1>1, <1>2, CalmStep

LEMMA ProcessKeepsInv ==
    ASSUME ServiceInv, ServiceTypeOK', RequestsOnTrack', HistoryKept, Crash \/ Shutdown \/ Boot
    PROVE  ServiceInv'
<1> USE DEF storeVars, lifecycleVars, runVars
<1>0. /\ mishaps \in Harms /\ LifecycleTypeOK
      /\ listed # {} => phase = "resync"
  BY DEF ServiceInv, ServiceTypeOK, ListedWhileResyncing, Harms
<1>1. CASE Crash \/ Shutdown
  <2>1. /\ UNCHANGED <<doc, job>> /\ listed' = {}
        /\ \A r \in Clients : ~Busy(r)'
        /\ History([s \in Schedules |-> StopLeaves(s)], Nothing)
    BY <1>1 DEF Crash, Shutdown, Stop, Busy
  <2>2. [s \in Schedules |-> StopLeaves(s)] \in Harms
    BY LeavesTypes DEF Harms
  <2>3. \A s \in Schedules : StopLeaves(s) \subseteq mishaps'[s]
    BY <1>0, <2>1, <2>2, NothingType, HistoryGrows
  <2>4. OnlyActiveArmed'
    <3> SUFFICES ASSUME NEW s \in Schedules, Armed(s)', ~Active(s)', ~Misarmed(s)' PROVE FALSE
      BY DEF OnlyActiveArmed
    <3>1. PICK k \in JobKinds : run[s][k] = "disarm"
      BY <2>1, CleanStays DEF ServiceInv, OnlyActiveArmed, Armed, Active
    <3>2. RunLeaves(s, k) = {"misarmed"}
      BY <3>1 DEF RunLeaves
    <3>3. "misarmed" \in StopLeaves(s)
      BY <3>2 DEF StopLeaves
    <3> QED BY <2>3, <3>3 DEF Misarmed
  <2>5. ListedWhileResyncing' /\ ListedAreActive' /\ ReadsStand' /\ NoJobBehind'
    BY <2>1 DEF ListedWhileResyncing, ListedAreActive, ReadsStand, NoJobBehind
  <2> QED BY <2>4, <2>5 DEF ServiceInv, HistoryKept, CrowdsAreRaced
<1>2. ASSUME NEW kept \in SUBSET Schedules, StartScheduler(kept)
      PROVE  ServiceInv'
  <2>1. UNCHANGED <<doc, req, run, listed>> /\ listed = {}
    BY <1>0, <1>2 DEF StartScheduler
  <2>2. \A x \in Schedules : Armed(x)' => Armed(x)
    BY <1>2 DEF StartScheduler, Armed
  <2> QED BY <2>1, <2>2, CalmStep
<1>3. CASE ListActive
  <2>1. UNCHANGED <<doc, job, req, run>> /\ phase' = "resync" /\ \A s \in listed' : Active(s)
    BY <1>3 DEF ListActive
  <2> QED BY <2>1, CalmStep DEF Armed
<1>4. ASSUME NEW failed \in SUBSET Schedules, Resync(failed)
      PROVE  ServiceInv'
  <2>1. UNCHANGED <<doc, req, run>> /\ listed' = {} /\ phase = "resync"
    BY <1>4 DEF Resync
  <2>2. \A r \in Clients : ~Busy(r)'
    BY <2>1 DEF ServiceInv, RequestsOnTrack, Busy
  <2>3. OnlyActiveArmed'
    <3> SUFFICES ASSUME NEW s \in Schedules, Armed(s)', ~Active(s)', ~Misarmed(s)'
                 PROVE  \E k \in JobKinds : run'[s][k] = "disarm"
      BY DEF OnlyActiveArmed
    <3>1. Armed(s) \/ s \in listed
      BY <1>4 DEF Resync, Armed
    <3>2. s \notin listed
      BY <2>1, CleanStays DEF ServiceInv, ListedAreActive, Misarmed, Active
    <3> QED BY <2>1, <3>1, <3>2, CleanStays DEF ServiceInv, OnlyActiveArmed, Active
  <2>4. ListedWhileResyncing' /\ ListedAreActive' /\ ReadsStand' /\ NoJobBehind'
    BY <2>1, <2>2 DEF ListedWhileResyncing, ListedAreActive, ReadsStand, NoJobBehind
  <2> QED BY <2>3, <2>4 DEF ServiceInv, HistoryKept, CrowdsAreRaced
<1> QED BY <1>1, <1>2, <1>3, <1>4 DEF Boot

LEMMA NextKeepsInv ==
    ASSUME ServiceInv, Next
    PROVE  ServiceInv'
<1>0. ServiceTypeOK' /\ RequestsOnTrack' /\ HistoryKept
  BY NextTypes DEF ServiceInv
<1>1. ASSUME NEW r \in Clients, Call(r) \/ Serve(r) \/ RequestFault(r) \/ ReplyFault(r)
      PROVE  ServiceInv'
  <2>1. CASE Call(r)
    BY <1>0, <2>1, CallKeepsInv
  <2>2. CASE Serve(r) \/ RequestFault(r) \/ ReplyFault(r)
    <3>1. UNCHANGED <<phase, listed, run>>
      BY <2>2 DEF Serve, RequestFault, ReplyFault, runVars, processVars
    <3>2. \E x : req[r].id = x
      OBVIOUS
    <3>3. CASE RequestStep(r) \/ StepFails(r) \/ WriteReplyLost(r) \/ DisarmReplyLost(r)
      BY <1>0, <3>1, <3>2, <3>3, QuietRequestSteps, BusyRequestSteps DEF RequestStep
    <3>4. CASE ReplyFault(r) /\ ArmReplyLost(r)
      <4>1. "misarmed" \in mishaps'[req[r].id]
        BY <3>4, LostReplyMarks DEF ArmReplyLost, At, LostReplyLeaves, ServiceInv
      <4> QED BY <1>0, <3>1, <3>2, <3>4, <4>1, ArmReplyLostKeepsInv
    <3> QED BY <2>2, <3>3, <3>4 DEF Serve, RequestFault, ReplyFault, ReplyLost
  <2> QED BY <1>1, <2>1, <2>2
<1>2. ASSUME NEW s \in Schedules, NEW k \in JobKinds,
             Execute(s, k) \/ RunFault(s, k) \/ RunReplyFault(s, k)
      PROVE  ServiceInv'
  BY <1>0, <1>2, RunsKeepInv
<1> QED BY <1>0, <1>1, <1>2, SchedulerKeepsInv, ProcessKeepsInv DEF Next

LEMMA InitInv == Init => ServiceInv
<1> SUFFICES ASSUME Init PROVE ServiceInv
  OBVIOUS
<1>1. \A s \in Schedules : ~Armed(s) /\ Editors(s) = {}
  BY DEF Init, StoreInit, LifecycleInit, RunInit, NoRuns, Armed, Editors, On, Busy
<1>2. \A r \in Clients : ~Busy(r)
  BY DEF Init, LifecycleInit, Busy
<1> QED BY <1>1, <1>2, InitTypes
        DEF Init, ServiceInv, ListedWhileResyncing, CrowdsAreRaced, Crowded, ListedAreActive,
            ReadsStand, NoJobBehind, OnlyActiveArmed

LEMMA StutterKeepsInv == ServiceInv /\ UNCHANGED vars => ServiceInv'
<1> SUFFICES ASSUME ServiceInv, UNCHANGED vars PROVE ServiceInv'
  OBVIOUS
<1> USE DEF vars, storeVars, lifecycleVars, runVars, processVars, historyVars
<1>1. ServiceTypeOK' /\ RequestsOnTrack' /\ ListedWhileResyncing'
  BY DEF ServiceInv, ServiceTypeOK, StoreTypeOK, LifecycleTypeOK, RunTypeOK, RequestsOnTrack, Busy,
     Rearms, EditedStatus, Resuming, TriggerChanged, ListedWhileResyncing
<1>2. CrowdsAreRaced' /\ ListedAreActive' /\ OnlyActiveArmed'
  BY DEF ServiceInv, CrowdsAreRaced, Crowded, Editors, On, Busy, ListedAreActive, OnlyActiveArmed,
     Armed, Active, Misarmed
<1>3. ReadsStand' /\ NoJobBehind'
  BY DEF ServiceInv, ReadsStand, NoJobBehind, Relies, Unarmed, EditedStatus, Resuming, Busy, Armed,
     Active, Misarmed
<1> QED BY <1>1, <1>2, <1>3 DEF ServiceInv

\* The inductive invariant: what every half-done operation may count on.
THEOREM ServiceInvAlways == Spec => []ServiceInv
<1>1. ServiceInv /\ [Next]_vars => ServiceInv'
  BY NextKeepsInv, StutterKeepsInv
<1> QED BY <1>1, InitInv, PTL DEF Spec

\* However many clients call, runs overlap, calls fail or lose their replies and
\* processes die: a schedule that is not active has no trigger job, unless the
\* disarm of an auto-pause is about to come, two coroutines met on it, or (the
\* mark `misarmed') an operation on it was cut where the job is left wrong: an
\* auto-pause before its disarm, the save of an active schedule's new trigger
\* before its arm, or an add_job that took effect and raised.
THEOREM OnlyActiveArmedAlways == Spec => []OnlyActiveArmed
<1>1. ServiceInv => OnlyActiveArmed
  BY DEF ServiceInv
<1> QED BY <1>1, ServiceInvAlways, PTL
==============================================================================
