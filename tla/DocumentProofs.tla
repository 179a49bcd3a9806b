---------------------------- MODULE DocumentProofs ----------------------------
(***************************************************************************)
(* The Schedule documents: ThresholdEnforced, DeletedForGood and the       *)
(* refinement of ScheduleContract, for every set of schedules, clients,    *)
(* triggers and calls, every threshold and every number of faults.         *)
(*                                                                         *)
(* The last two need no word about races: ContractInv is inductive by      *)
(* itself, since every operation on a document is one atomic update whose  *)
(* guard or partial $set keeps what the others have written.               *)
(***************************************************************************)
EXTENDS LockstepProofs

-----------------------------------------------------------------------------
(* What the step of a request does to the document, and where it goes. *)

LEMMA RequestDocs ==
    ASSUME ServiceTypeOK, NEW q \in Clients, NEW s, req[q].id = s,
           RequestStep(q) \/ StepFails(q) \/ ReplyLost(q)
    PROVE  /\ s \in Schedules /\ doc \in [Schedules -> Docs] /\ Busy(q) /\ LifecycleTypeOK
           /\ \/ doc' = doc
              \/ req[q].at = "insert" /\ doc' = Inserted(q)
              \/ req[q].at = "write" /\ Exists(s) /\ doc' = Saved(q)
              \/ /\ req[q].at \in {"uncreate", "remove"}
                 /\ doc' = [doc EXCEPT ![s].status = "deleted"]
              \/ /\ req[q].at = "revert" /\ Exists(s)
                 /\ doc' = [doc EXCEPT ![s] = SetFields(q, doc[s], req[q].seen.status,
                                                  req[q].seen.trigger, req[q].seen.errors)]
<1>1. Busy(q)
  BY DEF RequestStep, CreateAccepted, Insert, ArmNew, Uncreate, NothingToDo, DisarmThenSave,
         SaveOnly, SaveThenArm, Refused, Reaches, Write, WriteMissed, ArmEdited, Revert,
         QueueRunNow, DisarmThenDelete, Remove, StepFails, ReplyLost, WriteReplyLost,
         ArmReplyLost, DisarmReplyLost, Disarms, At
<1>2. s \in Schedules /\ doc \in [Schedules -> Docs] /\ LifecycleTypeOK
  BY <1>1, RequestFields DEF ServiceTypeOK, StoreTypeOK
<1>3. CASE doc' = doc
  BY <1>1, <1>2, <1>3
<1>4. CASE Insert(q) \/ Write(q) \/ ReplyLost(q)
  BY <1>1, <1>2, <1>4
     DEF Insert, Write, ReplyLost, WriteReplyLost, ArmReplyLost, DisarmReplyLost, At
<1>5. CASE Uncreate(q) \/ Remove(q)
  BY <1>1, <1>2, <1>5 DEF Uncreate, Remove, At
<1>6. CASE Revert(q)
  BY <1>1, <1>2, <1>6 DEF Revert, At
<1>7. \/ doc' = doc \/ Insert(q) \/ Write(q) \/ ReplyLost(q) \/ Uncreate(q) \/ Remove(q) \/ Revert(q)
  BY DEF RequestStep, CreateAccepted, ArmNew, NothingToDo, DisarmThenSave, SaveOnly, SaveThenArm,
         Refused, WriteMissed, ArmEdited, QueueRunNow, DisarmThenDelete, StepFails, storeVars
<1> QED BY <1>3, <1>4, <1>5, <1>6, <1>7

LEMMA RequestGoes ==
    ASSUME ServiceTypeOK, RequestsOnTrack, NEW q \in Clients, Busy(q),
           RequestStep(q) \/ StepFails(q) \/ ReplyLost(q)
    PROVE  \/ Return(q)
           \/ /\ Goto(q, "insert") /\ req[q].at = "decide" /\ req[q].call.op = "create"
              /\ doc' = doc /\ req[q].call.trigger \notin Invalid
           \/ Goto(q, "armNew") /\ req[q].at = "insert" /\ doc' = Inserted(q)
           \/ Goto(q, "uncreate") /\ req[q].at = "armNew" /\ doc' = doc
           \/ /\ Goto(q, "write") /\ req[q].at = "decide" /\ doc' = doc
              /\ req[q].call.op \in {"patch", "pause", "resume"}
              /\ TriggerChanged(q) => req[q].call.trigger \notin Invalid
              /\ req[q].call.op # "patch" => req[q].call.status # req[q].seen.status
           \/ Goto(q, "arm") /\ req[q].at = "write"
           \/ Goto(q, "revert") /\ req[q].at = "arm" /\ doc' = doc
           \/ /\ Goto(q, "remove") /\ req[q].at = "decide" /\ req[q].call.op = "delete"
              /\ doc' = doc
<1>1. CASE CreateAccepted(q)
  BY <1>1 DEF CreateAccepted, Armable, At, storeVars
<1>2. CASE Insert(q)
  BY <1>2 DEF Insert, At
<1>3. CASE DisarmThenSave(q) \/ SaveThenArm(q) \/ SaveOnly(q)
  BY <1>3 DEF DisarmThenSave, SaveThenArm, SaveOnly, Reaches, Rearms, Armable, EditedTrigger,
     TriggerChanged, At, storeVars
<1>4. CASE Write(q) \/ WriteMissed(q)
  BY <1>4 DEF Write, WriteMissed, At
<1>5. CASE DisarmThenDelete(q)
  BY <1>5 DEF DisarmThenDelete, At
<1>6. CASE StepFails(q)
  <2>1. CASE At(q, "armNew") \/ At(q, "arm")
    BY <1>6, <2>1 DEF StepFails, At, storeVars
  <2>2. CASE ~(At(q, "armNew") \/ At(q, "arm"))
    BY <1>6, <2>2 DEF StepFails
  <2> QED BY <2>1, <2>2
<1>7. CASE \/ ArmNew(q) \/ Uncreate(q) \/ NothingToDo(q) \/ Refused(q) \/ ArmEdited(q)
           \/ Revert(q) \/ QueueRunNow(q) \/ Remove(q)
           \/ WriteReplyLost(q) \/ DisarmReplyLost(q)
  BY <1>7 DEF ArmNew, Uncreate, NothingToDo, Refused, ArmEdited, Revert, QueueRunNow, Remove,
     WriteReplyLost, DisarmReplyLost
<1>8. CASE ArmReplyLost(q)
  BY <1>8 DEF ArmReplyLost, At
<1> QED BY <1>1, <1>2, <1>3, <1>4, <1>5, <1>6, <1>7, <1>8 DEF RequestStep, ReplyLost

-----------------------------------------------------------------------------
(* The error threshold *)

\* Only the check of a run mends what is unchecked.
LEMMA UncheckedStays ==
    ASSUME mishaps \in Harms, NEW left, NEW mended, NEW s \in Schedules,
           History(left, mended), "unchecked" \notin mended[s]
    PROVE  "unchecked" \in mishaps[s] => "unchecked" \in mishaps'[s]
BY DEF History, Harms

\* A request makes no schedule failing: becoming active resets the count.
LEMMA RequestsCountNothing ==
    ASSUME ServiceInv, LockstepInv, NEW q \in Clients,
           RequestStep(q) \/ StepFails(q) \/ ReplyLost(q)
    PROVE  \A x \in Schedules : Failing(x)' => Failing(x) \/ "raced" \in mishaps[x]
<1> PICK s : req[q].id = s
  OBVIOUS
<1>1. /\ s \in Schedules /\ doc \in [Schedules -> Docs] /\ Busy(q) /\ LifecycleTypeOK
      /\ \/ doc' = doc
         \/ req[q].at = "insert" /\ doc' = Inserted(q)
         \/ req[q].at = "write" /\ Exists(s) /\ doc' = Saved(q)
         \/ /\ req[q].at \in {"uncreate", "remove"}
            /\ doc' = [doc EXCEPT ![s].status = "deleted"]
         \/ /\ req[q].at = "revert" /\ Exists(s)
            /\ doc' = [doc EXCEPT ![s] = SetFields(q, doc[s], req[q].seen.status,
                                             req[q].seen.trigger, req[q].seen.errors)]
  BY RequestDocs DEF ServiceInv
<1>2. CASE doc' = doc
  BY <1>2 DEF Failing, Active
<1>3. CASE doc' = Inserted(q)
  <2>1. doc'[s].errors = 0 /\ \A x \in Schedules \ {s} : doc'[x] = doc[x]
    BY <1>1, <1>3 DEF Inserted
  <2> QED BY <2>1, ThresholdAssumption DEF Failing, Active
<1>4. CASE doc' = [doc EXCEPT ![s].status = "deleted"]
  <2>1. doc'[s].status = "deleted" /\ \A x \in Schedules \ {s} : doc'[x] = doc[x]
    BY <1>1, <1>4 DEF Docs
  <2> QED BY <2>1 DEF Failing, Active
<1>5. CASE req[q].at = "write" /\ Exists(s) /\ doc' = Saved(q)
  <2>1. /\ \A x \in Schedules \ {s} : doc'[x] = doc[x]
        /\ doc'[s].status = IF req[q].call.status = "keep" THEN doc[s].status
                                                       ELSE req[q].call.status
        /\ doc'[s].errors = IF Resuming(q) THEN 0 ELSE doc[s].errors
    BY <1>1, <1>5, SavedFields
  <2>2. req[q].call.op \in {"patch", "pause", "resume"}
    BY <1>1, <1>5, RequestFields DEF ServiceInv, RequestsOnTrack, StepsOf, Ops
  <2>3. doc[s].status = req[q].seen.status \/ "raced" \in mishaps[s]
    BY <1>1, <1>5, <2>2 DEF ServiceInv, ReadsStand, Relies
  <2>4. Failing(s)' => ~Resuming(q)
    BY <2>1, ThresholdAssumption DEF Failing
  <2>5. ~Resuming(q) /\ Active(s)' => Active(s) \/ "raced" \in mishaps[s]
    BY <2>1, <2>3 DEF Active, Resuming
  <2> QED BY <2>1, <2>4, <2>5 DEF Failing, Active
<1>6. CASE /\ req[q].at = "revert" /\ Exists(s)
           /\ doc' = [doc EXCEPT ![s] = SetFields(q, doc[s], req[q].seen.status,
                                            req[q].seen.trigger, req[q].seen.errors)]
  <2>1. /\ \A x \in Schedules \ {s} : doc'[x] = doc[x]
        /\ doc'[s].status = IF req[q].call.status = "keep" THEN doc[s].status
                                                       ELSE req[q].seen.status
        /\ doc'[s].errors = IF Resuming(q) THEN req[q].seen.errors ELSE doc[s].errors
    BY <1>1, <1>6 DEF SetFields
  <2>2. Active(s) \/ "raced" \in mishaps[s]
    BY <1>1, <1>6 DEF LockstepInv, TriggersStand, TriggerStands
  <2>3. Resuming(q) => ~Active(s)'
    BY <2>1 DEF Resuming, Active
  <2> QED BY <2>1, <2>2, <2>3 DEF Failing, Active
<1> QED BY <1>1, <1>2, <1>3, <1>4, <1>5, <1>6

LEMMA RequestsKeepThreshold ==
    ASSUME ServiceInv, LockstepInv, ThresholdEnforced, HistoryKept, NEW q \in Clients,
           Call(q) \/ Serve(q) \/ RequestFault(q) \/ ReplyFault(q)
    PROVE  ThresholdEnforced'
<1>1. run' = run /\ mishaps \in Harms
  BY DEF Call, Serve, RequestFault, ReplyFault, runVars, ServiceInv, ServiceTypeOK, Harms
<1>2. \A x \in Schedules : Failing(x)' => Failing(x) \/ "raced" \in mishaps[x]
  <2>1. CASE Call(q)
    BY <2>1 DEF Call, Lookup, LookupName, storeVars, Failing, Active
  <2>2. CASE RequestStep(q) \/ StepFails(q) \/ ReplyLost(q)
    BY <2>2, RequestsCountNothing
  <2> QED BY <2>1, <2>2 DEF Serve, RequestFault, ReplyFault
<1>3. \A x \in Schedules : "unchecked" \in mishaps[x] => "unchecked" \in mishaps'[x]
  <2>1. CASE Uneventful
    BY <1>1, <2>1, UncheckedStays DEF Uneventful, Nothing
  <2>2. CASE RequestFault(q) \/ ReplyFault(q)
    BY <1>1, <2>2, UncheckedStays DEF RequestFault, ReplyFault, Nothing
  <2> QED BY <2>1, <2>2 DEF Call, Serve
<1>4. \A x \in Schedules : "raced" \in mishaps[x] => "raced" \in mishaps'[x]
  BY CleanStays
<1> QED BY <1>1, <1>2, <1>3, <1>4 DEF ThresholdEnforced, Failing

LEMMA RunsKeepThreshold ==
    ASSUME ServiceInv, ThresholdEnforced, HistoryKept,
           NEW s \in Schedules, NEW k \in JobKinds,
           Execute(s, k) \/ RunFault(s, k) \/ RunReplyFault(s, k)
    PROVE  ThresholdEnforced'
<1>0. doc \in [Schedules -> Docs] /\ RunTypeOK /\ mishaps \in Harms
  BY DEF ServiceInv, ServiceTypeOK, StoreTypeOK, Harms
<1>1. \E stage : run' = [run EXCEPT ![s][k] = stage]
  BY DEF Execute, RunStep, RunFault, RunReplyFault, RunFails, RunReplyLost, Load, Answer,
     RecordSuccess, RecordFailure, PauseFailing, LeaveAlone, DisarmFailing, Report, Advance
<1>2. \A x \in Schedules \ {s} : run'[x] = run[x] /\ doc'[x] = doc[x]
  <2>1. \A x \in Schedules \ {s} : run'[x] = run[x]
    BY <1>0, <1>1 DEF RunTypeOK
  <2>2. \A x \in Schedules \ {s} : doc'[x] = doc[x]
    BY <1>0 DEF Execute, RunStep, RunFault, RunReplyFault, RunFails, RunReplyLost, Load, Answer,
       RecordSuccess, Cleared, RecordFailure, Counted, PauseFailing, LeaveAlone, DisarmFailing,
       Report, storeVars
  <2> QED BY <2>1, <2>2
<1>3. \A j \in JobKinds \ {k} : run'[s][j] = run[s][j]
  BY <1>0, <1>1 DEF RunTypeOK
<1>4. \A x \in Schedules :
         x # s \/ run[s][k] # "check" \/ RunFault(s, k) \/ RunReplyFault(s, k) =>
         ("unchecked" \in mishaps[x] => "unchecked" \in mishaps'[x])
  <2>1. CASE Execute(s, k)
    <3> DEFINE mended == Only(s, IF run[s][k] = "check" THEN {"unchecked"} ELSE {})
    <3>1. \A x \in Schedules : x # s \/ run[s][k] # "check" => "unchecked" \notin mended[x]
      BY DEF Only, Nothing
    <3>2. History(Nothing, mended) /\ ~RunFault(s, k) /\ ~RunReplyFault(s, k)
      BY <1>0, <2>1, MaxFaultsAssumption
         DEF Execute, RunFault, RunReplyFault, Fault, ServiceInv, ServiceTypeOK
    <3> HIDE DEF mended
    <3> QED BY <1>0, <3>1, <3>2, UncheckedStays
  <2>2. CASE RunFault(s, k) \/ RunReplyFault(s, k)
    BY <1>0, <2>2, UncheckedStays DEF RunFault, RunReplyFault, Nothing
  <2> QED BY <2>1, <2>2
<1>5. ASSUME NEW x \in Schedules \ {s}, Failing(x)'
      PROVE  /\ Failing(x)
             /\ "unchecked" \in mishaps[x] => "unchecked" \in mishaps'[x]
             /\ \A j \in JobKinds : run[x][j] = "check" => run'[x][j] = "check"
  BY <1>2, <1>4, <1>5 DEF Failing, Active
<1>6. ASSUME Failing(s)'
      PROVE  \/ mishaps'[s] \cap {"raced", "unchecked"} # {}
             \/ \E j \in JobKinds : run'[s][j] = "check"
  <2>1. CASE RecordFailure(s, k)
    <3>1. run'[s][k] = "check"
      BY <1>0, <2>1 DEF RecordFailure, Counted, Advance, RunTypeOK
    <3> QED BY <3>1
  <2>2. CASE doc' = Cleared(s)
    <3>1. doc'[s].errors = 0 \/ ~Active(s)'
      BY <1>0, <2>2 DEF Cleared, Exists, Active
    <3> QED BY <1>6, <3>1, ThresholdAssumption DEF Failing
  <2>3. CASE doc' = [doc EXCEPT ![s].status = "paused"]
    <3>1. doc'[s].status = "paused"
      BY <1>0, <2>3 DEF Docs
    <3> QED BY <1>6, <3>1 DEF Failing, Active
  <2>4. CASE LeaveAlone(s, k)
    BY <1>6, <2>4 DEF LeaveAlone, storeVars, Failing, Active
  <2>5. CASE RunFault(s, k) /\ run[s][k] = "check"
    <3>1. RunLeaves(s, k) = {"unchecked"}
      BY <2>5 DEF RunLeaves
    <3>2. History(Only(s, {"unchecked"}), Nothing) /\ {"unchecked"} \in SUBSET Mishaps
      BY <2>5, <3>1 DEF RunFault, Mishaps
    <3> QED BY <1>0, <3>2, LeftBehind
  <2>6. CASE /\ run[s][k] # "check" /\ doc' = doc
    <3>1. Failing(s)
      BY <1>6, <2>6 DEF Failing, Active
    <3>2. \A j \in JobKinds : run[s][j] = "check" => run'[s][j] = "check"
      BY <1>3, <2>6
    <3> QED BY <1>4, <2>6, <3>1, <3>2 DEF ThresholdEnforced, Failing, HistoryKept
  <2>7. CASE RunReplyFault(s, k) /\ run[s][k] = "failure"
    <3>1. History(Only(s, {"unchecked"}), Nothing) /\ {"unchecked"} \in SUBSET Mishaps
      BY <2>7 DEF RunReplyFault, Mishaps
    <3> QED BY <1>0, <3>1, LeftBehind
  <2>8. CASE Execute(s, k)
    BY <2>1, <2>2, <2>3, <2>4, <2>6, <2>8 DEF Execute, RunStep, Load, Answer, RecordSuccess,
       PauseFailing, DisarmFailing, Report, storeVars
  <2>9. CASE RunFault(s, k)
    BY <2>5, <2>6, <2>9 DEF RunFault, RunFails, storeVars
  <2>10. CASE RunReplyFault(s, k)
    BY <2>2, <2>3, <2>6, <2>7, <2>10 DEF RunReplyFault, RunReplyLost
  <2> QED BY <2>8, <2>9, <2>10
<1> QED BY <1>5, <1>6 DEF ThresholdEnforced, Failing, HistoryKept

\* Steps of the scheduler and the process count nothing; stopping records the
\* checks it cuts off.
LEMMA ProcessKeepsThreshold ==
    ASSUME ServiceInv, ThresholdEnforced, HistoryKept,
           \/ \E s \in Schedules : Fire(s) \/ MissLast(s) \/ FireNow(s) \/ DropNow(s)
           \/ Tick \/ Crash \/ Shutdown \/ Boot
    PROVE  ThresholdEnforced'
<1>0. RunTypeOK /\ mishaps \in Harms
  BY DEF ServiceInv, ServiceTypeOK, Harms
<1>a. ASSUME doc' = doc,
             \A s \in Schedules, k \in JobKinds : run[s][k] = "check" => run'[s][k] = "check",
             \A s \in Schedules : "unchecked" \in mishaps[s] => "unchecked" \in mishaps'[s]
      PROVE  ThresholdEnforced'
  BY <1>a DEF ThresholdEnforced, Active, HistoryKept
<1>1. CASE Crash \/ Shutdown
  <2>1. /\ doc' = doc /\ History([s \in Schedules |-> StopLeaves(s)], Nothing)
    BY <1>1 DEF Crash, Shutdown, Stop, storeVars
  <2>2. [s \in Schedules |-> StopLeaves(s)] \in Harms
    BY LeavesTypes DEF Harms
  <2>3. \A s \in Schedules : StopLeaves(s) \subseteq mishaps'[s]
    BY <1>0, <2>1, <2>2, NothingType, HistoryGrows
  <2>4. ASSUME NEW s \in Schedules, NEW k \in JobKinds, run[s][k] = "check"
        PROVE  "unchecked" \in mishaps'[s]
    <3>1. RunLeaves(s, k) = {"unchecked"}
      BY <2>4 DEF RunLeaves
    <3> QED BY <2>3, <3>1 DEF StopLeaves
  <2>5. \A s \in Schedules : "unchecked" \in mishaps[s] => "unchecked" \in mishaps'[s]
    BY <1>0, <2>1, UncheckedStays DEF Nothing
  <2> QED BY <2>1, <2>4, <2>5 DEF ThresholdEnforced, Active, HistoryKept
<1>2. CASE Boot
  <2>1. doc' = doc /\ run' = run
    BY <1>2 DEF Boot, StartScheduler, ListActive, Resync, storeVars, runVars
  <2>2. ASSUME NEW s \in Schedules PROVE "unchecked" \in mishaps[s] => "unchecked" \in mishaps'[s]
    <3>1. CASE \E kept \in SUBSET Schedules : StartScheduler(kept)
      BY <1>0, <3>1, UncheckedStays DEF StartScheduler, Nothing
    <3>2. CASE ListActive
      BY <1>0, <3>2, UncheckedStays DEF ListActive, Uneventful, Nothing
    <3>3. ASSUME NEW failed \in SUBSET Schedules, Resync(failed)
          PROVE  "unchecked" \in mishaps[s] => "unchecked" \in mishaps'[s]
      BY <1>0, <3>3, UncheckedStays DEF Resync
    <3> QED BY <1>2, <3>1, <3>2, <3>3 DEF Boot
  <2> QED BY <1>a, <2>1, <2>2
<1>3. CASE \/ \E s \in Schedules : Fire(s) \/ MissLast(s) \/ FireNow(s) \/ DropNow(s)
           \/ Tick
  <2>1. /\ doc' = doc /\ Uneventful
        /\ \/ run' = run
           \/ \E s \in Schedules, k \in JobKinds :
                 run[s][k] = "free" /\ run' = [run EXCEPT ![s][k] = "load"]
    BY <1>3 DEF Fire, MissLast, FireNow, DropNow, Tick, Expire, runVars, Advance, JobKinds
  <2>2. \A s \in Schedules, k \in JobKinds : run[s][k] = "check" => run'[s][k] = "check"
    BY <1>0, <2>1 DEF RunTypeOK
  <2>3. \A s \in Schedules : "unchecked" \in mishaps[s] => "unchecked" \in mishaps'[s]
    BY <1>0, <2>1, UncheckedStays DEF Uneventful, Nothing
  <2> QED BY <1>a, <2>1, <2>2, <2>3
<1> QED BY <1>1, <1>2, <1>3

\* An active schedule at the error threshold is about to be checked, and paused,
\* by a run, whatever edits, resumes and other runs there have been; unless two
\* coroutines changed the schedule at once, or a run's failure was counted and the
\* run cut before its check.
THEOREM ThresholdEnforcedAlways == Spec => []ThresholdEnforced
<1>1. Init => ThresholdEnforced
  BY DEF Init, StoreInit, NoDoc, ThresholdEnforced, Active
<1>2. ASSUME ServiceInv, LockstepInv, ThresholdEnforced, Next PROVE ThresholdEnforced'
  <2>1. HistoryKept
    BY <1>2, NextTypes DEF ServiceInv
  <2> QED BY <1>2, <2>1, RequestsKeepThreshold, RunsKeepThreshold, ProcessKeepsThreshold DEF Next
<1>3. ThresholdEnforced /\ UNCHANGED vars => ThresholdEnforced'
  BY DEF vars, storeVars, runVars, historyVars, ThresholdEnforced, Active
<1>4. ServiceInv /\ LockstepInv /\ ThresholdEnforced /\ [Next]_vars => ThresholdEnforced'
  BY <1>2, <1>3
<1> QED BY <1>1, <1>4, ServiceInvAlways, LockstepInvAlways, PTL DEF Spec

-----------------------------------------------------------------------------
(* ContractInv *)

TrackInv == ServiceTypeOK /\ RequestsOnTrack

\* A document is never absent again once it exists, nor alive once it is deleted,
\* and the trigger it has can be built.
DocsStay ==
    \A x \in Schedules :
        /\ doc[x].status # "absent" => doc'[x].status # "absent"
        /\ doc[x].status = "deleted" => doc'[x].status = "deleted"
        /\ Exists(x)' => doc'[x].trigger \notin Invalid

\* What a request does to the documents, given what ContractInv says of it.
LEMMA RequestDocsStay ==
    ASSUME TrackInv, ContractInv, NEW q \in Clients,
           RequestStep(q) \/ StepFails(q) \/ ReplyLost(q)
    PROVE  DocsStay /\ \A x \in Schedules : ~On(q, x) => doc'[x] = doc[x]
<1> PICK s : req[q].id = s
  OBVIOUS
<1>1. /\ s \in Schedules /\ doc \in [Schedules -> Docs] /\ Busy(q) /\ LifecycleTypeOK
      /\ \/ doc' = doc
         \/ req[q].at = "insert" /\ doc' = Inserted(q)
         \/ req[q].at = "write" /\ Exists(s) /\ doc' = Saved(q)
         \/ /\ req[q].at \in {"uncreate", "remove"}
            /\ doc' = [doc EXCEPT ![s].status = "deleted"]
         \/ /\ req[q].at = "revert" /\ Exists(s)
            /\ doc' = [doc EXCEPT ![s] = SetFields(q, doc[s], req[q].seen.status,
                                             req[q].seen.trigger, req[q].seen.errors)]
  BY RequestDocs DEF TrackInv
<1>2. /\ req[q].at \in {"insert", "armNew", "uncreate"} => req[q].call.op = "create"
      /\ req[q].at \in {"write", "arm", "revert"} => req[q].call.op \in {"patch", "pause", "resume"}
      /\ req[q].at = "remove" => req[q].call.op = "delete"
      /\ req[q].call.op # "create" => req[q].seen.status \in {"active", "paused"}
      /\ req[q].call.status \in {"keep", "active", "paused"}
  BY <1>1, RequestFields DEF TrackInv, RequestsOnTrack, StepsOf, Ops
<1>3. /\ On(q, s)
      /\ req[q].at = "insert" => doc[s].status = "absent" /\ req[q].call.trigger \notin Invalid
      /\ req[q].at \in {"armNew", "uncreate", "remove"} => doc[s].status # "absent"
      /\ req[q].call.op # "create" => doc[s].status # "absent" /\ req[q].seen.trigger \notin Invalid
      /\ req[q].at \in {"write", "arm", "revert"} /\ TriggerChanged(q) =>
            req[q].call.trigger \notin Invalid
      /\ \A x \in Schedules : Exists(x) => doc[x].trigger \notin Invalid
  BY <1>1, <1>2 DEF ContractInv, CreatesAreFresh, ReadsExisted, ChecksHold, StoredTriggersBuild, On
<1>4. SUFFICES ASSUME doc' # doc
               PROVE  /\ \A x \in Schedules \ {s} : doc'[x] = doc[x]
                      /\ doc'[s].status # "absent"
                      /\ doc[s].status = "deleted" => doc'[s].status = "deleted"
                      /\ Exists(s)' => doc'[s].trigger \notin Invalid
  BY <1>1, <1>3 DEF DocsStay, Exists, On
<1>5. CASE req[q].at = "insert" /\ doc' = Inserted(q)
  BY <1>1, <1>3, <1>5 DEF Inserted
<1>6. CASE req[q].at = "write" /\ Exists(s) /\ doc' = Saved(q)
  <2>1. /\ \A x \in Schedules \ {s} : doc'[x] = doc[x]
        /\ doc'[s].trigger = IF TriggerChanged(q) THEN req[q].call.trigger ELSE doc[s].trigger
        /\ doc'[s].status = IF req[q].call.status = "keep" THEN doc[s].status
                                                       ELSE req[q].call.status
    BY <1>1, <1>6, SavedFields
  <2> QED BY <1>1, <1>2, <1>3, <1>6, <2>1 DEF Exists
<1>7. CASE /\ req[q].at \in {"uncreate", "remove"}
           /\ doc' = [doc EXCEPT ![s].status = "deleted"]
  <2>1. doc'[s].status = "deleted" /\ \A x \in Schedules \ {s} : doc'[x] = doc[x]
    BY <1>1, <1>7 DEF Docs
  <2> QED BY <1>3, <1>7, <2>1 DEF Exists
<1>8. CASE /\ req[q].at = "revert" /\ Exists(s)
           /\ doc' = [doc EXCEPT ![s] = SetFields(q, doc[s], req[q].seen.status,
                                            req[q].seen.trigger, req[q].seen.errors)]
  <2>1. /\ \A x \in Schedules \ {s} : doc'[x] = doc[x]
        /\ doc'[s].trigger = IF TriggerChanged(q) THEN req[q].seen.trigger ELSE doc[s].trigger
        /\ doc'[s].status = IF req[q].call.status = "keep" THEN doc[s].status
                                                       ELSE req[q].seen.status
    BY <1>1, <1>8 DEF SetFields
  <2> QED BY <1>1, <1>2, <1>3, <1>8, <2>1 DEF Exists
<1> QED BY <1>1, <1>4, <1>5, <1>6, <1>7, <1>8

\* Runs change documents that exist, and nothing else changes any.
LEMMA OtherDocsStay ==
    ASSUME TrackInv, ContractInv,
           \/ doc' = doc
           \/ \E s \in Schedules, k \in JobKinds : RunStep(s, k) \/ RunReplyLost(s, k)
    PROVE  DocsStay /\ \A x \in Schedules : doc[x].status = "absent" => doc'[x] = doc[x]
<1>1. doc \in [Schedules -> Docs] /\ \A x \in Schedules : Exists(x) => doc[x].trigger \notin Invalid
  BY DEF TrackInv, ServiceTypeOK, StoreTypeOK, ContractInv, StoredTriggersBuild
<1>2. \A x \in Schedules :
         \/ doc'[x] = doc[x]
         \/ /\ Exists(x)
            /\ doc'[x].status \in {doc[x].status, "paused"}
            /\ doc'[x].trigger = doc[x].trigger
  BY <1>1 DEF RunStep, RunReplyLost, Load, Answer, RecordSuccess, Cleared, RecordFailure, Counted,
     PauseFailing, LeaveAlone, DisarmFailing, Report, storeVars, Docs, Failing, Active, Exists
<1> QED BY <1>1, <1>2 DEF DocsStay, Exists

\* What the invariant says of request r.
LocalContract(r) ==
    Busy(r) =>
        /\ req[r].call.op = "create" =>
              /\ req[r].at \in {"decide", "insert"} =>
                    /\ doc[req[r].id].status = "absent"
                    /\ \A p \in Clients \ {r} : ~On(p, req[r].id)
              /\ req[r].at \in {"armNew", "uncreate"} => doc[req[r].id].status # "absent"
        /\ req[r].call.op # "create" =>
              doc[req[r].id].status # "absent" /\ req[r].seen.trigger \notin Invalid
        /\ req[r].at = "insert" => req[r].call.trigger \notin Invalid
        /\ req[r].at \in {"write", "arm", "revert"} =>
              /\ TriggerChanged(r) => req[r].call.trigger \notin Invalid
              /\ req[r].call.op # "patch" => req[r].call.status # req[r].seen.status

LEMMA ContractIsLocal ==
    /\ ContractInv <=> (\A r \in Clients : LocalContract(r)) /\ StoredTriggersBuild
    /\ ContractInv' <=> (\A r \in Clients : LocalContract(r)') /\ StoredTriggersBuild'
BY DEF ContractInv, LocalContract, CreatesAreFresh, ReadsExisted, ChecksHold

\* A request that another one's step leaves alone keeps what it counts on.
LEMMA OthersContract ==
    ASSUME TrackInv, ContractInv, DocsStay, NEW r \in Clients, Busy(r), req'[r] = req[r],
           \A p \in Clients \ {r} : On(p, req[r].id)' => On(p, req[r].id),
           req[r].call.op = "create" /\ req[r].at \in {"decide", "insert"} =>
               doc'[req[r].id] = doc[req[r].id]
    PROVE  LocalContract(r)'
<1>1. req[r].id \in Schedules /\ LocalContract(r)
  BY RequestFields, ContractIsLocal DEF TrackInv, ServiceTypeOK
<1> QED BY <1>1 DEF LocalContract, DocsStay, TriggerChanged, On, Busy

LEMMA RequestKeepsContract ==
    ASSUME TrackInv, ContractInv, NEW q \in Clients,
           RequestStep(q) \/ StepFails(q) \/ ReplyLost(q)
    PROVE  ContractInv'
<1> PICK s : req[q].id = s
  OBVIOUS
<1>1. /\ s \in Schedules /\ Busy(q) /\ LifecycleTypeOK /\ ServiceTypeOK /\ RequestsOnTrack
      /\ doc \in [Schedules -> Docs]
  BY RequestDocs DEF TrackInv
<1>2. DocsStay /\ \A x \in Schedules : ~On(q, x) => doc'[x] = doc[x]
  BY RequestDocsStay
<1>3. StoredTriggersBuild'
  BY <1>2 DEF DocsStay, StoredTriggersBuild, Exists
<1>4. ASSUME NEW step, Goto(q, step)
      PROVE  /\ \A r \in Clients \ {q} : req'[r] = req[r]
             /\ req'[q].at = step /\ req'[q].id = s
             /\ req'[q].call = req[q].call /\ req'[q].seen = req[q].seen
  BY <1>1, <1>4, GotoOrReturn
<1>5. Return(q) => (\A r \in Clients \ {q} : req'[r] = req[r]) /\ ~Busy(q)'
  BY <1>1, GotoOrReturn
<1>6. Return(q) \/ \E step : Goto(q, step)
  BY <1>1, RequestGoes
<1>7. /\ \A r \in Clients \ {q} : req'[r] = req[r]
      /\ \A p \in Clients, x \in Schedules : On(p, x)' => On(p, x)
  <2>1. \A r \in Clients \ {q} : req'[r] = req[r]
    BY <1>4, <1>5, <1>6
  <2>2. Busy(q)' => req'[q].id = s
    BY <1>4, <1>5, <1>6
  <2> QED BY <1>1, <2>1, <2>2 DEF On, Busy
<1>8. ASSUME NEW r \in Clients \ {q} PROVE LocalContract(r)'
  <2>1. CASE Busy(r)
    <3>1. req[r].id \in Schedules /\ LocalContract(r)
      BY <1>1, <2>1, RequestFields, ContractIsLocal
    <3>2. req[r].call.op = "create" /\ req[r].at \in {"decide", "insert"} =>
             doc'[req[r].id] = doc[req[r].id]
      BY <1>2, <2>1, <3>1 DEF LocalContract
    <3> QED BY <1>2, <1>7, <2>1, <3>1, <3>2, OthersContract
  <2>2. CASE ~Busy(r)
    BY <1>7, <2>2 DEF LocalContract, Busy
  <2> QED BY <2>1, <2>2
<1>9. LocalContract(q)'
  <2>1. LocalContract(q)
    BY ContractIsLocal
  <2>2. req[q].at \in StepsOf(req[q].call.op) /\ req[q].call.op \in Ops
    BY <1>1, RequestFields DEF RequestsOnTrack
  <2>3. CASE Return(q)
    BY <1>5, <2>3 DEF LocalContract
  <2>4. CASE Goto(q, "insert") /\ req[q].at = "decide" /\ req[q].call.op = "create" /\ doc' = doc
             /\ req[q].call.trigger \notin Invalid
    BY <1>1, <1>4, <1>7, <2>1, <2>4 DEF LocalContract
  <2>5. CASE Goto(q, "armNew") /\ req[q].at = "insert" /\ doc' = Inserted(q)
    <3>1. req[q].call.op = "create"
      BY <2>2, <2>5 DEF StepsOf, Ops
    <3>2. doc'[s].status = "active"
      BY <1>1, <2>5 DEF Inserted
    <3> QED BY <1>4, <2>5, <3>1, <3>2 DEF LocalContract
  <2>6. CASE Goto(q, "uncreate") /\ req[q].at = "armNew" /\ doc' = doc
    <3>1. req[q].call.op = "create"
      BY <2>2, <2>6 DEF StepsOf, Ops
    <3> QED BY <1>1, <1>4, <2>1, <2>6, <3>1 DEF LocalContract
  <2>7. CASE /\ Goto(q, "write")
             /\ req[q].call.op \in {"patch", "pause", "resume"}
             /\ TriggerChanged(q) => req[q].call.trigger \notin Invalid
             /\ req[q].call.op # "patch" => req[q].call.status # req[q].seen.status
    BY <1>1, <1>2, <1>4, <2>1, <2>7 DEF LocalContract, DocsStay, TriggerChanged
  <2>8. CASE \/ Goto(q, "arm") /\ req[q].at = "write"
             \/ Goto(q, "revert") /\ req[q].at = "arm"
    <3>1. req[q].call.op # "create"
      BY <2>2, <2>8 DEF StepsOf, Ops
    <3> QED BY <1>1, <1>2, <1>4, <2>1, <2>8, <3>1 DEF LocalContract, DocsStay, TriggerChanged
  <2>9. CASE Goto(q, "remove") /\ req[q].call.op = "delete"
    BY <1>1, <1>2, <1>4, <2>1, <2>9 DEF LocalContract, DocsStay
  <2> QED BY <1>1, <2>3, <2>4, <2>5, <2>6, <2>7, <2>8, <2>9, RequestGoes
<1> QED BY <1>3, <1>8, <1>9, ContractIsLocal

LEMMA CallKeepsContract ==
    ASSUME TrackInv, ContractInv, NEW q \in Clients, Call(q)
    PROVE  ContractInv'
<1> PICK s \in Schedules, c \in Calls : Lookup(q, s, c) \/ LookupName(q, s, c)
  BY DEF Call
<1>1. /\ doc' = doc /\ LifecycleTypeOK /\ ~Busy(q) /\ c.op \in Ops
      /\ \A x \in Schedules : Exists(x) => doc[x].trigger \notin Invalid
  BY CallsAssumption DEF Call, Lookup, LookupName, storeVars, TrackInv, ServiceTypeOK, CallShapes,
     ContractInv, StoredTriggersBuild
<1>2. /\ \A r \in Clients \ {q} : req'[r] = req[r]
      /\ req'[q] = [at |-> "decide", call |-> c, id |-> s, seen |-> doc[s]]
  BY <1>1 DEF Lookup, LookupName, LifecycleTypeOK
<1>3. \/ c.op # "create" /\ Exists(s)
      \/ c.op = "create" /\ doc[s].status = "absent" /\ \A p \in Clients : ~On(p, s)
  BY DEF Lookup, LookupName
<1>4. LocalContract(q)'
  <2>1. \A p \in Clients \ {q} : On(p, s)' => On(p, s)
    BY <1>2 DEF On, Busy
  <2> QED BY <1>1, <1>2, <1>3, <2>1 DEF LocalContract, Exists
<1>5. DocsStay
  BY <1>1, OtherDocsStay
<1>6. ASSUME NEW r \in Clients \ {q}, Busy(r) PROVE LocalContract(r)'
  <2>1. LocalContract(r)
    BY ContractIsLocal
  <2>2. \A p \in Clients \ {q, r} : On(p, req[r].id)' => On(p, req[r].id)
    BY <1>2 DEF On, Busy
  <2>3. On(q, req[r].id)' => s = req[r].id
    BY <1>2 DEF On
  <2>4. CASE s # req[r].id
    BY <1>1, <1>2, <1>5, <1>6, <2>2, <2>3, <2>4, OthersContract
  <2>5. CASE s = req[r].id
    <3>1. ~(req[r].call.op = "create" /\ req[r].at \in {"decide", "insert"})
      BY <1>3, <1>6, <2>1, <2>5 DEF LocalContract, On, Exists
    <3> QED BY <1>1, <1>2, <1>6, <2>1, <3>1 DEF LocalContract, TriggerChanged
  <2> QED BY <2>4, <2>5
<1>7. \A r \in Clients \ {q} : ~Busy(r) => LocalContract(r)'
  BY <1>2 DEF LocalContract, Busy
<1>8. StoredTriggersBuild'
  BY <1>1 DEF StoredTriggersBuild, Exists
<1> QED BY <1>4, <1>6, <1>7, <1>8, ContractIsLocal

\* Steps of runs, of the scheduler and of the process start no request.
LEMMA OthersKeepContract ==
    ASSUME TrackInv, ContractInv, \A r \in Clients : req'[r] = req[r] \/ req'[r] = Idle,
           \/ doc' = doc
           \/ \E s \in Schedules, k \in JobKinds : RunStep(s, k) \/ RunReplyLost(s, k)
    PROVE  ContractInv'
<1>1. DocsStay /\ \A x \in Schedules : doc[x].status = "absent" => doc'[x] = doc[x]
  BY OtherDocsStay
<1>2. \A p \in Clients, x \in Schedules : On(p, x)' => On(p, x)
  BY DEF On, Busy
<1>3. ASSUME NEW r \in Clients PROVE LocalContract(r)'
  <2>1. CASE Busy(r) /\ req'[r] = req[r]
    <3>1. req[r].id \in Schedules /\ LocalContract(r)
      BY <2>1, RequestFields, ContractIsLocal DEF TrackInv, ServiceTypeOK
    <3>2. req[r].call.op = "create" /\ req[r].at \in {"decide", "insert"} =>
             doc'[req[r].id] = doc[req[r].id]
      BY <1>1, <2>1, <3>1 DEF LocalContract
    <3> QED BY <1>1, <1>2, <2>1, <3>1, <3>2, OthersContract
  <2>2. CASE ~(Busy(r) /\ req'[r] = req[r])
    BY <2>2 DEF LocalContract, Busy
  <2> QED BY <2>1, <2>2
<1>4. StoredTriggersBuild'
  BY <1>1 DEF DocsStay, StoredTriggersBuild, Exists
<1> QED BY <1>3, <1>4, ContractIsLocal

\* A step is a request's, a run's, or one that changes no document.
LEMMA KindsOfStep ==
    ASSUME TrackInv, Next
    PROVE  \/ \E q \in Clients : Call(q)
           \/ \E q \in Clients : RequestStep(q) \/ StepFails(q) \/ ReplyLost(q)
           \/ /\ \A r \in Clients : req'[r] = req[r] \/ req'[r] = Idle
              /\ \/ doc' = doc
                 \/ \E s \in Schedules, k \in JobKinds : RunStep(s, k) \/ RunReplyLost(s, k)
<1> USE DEF storeVars, lifecycleVars, runVars
<1>1. ASSUME NEW s \in Schedules, NEW k \in JobKinds,
             Execute(s, k) \/ RunFault(s, k) \/ RunReplyFault(s, k)
      PROVE  req' = req /\ (doc' = doc \/ RunStep(s, k) \/ RunReplyLost(s, k))
  BY <1>1 DEF Execute, RunFault, RunReplyFault, RunFails
<1>2. ASSUME \/ \E s \in Schedules : Fire(s) \/ MissLast(s) \/ FireNow(s) \/ DropNow(s)
             \/ Tick
      PROVE  req' = req /\ doc' = doc
  BY <1>2 DEF Fire, MissLast, FireNow, DropNow, Tick, Expire
<1>3. ASSUME Crash \/ Shutdown \/ Boot
      PROVE  doc' = doc /\ \A r \in Clients : req'[r] = req[r] \/ req'[r] = Idle
  BY <1>3 DEF Crash, Shutdown, Stop, Boot, StartScheduler, ListActive, Resync
<1> QED BY <1>1, <1>2, <1>3 DEF Next, Serve, RequestFault, ReplyFault

LEMMA NextKeepsContract ==
    ASSUME TrackInv, ContractInv, Next
    PROVE  ContractInv'
BY KindsOfStep, CallKeepsContract, RequestKeepsContract, OthersKeepContract

LEMMA InitContract == Init => ContractInv
BY DEF Init, StoreInit, LifecycleInit, NoDoc, ContractInv, CreatesAreFresh, ReadsExisted, ChecksHold,
   StoredTriggersBuild, Exists, Busy

LEMMA StutterKeepsContract == ContractInv /\ UNCHANGED vars => ContractInv'
<1> SUFFICES ASSUME ContractInv, UNCHANGED vars PROVE ContractInv'
  OBVIOUS
<1> USE DEF vars, storeVars, lifecycleVars
<1>1. \A r \in Clients : LocalContract(r) => LocalContract(r)'
  BY DEF LocalContract, Busy, On, TriggerChanged
<1>2. StoredTriggersBuild'
  BY DEF ContractInv, StoredTriggersBuild, Exists
<1> QED BY <1>1, <1>2, ContractIsLocal

\* A create inserts where no document is or was, every other request works on
\* one that has existed, and no trigger that cannot be built is ever stored.
THEOREM ContractInvAlways == Spec => []ContractInv
<1>1. ServiceTypeOK /\ RequestsOnTrack /\ ContractInv /\ [Next]_vars => ContractInv'
  BY NextKeepsContract, StutterKeepsContract DEF TrackInv
<1> QED BY <1>1, InitContract, TypeCorrect, PTL DEF Spec

\* Deleting is final: whatever was under way when the document went, and
\* whatever fails, no write brings it back.
THEOREM DeletedForGoodAlways == Spec => DeletedForGood
<1>1. ASSUME TrackInv, ContractInv, [Next]_vars
      PROVE  [\A s \in Schedules :
                 doc[s].status = "deleted" => doc'[s].status = "deleted"]_vars
  <2>1. CASE Next
    <3>1. CASE \E q \in Clients : Call(q)
      BY <3>1 DEF Call, Lookup, LookupName, storeVars
    <3>2. CASE \E q \in Clients : RequestStep(q) \/ StepFails(q) \/ ReplyLost(q)
      BY <1>1, <3>2, RequestDocsStay DEF DocsStay
    <3>3. CASE \/ doc' = doc
               \/ \E s \in Schedules, k \in JobKinds : RunStep(s, k) \/ RunReplyLost(s, k)
      BY <1>1, <3>3, OtherDocsStay DEF DocsStay
    <3> QED BY <1>1, <2>1, <3>1, <3>2, <3>3, KindsOfStep
  <2>2. CASE UNCHANGED vars
    BY <2>2
  <2> QED BY <1>1, <2>1, <2>2
<1>2. ServiceTypeOK /\ RequestsOnTrack /\ ContractInv /\ [Next]_vars
      => [\A s \in Schedules :
             doc[s].status = "deleted" => doc'[s].status = "deleted"]_vars
  BY <1>1 DEF TrackInv
<1> QED BY <1>2, TypeCorrect, ContractInvAlways, PTL DEF Spec, DeletedForGood

-----------------------------------------------------------------------------
(* The refinement of ScheduleContract *)

\* No PATCH sets the status to active; whether such a request resets the count
\* is decided on what it read, which another one may have changed.
NoActivePatch == \A c \in Calls : c.op = "patch" => c.status # "active"

\* A document is its three fields.
LEMMA DocFields ==
    ASSUME NEW d \in Docs
    PROVE  /\ d = Contract!Fields(d.status, d.trigger, d.errors)
           /\ \A x : [d EXCEPT !.status = x] = Contract!Fields(x, d.trigger, d.errors)
           /\ \A x : [d EXCEPT !.errors = x] = Contract!Fields(d.status, d.trigger, x)
BY DEF Docs, Contract!Fields

\* Each way the step of a request changes a document is one operation of it.
LEMMA RequestImplements ==
    ASSUME TrackInv, ContractInv, NoActivePatch, NEW q \in Clients,
           RequestStep(q) \/ StepFails(q) \/ ReplyLost(q), doc' # doc
    PROVE  Contract!Next
<1> PICK s : req[q].id = s
  OBVIOUS
<1>1. /\ s \in Schedules /\ doc \in [Schedules -> Docs] /\ Busy(q) /\ LifecycleTypeOK
      /\ \/ req[q].at = "insert" /\ doc' = Inserted(q)
         \/ req[q].at = "write" /\ Exists(s) /\ doc' = Saved(q)
         \/ /\ req[q].at \in {"uncreate", "remove"}
            /\ doc' = [doc EXCEPT ![s].status = "deleted"]
         \/ /\ req[q].at = "revert" /\ Exists(s)
            /\ doc' = [doc EXCEPT ![s] = SetFields(q, doc[s], req[q].seen.status,
                                             req[q].seen.trigger, req[q].seen.errors)]
  BY RequestDocs DEF TrackInv
<1>2. /\ req[q].at \in {"insert", "armNew", "uncreate"} => req[q].call.op = "create"
      /\ req[q].at \in {"write", "arm", "revert"} => req[q].call.op \in {"patch", "pause", "resume"}
      /\ req[q].at = "remove" => req[q].call.op = "delete"
      /\ req[q].call.op # "create" => req[q].seen.status \in {"active", "paused"}
      /\ req[q].at \in {"arm", "revert"} => Rearms(q)
  BY <1>1, RequestFields DEF TrackInv, RequestsOnTrack, StepsOf, Ops
<1>3. LocalContract(q) /\ (Exists(s) => doc[s].trigger \notin Invalid)
  BY <1>1, ContractIsLocal DEF StoredTriggersBuild
<1>4. /\ req[q].call \in Calls /\ req[q].seen.errors \in Nat /\ doc[s] \in Docs
      /\ req[q].call.status \in {"keep", "active", "paused"}
      /\ req[q].call.trigger \in Triggers \cup {"keep"} /\ req[q].seen.trigger \in Triggers
      /\ doc[s].trigger \in Triggers /\ doc[s].errors \in Nat
      /\ doc[s].status \in Statuses
  BY <1>1, RequestFields DEF Docs
<1>5. CASE req[q].at = "insert" /\ doc' = Inserted(q)
  <2>1. /\ doc[s].status = "absent" /\ req[q].call.trigger \in Triggers \ Invalid
    BY <1>1, <1>2, <1>3, <1>4, <1>5, CallsAssumption DEF LocalContract
  <2>2. Contract!Becomes(s, Contract!Fields("active", req[q].call.trigger, 0))
    BY <1>5 DEF Inserted, Contract!Becomes, Contract!Fields
  <2>3. Contract!Create(s)
    BY <2>1, <2>2 DEF Contract!Create, Contract!Valid
  <2> QED BY <1>1, <2>3 DEF Contract!Next
<1>6. CASE req[q].at = "write" /\ Exists(s) /\ doc' = Saved(q)
  <2> DEFINE t == IF TriggerChanged(q) THEN req[q].call.trigger ELSE doc[s].trigger
             status == IF req[q].call.status = "keep" THEN doc[s].status ELSE req[q].call.status
             errors == IF Resuming(q) THEN 0 ELSE doc[s].errors
  <2>1. Contract!Becomes(s, Contract!Fields(status, t, errors))
    BY <1>6 DEF Saved, SetFields, Contract!Becomes, Contract!Fields
  <2>2. t \in Triggers \ Invalid
    BY <1>1, <1>3, <1>4, <1>6 DEF LocalContract, TriggerChanged
  <2>3. CASE req[q].call.status = "active"
    <3>1. Resuming(q)
      BY <1>1, <1>2, <1>3, <1>4, <1>6, <2>3 DEF LocalContract, Resuming, NoActivePatch
    <3>2. status = "active" /\ errors = 0
      BY <2>3, <3>1
    <3>3. Contract!Resume(s)
      BY <1>6, <2>1, <2>2, <3>2 DEF Contract!Resume, Contract!Valid, Contract!Exists, Exists
    <3> QED BY <1>1, <3>3 DEF Contract!Next
  <2>4. CASE req[q].call.status # "active"
    <3>1. errors = doc[s].errors /\ status \in {doc[s].status, "paused"}
      BY <1>4, <2>4 DEF Resuming
    <3>2. Contract!Edit(s)
      BY <1>6, <2>1, <2>2, <3>1 DEF Contract!Edit, Contract!Valid, Contract!Exists, Exists
    <3> QED BY <1>1, <3>2 DEF Contract!Next
  <2> QED BY <2>3, <2>4
<1>7. CASE /\ req[q].at \in {"uncreate", "remove"}
           /\ doc' = [doc EXCEPT ![s].status = "deleted"]
  <2>1. doc[s].status # "absent"
    BY <1>1, <1>2, <1>3, <1>7 DEF LocalContract
  <2>2. Exists(s)
    <3>1. doc[s].status # "deleted"
      <4>1. doc[s].status = "deleted" => doc' = doc
        BY <1>1, <1>4, <1>7 DEF Docs
      <4> QED BY <4>1
    <3> QED BY <1>4, <2>1, <3>1 DEF Exists, Statuses
  <2>3. Contract!Becomes(s, Contract!Fields("deleted", doc[s].trigger, doc[s].errors))
    <3>1. doc' = [doc EXCEPT ![s] = [doc[s] EXCEPT !.status = "deleted"]]
      BY <1>7
    <3> QED BY <1>4, <3>1, DocFields DEF Contract!Becomes
  <2>4. Contract!Delete(s)
    BY <2>2, <2>3 DEF Contract!Delete, Contract!Exists, Exists
  <2> QED BY <1>1, <2>4 DEF Contract!Next
<1>8. CASE /\ req[q].at = "revert" /\ Exists(s)
           /\ doc' = [doc EXCEPT ![s] = SetFields(q, doc[s], req[q].seen.status,
                                            req[q].seen.trigger, req[q].seen.errors)]
  <2> DEFINE t == IF TriggerChanged(q) THEN req[q].seen.trigger ELSE doc[s].trigger
             status == IF req[q].call.status = "keep" THEN doc[s].status ELSE req[q].seen.status
             errors == IF Resuming(q) THEN req[q].seen.errors ELSE doc[s].errors
  <2>1. Contract!Becomes(s, Contract!Fields(status, t, errors))
    BY <1>8 DEF SetFields, Contract!Becomes, Contract!Fields
  <2>2. t \in Triggers \ Invalid
    BY <1>1, <1>2, <1>3, <1>4, <1>8 DEF LocalContract
  <2>3. CASE Resuming(q)
    <3>1. status = "paused" /\ errors \in Nat
      BY <1>2, <1>4, <1>8, <2>3 DEF Resuming
    <3>2. doc'[s].errors = errors
      BY <1>1, <2>1 DEF Contract!Becomes, Contract!Fields
    <3>3. Contract!TakeBackResume(s)
      <4> HIDE DEF t, status, errors
      <4> QED BY <1>8, <2>1, <2>2, <3>1, <3>2
              DEF Contract!TakeBackResume, Contract!Valid, Contract!Exists, Exists
    <3> QED BY <1>1, <3>3 DEF Contract!Next
  <2>4. CASE ~Resuming(q)
    <3>1. req[q].call.status # "active"
      BY <1>1, <1>2, <1>3, <1>4, <1>8, <2>4 DEF LocalContract, Resuming, NoActivePatch
    <3>2. req[q].call.status = "keep"
      BY <1>2, <1>4, <1>8, <3>1 DEF Rearms, EditedStatus
    <3>3. Contract!Edit(s)
      BY <1>8, <2>1, <2>2, <2>4, <3>2 DEF Contract!Edit, Contract!Valid, Contract!Exists, Exists
    <3> QED BY <1>1, <3>3 DEF Contract!Next
  <2> QED BY <2>3, <2>4
<1> QED BY <1>1, <1>5, <1>6, <1>7, <1>8

\* A run counts its outcome, or pauses what has failed too often.
LEMMA RunImplements ==
    ASSUME TrackInv, ContractInv, NEW s \in Schedules, NEW k \in JobKinds,
           RunStep(s, k) \/ RunReplyLost(s, k), doc' # doc
    PROVE  Contract!Next
<1>1. doc[s] \in Docs /\ (Exists(s) => doc[s].trigger \in Triggers \ Invalid)
  BY DEF TrackInv, ServiceTypeOK, StoreTypeOK, Docs, ContractInv, StoredTriggersBuild
<1>2. CASE doc' = Cleared(s)
  <2>1. Exists(s) /\ doc' = [doc EXCEPT ![s] = [doc[s] EXCEPT !.errors = 0]]
    BY <1>2 DEF Cleared
  <2>2. Contract!CountSuccess(s)
    BY <1>1, <2>1, DocFields DEF Contract!CountSuccess, Contract!Becomes, Contract!Exists, Exists
  <2> QED BY <2>2 DEF Contract!Next
<1>3. CASE doc' = Counted(s)
  <2>1. Exists(s) /\ doc' = [doc EXCEPT ![s] = [doc[s] EXCEPT !.errors = doc[s].errors + 1]]
    BY <1>3 DEF Counted
  <2>2. Contract!CountFailure(s)
    BY <1>1, <2>1, DocFields DEF Contract!CountFailure, Contract!Becomes, Contract!Exists, Exists
  <2> QED BY <2>2 DEF Contract!Next
<1>4. CASE Failing(s) /\ doc' = [doc EXCEPT ![s].status = "paused"]
  <2>1. Exists(s) /\ doc' = [doc EXCEPT ![s] = [doc[s] EXCEPT !.status = "paused"]]
    BY <1>4 DEF Failing, Active, Exists
  <2>2. Contract!Becomes(s, Contract!Fields("paused", doc[s].trigger, doc[s].errors))
    BY <1>1, <2>1, DocFields DEF Contract!Becomes
  <2>3. Contract!Edit(s)
    BY <1>1, <2>1, <2>2 DEF Contract!Edit, Contract!Valid, Contract!Exists, Exists
  <2> QED BY <2>3 DEF Contract!Next
<1> QED BY <1>2, <1>3, <1>4 DEF RunStep, RunReplyLost, Load, Answer, RecordSuccess, RecordFailure,
           PauseFailing, LeaveAlone, DisarmFailing, Report, storeVars

\* The steps of requests and runs add up to whole operations on the document,
\* whatever races, failures and restarts there are: no edit, pause or error
\* count is lost to another coroutine's write (as long as nobody PATCHes the
\* status to active).
THEOREM KeepsContractAlways == NoActivePatch => (Spec => KeepsContract)
<1>1. Init => Contract!Init
  <2>1. SUFFICES ASSUME Init PROVE \A s \in Schedules : doc[s].status = "absent"
    BY DEF Contract!Init
  <2>2. doc = [s \in Schedules |-> NoDoc]
    BY <2>1 DEF Init, StoreInit
  <2>3. NoDoc.status = "absent"
    BY DEF NoDoc
  <2> QED BY <2>2, <2>3
<1>2. ASSUME NoActivePatch, TrackInv, ContractInv, [Next]_vars
      PROVE  [Contract!Next]_doc
  <2>1. CASE UNCHANGED vars
    BY <2>1 DEF vars, storeVars
  <2>2. CASE \E q \in Clients : Call(q)
    BY <2>2 DEF Call, Lookup, LookupName, storeVars
  <2>3. CASE \E q \in Clients : RequestStep(q) \/ StepFails(q) \/ ReplyLost(q)
    BY <1>2, <2>3, RequestImplements
  <2>4. CASE \/ doc' = doc
             \/ \E s \in Schedules, k \in JobKinds : RunStep(s, k) \/ RunReplyLost(s, k)
    BY <1>2, <2>4, RunImplements
  <2> QED BY <1>2, <2>1, <2>2, <2>3, <2>4, KindsOfStep
<1>3. SUFFICES ASSUME NoActivePatch PROVE Spec => KeepsContract
  OBVIOUS
<1>4. ServiceTypeOK /\ RequestsOnTrack /\ ContractInv /\ [Next]_vars => [Contract!Next]_doc
  BY <1>2, <1>3 DEF TrackInv
<1> QED BY <1>1, <1>4, TypeCorrect, ContractInvAlways, PTL DEF Spec, KeepsContract, Contract!Spec
==============================================================================
