---------------------------- MODULE LockstepProofs ----------------------------
(***************************************************************************)
(* Document and job agree: Lockstep and FailsSafe, for every set of        *)
(* schedules, clients, triggers and calls, every threshold and every       *)
(* number of faults.                                                       *)
(*                                                                         *)
(* Both follow from LockstepInv, which is inductive given ServiceInv: what *)
(* a half-done operation on a schedule counts on is kept by its own steps, *)
(* and no other coroutine takes a step on the same schedule without        *)
(* leaving its trace in the history.                                       *)
(***************************************************************************)
EXTENDS SchedulingServiceProofs

-----------------------------------------------------------------------------
(* The history: only resync_jobs mends what is unsaved. *)

UnsavedKept ==
    \A s \in Schedules : "unsaved" \in mishaps[s] => "unsaved" \in mishaps'[s]

LEMMA UnsavedStays ==
    ASSUME mishaps \in Harms, NEW left, NEW mended,
           History(left, mended), \A s \in Schedules : "unsaved" \notin mended[s]
    PROVE  UnsavedKept
BY DEF History, UnsavedKept, Harms

LEMMA UneventfulKeepsUnsaved ==
    ASSUME mishaps \in Harms, Uneventful
    PROVE  UnsavedKept
BY UnsavedStays DEF Uneventful, Nothing

\* What a step leaves behind on a schedule is on record.
LEMMA LeftBehind ==
    ASSUME mishaps \in Harms, NEW s \in Schedules, NEW what \in SUBSET Mishaps,
           History(Only(s, what), Nothing)
    PROVE  UnsavedKept /\ what \subseteq mishaps'[s]
<1>1. UnsavedKept
  BY UnsavedStays DEF Nothing
<1> QED BY <1>1, OnlyType, NothingType, HistoryGrows

-----------------------------------------------------------------------------
(* What has to be shown of the schedule s and the client q of a request's   *)
(* step; the rest of the invariant is untouched by it.                     *)

LocalStands(q, s) == Busy(q) /\ "raced" \notin mishaps[s] => TriggerStands(q)

LocalLock(q, s) ==
    ~Misarmed(s) =>
        /\ Swapping(q) => OldJobStands(q)
        /\ ~Swapping(q) => MadeFrom(job[s], doc[s].trigger)
        /\ ~Unfinished(q) /\ StillToFire(s) => Armed(s)

\* A request takes its steps from such a state.
LEMMA LockBefore ==
    ASSUME ServiceInv, LockstepInv, NEW q \in Clients, NEW s \in Schedules, On(q, s),
           req[q].call.op # "run"
    PROVE  /\ LocalStands(q, s)
           /\ LocalLock(q, s)
           /\ "raced" \notin mishaps[s] => \A k \in JobKinds : run[s][k] # "disarm"
<1>0. LifecycleTypeOK /\ RequestsOnTrack /\ CrowdsAreRaced
  BY DEF ServiceInv, ServiceTypeOK
<1>1. LocalStands(q, s)
  BY DEF LockstepInv, TriggersStand, LocalStands, On
<1>2. LocalLock(q, s)
  <2> SUFFICES ASSUME ~Misarmed(s)
               PROVE  /\ Swapping(q) => OldJobStands(q)
                      /\ ~Swapping(q) => MadeFrom(job[s], doc[s].trigger)
                      /\ ~Unfinished(q) /\ StillToFire(s) => Armed(s)
    BY DEF LocalLock
  <2>1. "raced" \notin mishaps[s]
    BY DEF Misarmed
  <2>2. \A r \in Clients \ {q} : On(r, s) => req[r].call.op = "run"
    BY <1>0, <2>1, Alone
  <2>3. \A r \in Clients \ {q} : On(r, s) => ~Swapping(r) /\ ~Unfinished(r)
    BY <1>0, <2>2, RequestFields
       DEF RequestsOnTrack, StepsOf, Ops, On, Swapping, Unfinished, RequestLeaves
  <2> QED BY <2>3 DEF LockstepInv, SwapsOldJob, JobIsOwn, StaysArmed, On
<1>3. "raced" \notin mishaps[s] => \A k \in JobKinds : run[s][k] # "disarm"
  BY <1>0, Alone
<1> QED BY <1>1, <1>2, <1>3

\* Where a request is untouched and its schedule is, or both are raced, what was
\* said of them still holds.
LEMMA ElsewhereStands ==
    ASSUME ServiceInv, LockstepInv, HistoryKept, UnsavedKept, UNCHANGED expired,
           NEW r \in Clients, Busy(r), req'[r] = req[r], NEW x, x = req[r].id,
           doc'[x] = doc[x] /\ job'[x] = job[x]
    PROVE  /\ LocalStands(r, x)'
           /\ Swapping(r)' /\ ~Misarmed(x)' => OldJobStands(r)'
<1>1. x \in Schedules
  BY RequestFields DEF ServiceInv, ServiceTypeOK
<1>2. ("raced" \notin mishaps'[x] => "raced" \notin mishaps[x]) /\ (~Misarmed(x)' => ~Misarmed(x))
  BY <1>1, CleanStays
<1>3. LocalStands(r, x)'
  BY <1>1, <1>2 DEF LockstepInv, TriggersStand, TriggerStands, LocalStands, Relies,
     EditedTrigger, Active
<1>4. Swapping(r)' = Swapping(r)
  BY DEF Swapping, Resuming, Busy
<1>5. Swapping(r)' /\ ~Misarmed(x)' => OldJobStands(r)'
  BY <1>1, <1>2, <1>4 DEF LockstepInv, SwapsOldJob, OldJobStands, MadeFrom, Armed, UnsavedKept
<1> QED BY <1>3, <1>5

LEMMA LockAfter ==
    ASSUME ServiceInv, LockstepInv, ServiceTypeOK', RequestsOnTrack', HistoryKept, UnsavedKept,
           NEW q \in Clients, NEW s \in Schedules, On(q, s), req[q].call.op # "run",
           UNCHANGED <<phase, listed, run, expired>>,
           \A r \in Clients \ {q} : req'[r] = req[r],
           Busy(q)' => req'[q].id = s,
           \A x \in Schedules \ {s} : doc'[x] = doc[x] /\ job'[x] = job[x],
           LocalStands(q, s)', LocalLock(q, s)'
    PROVE  LockstepInv'
<1>0. /\ LifecycleTypeOK /\ LifecycleTypeOK' /\ RequestsOnTrack /\ CrowdsAreRaced
      /\ CrowdsAreRaced' /\ phase = "up"
  BY DEF ServiceInv, ServiceTypeOK, HistoryKept, CrowdsAreRaced, RequestsOnTrack, On
<1>1. \A x \in Schedules : /\ "raced" \notin mishaps'[x] => "raced" \notin mishaps[x]
                           /\ ~Misarmed(x)' => ~Misarmed(x) /\ "raced" \notin mishaps[x]
  BY CleanStays DEF Misarmed
<1>2. ASSUME NEW r \in Clients, Busy(r)'
      PROVE  /\ LocalStands(r, req[r].id)'
             /\ Swapping(r)' /\ ~Misarmed(req[r].id)' => OldJobStands(r)'
  <2>1. CASE r = q
    BY <1>2, <2>1 DEF LocalLock
  <2>2. CASE r # q
    <3>1. Busy(r) /\ req'[r] = req[r] /\ req[r].id \in Schedules
      BY <1>0, <1>2, <2>2, RequestFields DEF Busy
    <3>2. CASE req[r].id # s
      BY <3>1, <3>2, ElsewhereStands
    <3>3. CASE req[r].id = s
      <4>1. "raced" \in mishaps[s] \/ req[r].call.op = "run"
        BY <1>0, <2>2, <3>1, <3>3, Alone DEF On
      <4>2. CASE "raced" \in mishaps'[s]
        BY <3>1, <3>3, <4>2 DEF LocalStands, Misarmed
      <4>3. CASE req[r].call.op = "run"
        <5>1. req'[r].at = "decide" /\ req'[r].call.op = "run"
          BY <1>0, <3>1, <4>3, RequestFields DEF RequestsOnTrack, StepsOf, Ops
        <5> QED BY <5>1 DEF LocalStands, TriggerStands, Relies, Swapping
      <4> QED BY <1>1, <4>1, <4>2, <4>3
    <3> QED BY <3>2, <3>3
  <2> QED BY <2>1, <2>2
<1>3. TriggersStand' /\ SwapsOldJob'
  BY <1>2 DEF TriggersStand, SwapsOldJob, LocalStands, Swapping
<1>4. ASSUME NEW x \in Schedules \ {s}
      PROVE  /\ \A r \in Clients : On(r, x) <=> On(r, x)'
             /\ \A r \in Clients : On(r, x) => r # q /\ req'[r] = req[r]
  <2>1. \A r \in Clients : On(r, x) \/ On(r, x)' => r # q
    BY <1>4 DEF On
  <2> QED BY <2>1 DEF On, Busy
<1>5. ASSUME NEW x \in Schedules, ~Misarmed(x)'
      PROVE  /\ (\E r \in Clients : On(r, x) /\ Swapping(r))' \/ MadeFrom(job[x], doc[x].trigger)'
             /\ StillToFire(x)' => Armed(x)' \/ (\E r \in Clients : On(r, x) /\ Unfinished(r))'
  <2>1. CASE x = s
    <3>1. Swapping(q)' \/ Unfinished(q)' => On(q, s)'
      BY DEF Swapping, Unfinished, On
    <3> QED BY <1>5, <2>1, <3>1 DEF LocalLock
  <2>2. CASE x # s
    <3>1. \A r \in Clients : On(r, x) =>
             /\ On(r, x)' /\ Swapping(r)' = Swapping(r) /\ Unfinished(r)' = Unfinished(r)
      BY <1>4, <2>2 DEF Swapping, Unfinished, RequestLeaves, Resuming, EditedStatus, Busy
    <3>2. StillToFire(x)' => StillToFire(x)
      BY <2>2 DEF StillToFire, Active, UnsavedKept
    <3>3. doc'[x] = doc[x] /\ job'[x] = job[x] /\ ~Misarmed(x)
      BY <1>1, <1>5, <2>2
    <3>4. MadeFrom(job[x], doc[x].trigger)' = MadeFrom(job[x], doc[x].trigger)
      BY <3>3 DEF MadeFrom
    <3> QED BY <3>1, <3>2, <3>3, <3>4 DEF LockstepInv, JobIsOwn, StaysArmed, Armed
  <2> QED BY <2>1, <2>2
<1>6. JobIsOwn' /\ StaysArmed'
  BY <1>5 DEF JobIsOwn, StaysArmed
<1>7. PausedBeforeDisarm'
  <2>1. "raced" \notin mishaps[s] => \A k \in JobKinds : run[s][k] # "disarm"
    BY <1>0, Alone
  <2>2. \A x \in Schedules \ {s} : Active(x)' = Active(x)
    BY DEF Active
  <2> QED BY <1>1, <2>1, <2>2 DEF LockstepInv, PausedBeforeDisarm
<1>8. ActiveAreListed'
  BY <1>0 DEF ActiveAreListed
<1> QED BY <1>3, <1>6, <1>7, <1>8 DEF LockstepInv

\* A step that leaves documents and jobs alone, of a request that had nothing to
\* do about the job when it took it.
LEMMA QuietLock ==
    ASSUME ServiceInv, LockstepInv, ServiceTypeOK', HistoryKept, UnsavedKept,
           NEW q \in Clients, NEW s \in Schedules,
           phase = "up", UNCHANGED <<phase, run, expired, doc, job>>,
           \A r \in Clients \ {q} : req'[r] = req[r],
           ~Swapping(q), ~Unfinished(q), Busy(q)' => req'[q].id = s,
           ~Swapping(q)', LocalStands(q, s)'
    PROVE  LockstepInv'
<1>0. LifecycleTypeOK /\ LifecycleTypeOK'
  BY DEF ServiceInv, ServiceTypeOK
<1>1. \A x \in Schedules : /\ "raced" \notin mishaps'[x] => "raced" \notin mishaps[x]
                           /\ ~Misarmed(x)' => ~Misarmed(x)
  BY CleanStays
<1>2. ASSUME NEW r \in Clients, Busy(r)'
      PROVE  /\ LocalStands(r, req[r].id)'
             /\ Swapping(r)' /\ ~Misarmed(req[r].id)' => OldJobStands(r)'
  <2>1. CASE r = q
    BY <1>2, <2>1
  <2>2. CASE r # q
    BY <1>2, <2>2, ElsewhereStands DEF Busy
  <2> QED BY <2>1, <2>2
<1>3. TriggersStand' /\ SwapsOldJob'
  BY <1>2 DEF TriggersStand, SwapsOldJob, LocalStands, Swapping
<1>4. \A x \in Schedules, r \in Clients :
         /\ On(r, x) /\ Swapping(r) => On(r, x)' /\ Swapping(r)'
         /\ On(r, x) /\ Unfinished(r) => On(r, x)' /\ Unfinished(r)'
  BY DEF On, Swapping, Unfinished, RequestLeaves, Resuming, EditedStatus, Busy
<1>5. JobIsOwn'
  <2>1. \A x \in Schedules : MadeFrom(job[x], doc[x].trigger)' = MadeFrom(job[x], doc[x].trigger)
    BY DEF MadeFrom
  <2> QED BY <1>1, <1>4, <2>1 DEF LockstepInv, JobIsOwn
<1>6. StaysArmed'
  <2>1. \A x \in Schedules : /\ StillToFire(x)' => StillToFire(x)
                             /\ Armed(x)' = Armed(x)
    BY DEF StillToFire, Active, Armed, UnsavedKept
  <2> QED BY <1>1, <1>4, <2>1 DEF LockstepInv, StaysArmed
<1>7. PausedBeforeDisarm' /\ ActiveAreListed'
  BY <1>1 DEF LockstepInv, PausedBeforeDisarm, ActiveAreListed, Active
<1> QED BY <1>3, <1>5, <1>6, <1>7 DEF LockstepInv

\* What the steps of a request on schedule s have in common.
LEMMA LockContext ==
    ASSUME ServiceInv, LockstepInv, HistoryKept, NEW q \in Clients, Busy(q),
           NEW s, req[q].id = s
    PROVE  /\ s \in Schedules /\ phase = "up" /\ LifecycleTypeOK /\ On(q, s)
           /\ doc \in [Schedules -> Docs] /\ job \in [Schedules -> Jobs]
           /\ req[q].call.op \in Ops
           /\ req[q].at = "insert" => req[q].call.op = "create"
           /\ req[q].at = "armNew" => req[q].call.op = "create"
           /\ req[q].at = "uncreate" => req[q].call.op = "create"
           /\ req[q].at = "remove" => req[q].call.op = "delete"
           /\ req[q].at \in {"write", "arm", "revert"} =>
                  req[q].call.op \in {"patch", "pause", "resume"}
           /\ req[q].at \in {"arm", "revert"} => Rearms(q)
           /\ LocalReads(q, s) /\ LocalJob(q, s)
           /\ req[q].call.op # "run" => LocalStands(q, s) /\ LocalLock(q, s)
           /\ "raced" \notin mishaps'[s] => "raced" \notin mishaps[s]
           /\ ~Misarmed(s)' => ~Misarmed(s) /\ "raced" \notin mishaps[s]
<1>1. /\ s \in Schedules /\ phase = "up" /\ LifecycleTypeOK /\ On(q, s)
      /\ doc \in [Schedules -> Docs] /\ job \in [Schedules -> Jobs]
      /\ LocalReads(q, s) /\ LocalJob(q, s)
  BY BeforeStep
<1>2. /\ req[q].at \in StepsOf(req[q].call.op) /\ req[q].call.op \in Ops
      /\ req[q].at \in {"arm", "revert"} => Rearms(q)
  BY <1>1, RequestFields DEF ServiceInv, RequestsOnTrack
<1>3. req[q].call.op # "run" => LocalStands(q, s) /\ LocalLock(q, s)
  BY <1>1, LockBefore
<1>4. /\ "raced" \notin mishaps'[s] => "raced" \notin mishaps[s]
      /\ ~Misarmed(s)' => ~Misarmed(s) /\ "raced" \notin mishaps[s]
  BY <1>1, CleanStays DEF Misarmed
<1> QED BY <1>1, <1>2, <1>3, <1>4 DEF StepsOf, Ops

LEMMA GotoOrReturn ==
    ASSUME LifecycleTypeOK, NEW q \in Clients, Busy(q)
    PROVE  /\ \A step : Goto(q, step) =>
                 /\ \A r \in Clients \ {q} : req'[r] = req[r]
                 /\ req'[q].at = step /\ req'[q].id = req[q].id
                 /\ req'[q].call = req[q].call /\ req'[q].seen = req[q].seen
                 /\ EditedStatus(q)' = EditedStatus(q) /\ Resuming(q)' = Resuming(q)
                 /\ EditedTrigger(q)' = EditedTrigger(q)
           /\ Return(q) =>
                 /\ \A r \in Clients \ {q} : req'[r] = req[r]
                 /\ ~Busy(q)' /\ ~Swapping(q)' /\ ~Unfinished(q)'
<1>1. ASSUME NEW step, Goto(q, step)
      PROVE  /\ \A r \in Clients \ {q} : req'[r] = req[r]
             /\ req'[q].at = step /\ req'[q].id = req[q].id
             /\ req'[q].call = req[q].call /\ req'[q].seen = req[q].seen
             /\ EditedStatus(q)' = EditedStatus(q) /\ Resuming(q)' = Resuming(q)
  BY <1>1, AfterGoto
<1>2. \A step : Goto(q, step) => EditedTrigger(q)' = EditedTrigger(q)
  BY <1>1 DEF EditedTrigger
<1>3. Return(q) => (\A r \in Clients \ {q} : req'[r] = req[r]) /\ ~Busy(q)'
  BY AfterReturn
<1> QED BY <1>1, <1>2, <1>3 DEF Swapping, Unfinished

\* The steps that check, refuse or queue, and a new request's lookup.
LEMMA ChecksKeepLock ==
    ASSUME ServiceInv, LockstepInv, ServiceTypeOK', RequestsOnTrack', HistoryKept, UnsavedKept,
           NEW q \in Clients, UNCHANGED <<phase, listed, run>>,
           \/ CreateAccepted(q) \/ NothingToDo(q) \/ SaveOnly(q) \/ SaveThenArm(q)
           \/ Refused(q) \/ QueueRunNow(q)
    PROVE  LockstepInv'
<1> DEFINE s == req[q].id
<1>0. Busy(q) /\ req[q].at = "decide"
  BY DEF CreateAccepted, NothingToDo, SaveOnly, SaveThenArm, Refused, QueueRunNow, Reaches, At
<1>1. UNCHANGED <<doc, job, expired>>
  BY DEF CreateAccepted, NothingToDo, SaveOnly, SaveThenArm, Refused, QueueRunNow, storeVars
<1>2. ~Swapping(q) /\ ~Unfinished(q)
  BY <1>0 DEF Swapping, Unfinished, RequestLeaves
<1>3. /\ s \in Schedules /\ phase = "up" /\ LifecycleTypeOK
      /\ req[q].call.op # "run" => LocalStands(q, s)
      /\ "raced" \notin mishaps'[s] => "raced" \notin mishaps[s]
  BY <1>0, LockContext
<1>4. CASE Return(q)
  BY <1>0, <1>1, <1>2, <1>3, <1>4, GotoOrReturn, QuietLock DEF LocalStands
<1>5. ASSUME NEW step \in {"insert", "write"}, Goto(q, step),
             step = "write" => req[q].call.op \in {"patch", "pause", "resume"}
      PROVE  LockstepInv'
  <2>1. /\ \A r \in Clients \ {q} : req'[r] = req[r]
        /\ req'[q].at = step /\ req'[q].id = s
        /\ req'[q].call = req[q].call /\ req'[q].seen = req[q].seen
    BY <1>0, <1>3, <1>5, GotoOrReturn
  <2>2. LocalStands(q, s)'
    BY <1>0, <1>1, <1>3, <1>5, <2>1 DEF LocalStands, TriggerStands, Relies
  <2>3. ~Swapping(q)'
    BY <1>5, <2>1 DEF Swapping
  <2> QED BY <1>1, <1>2, <1>3, <2>1, <2>2, <2>3, QuietLock
<1>6. \/ Return(q)
      \/ Goto(q, "insert")
      \/ Goto(q, "write") /\ req[q].call.op \in {"patch", "pause", "resume"}
  BY DEF CreateAccepted, NothingToDo, SaveOnly, SaveThenArm, Refused, QueueRunNow, Reaches
<1> QED BY <1>4, <1>5, <1>6

LEMMA CallKeepsLock ==
    ASSUME ServiceInv, LockstepInv, ServiceTypeOK', HistoryKept, UnsavedKept,
           NEW q \in Clients, Call(q)
    PROVE  LockstepInv'
<1> PICK s \in Schedules, c \in Calls : Lookup(q, s, c) \/ LookupName(q, s, c)
  BY DEF Call
<1>1. /\ phase = "up" /\ UNCHANGED <<doc, job, expired, phase, run>> /\ LifecycleTypeOK
      /\ ~Busy(q)
  BY DEF Call, Lookup, LookupName, storeVars, runVars, processVars, ServiceInv, ServiceTypeOK
<1>2. /\ \A r \in Clients \ {q} : req'[r] = req[r]
      /\ req'[q] = [at |-> "decide", call |-> c, id |-> s, seen |-> doc[s]]
  BY <1>1 DEF Lookup, LookupName, LifecycleTypeOK
<1>3. ~Swapping(q) /\ ~Unfinished(q) /\ ~Swapping(q)'
  BY <1>1, <1>2 DEF Swapping, Unfinished
<1>4. LocalStands(q, s)'
  BY <1>1, <1>2 DEF LocalStands, TriggerStands, Relies
<1> QED BY <1>1, <1>2, <1>3, <1>4, QuietLock

\* The steps that change the job.
LEMMA JobStepsKeepLock ==
    ASSUME ServiceInv, LockstepInv, ServiceTypeOK', RequestsOnTrack', HistoryKept, UnsavedKept,
           NEW q \in Clients, NEW s, req[q].id = s, UNCHANGED <<phase, listed, run>>,
           \/ ArmNew(q) \/ ArmEdited(q) \/ DisarmThenSave(q) \/ DisarmThenDelete(q)
    PROVE  LockstepInv'
<1>0. Busy(q) /\ req[q].call.op # "run"
  <2>1. Busy(q)
    BY DEF ArmNew, ArmEdited, DisarmThenSave, DisarmThenDelete, Reaches, At
  <2> QED BY <2>1, LockContext
          DEF ArmNew, ArmEdited, DisarmThenSave, DisarmThenDelete, Reaches, At
<1>1. UNCHANGED <<doc, expired>>
  BY DEF ArmNew, ArmEdited, DisarmThenSave, DisarmThenDelete
<1>2. /\ s \in Schedules /\ phase = "up" /\ LifecycleTypeOK /\ On(q, s)
      /\ doc \in [Schedules -> Docs] /\ job \in [Schedules -> Jobs]
      /\ LocalStands(q, s) /\ LocalLock(q, s)
      /\ "raced" \notin mishaps'[s] => "raced" \notin mishaps[s]
      /\ ~Misarmed(s)' => ~Misarmed(s) /\ "raced" \notin mishaps[s]
  BY <1>0, LockContext
<1>3. CASE ArmNew(q) \/ ArmEdited(q)
  <2>1. PICK t : /\ job' = [job EXCEPT ![s] = ArmedWith(t)]
                 /\ Return(q)
                 /\ \/ req[q].at = "armNew" /\ t = req[q].call.trigger
                    \/ req[q].at = "arm" /\ t = EditedTrigger(q)
    BY <1>3 DEF ArmNew, ArmEdited, Arm, At
  <2>2. "raced" \notin mishaps[s] => t = doc[s].trigger
    BY <1>0, <1>2, <2>1 DEF LocalStands, TriggerStands
  <2>3. \A x \in Schedules \ {s} : job'[x] = job[x]
    BY <1>2, <2>1
  <2>4. job'[s] = ArmedWith(t)
    BY <1>2, <2>1
  <2>5. doc[s].trigger \in Triggers
    BY <1>2 DEF Docs
  <2>6. LocalLock(q, s)'
    BY <1>0, <1>1, <1>2, <2>1, <2>2, <2>4, <2>5, GotoOrReturn, TriggerAssumption
       DEF LocalLock, MadeFrom, ArmedWith, Armed
  <2> QED BY <1>0, <1>1, <1>2, <2>1, <2>3, <2>6, GotoOrReturn, LockAfter DEF LocalStands
<1>4. CASE DisarmThenSave(q) \/ DisarmThenDelete(q)
  <2>1. PICK step \in {"write", "remove"} :
           /\ job' = [job EXCEPT ![s] = "none"]
           /\ Goto(q, step)
           /\ step = "write" => EditedStatus(q) # "active"
           /\ step = "write" => req[q].call.op \in {"patch", "pause", "resume"}
           /\ step = "remove" => req[q].call.op = "delete"
    BY <1>4 DEF DisarmThenSave, DisarmThenDelete, Disarm, Reaches
  <2>2. req[q].at = "decide"
    BY <1>4 DEF DisarmThenSave, DisarmThenDelete, Reaches, At
  <2>3. /\ \A x \in Schedules \ {s} : job'[x] = job[x]
        /\ job'[s] = "none"
    BY <1>2, <2>1
  <2>4. /\ \A r \in Clients \ {q} : req'[r] = req[r]
        /\ req'[q].at = step /\ req'[q].id = s
        /\ req'[q].call = req[q].call /\ req'[q].seen = req[q].seen
        /\ EditedStatus(q)' = EditedStatus(q)
    BY <1>0, <1>2, <2>1, GotoOrReturn
  <2>5. LocalStands(q, s)'
    BY <1>0, <1>1, <1>2, <2>1, <2>2, <2>4 DEF LocalStands, TriggerStands, Relies
  <2>6. ~Swapping(q)' /\ (Busy(q)' => Unfinished(q)')
    BY <2>1, <2>4 DEF Swapping, Unfinished, RequestLeaves
  <2>7. Busy(q)'
    BY <2>1, <2>4 DEF Busy, Idle
  <2>8. LocalLock(q, s)'
    BY <2>3, <2>6, <2>7 DEF LocalLock, MadeFrom
  <2> QED BY <1>0, <1>1, <1>2, <2>3, <2>4, <2>5, <2>8, LockAfter
<1> QED BY <1>3, <1>4

\* What a save does to the schedule's trigger and status.
LEMMA SavedFields ==
    ASSUME LifecycleTypeOK, doc \in [Schedules -> Docs], NEW q \in Clients, Busy(q),
           NEW s \in Schedules, req[q].id = s, doc' = Saved(q)
    PROVE  /\ \A x \in Schedules \ {s} : doc'[x] = doc[x]
           /\ doc'[s].trigger = IF TriggerChanged(q) THEN req[q].call.trigger
                                                     ELSE doc[s].trigger
           /\ doc'[s].status = IF req[q].call.status = "keep" THEN doc[s].status
                                                          ELSE req[q].call.status
           /\ doc'[s].errors = IF Resuming(q) THEN 0 ELSE doc[s].errors
BY DEF Saved, SetFields

\* What the save of a schedule means for its job.
LEMMA SaveKeepsLock ==
    ASSUME ServiceInv, LockstepInv, HistoryKept, UnsavedKept, UNCHANGED <<job, expired>>,
           NEW q \in Clients, Busy(q), NEW s, req[q].id = s,
           req[q].at = "write", doc' = Saved(q), ~Misarmed(s)'
    PROVE  /\ \A x \in Schedules \ {s} : doc'[x] = doc[x]
           /\ doc'[s].trigger = EditedTrigger(q)
           /\ Rearms(q) /\ ~Resuming(q) =>
                 /\ MadeFrom(job[s], req[q].seen.trigger)
                 /\ "unsaved" \notin mishaps'[s] /\ req[q].seen.trigger \notin expired => Armed(s)
           /\ Rearms(q) /\ Resuming(q) => job[s] = "none"
           /\ ~Rearms(q) => /\ MadeFrom(job[s], doc'[s].trigger)
                            /\ StillToFire(s)' => Armed(s)'
<1>1. /\ s \in Schedules /\ LifecycleTypeOK /\ doc \in [Schedules -> Docs]
      /\ req[q].call.op \in {"patch", "pause", "resume"}
      /\ LocalReads(q, s) /\ LocalJob(q, s) /\ LocalStands(q, s) /\ LocalLock(q, s)
      /\ ~Misarmed(s) /\ "raced" \notin mishaps[s]
  BY LockContext
<1>2. /\ doc[s].trigger = req[q].seen.trigger
      /\ doc[s].status = req[q].seen.status
  BY <1>1 DEF LocalStands, TriggerStands, LocalReads, Relies
<1>3. /\ \A x \in Schedules \ {s} : doc'[x] = doc[x]
      /\ doc'[s].trigger = EditedTrigger(q)
      /\ doc'[s].status = EditedStatus(q)
  BY <1>1, <1>2, SavedFields DEF EditedTrigger, EditedStatus, TriggerChanged
<1>4. "unsaved" \notin mishaps'[s] => "unsaved" \notin mishaps[s]
  BY <1>1 DEF UnsavedKept
<1>5. ~Swapping(q) /\ MadeFrom(job[s], doc[s].trigger)
  BY <1>1 DEF LocalLock, Swapping
<1>6. CASE EditedStatus(q) # "active"
  <2>1. job[s] = "none"
    BY <1>1, <1>6 DEF LocalJob, Unarmed, Armed
  <2> QED BY <1>3, <1>6, <2>1 DEF Rearms, MadeFrom, StillToFire, Active
<1>7. CASE EditedStatus(q) = "active" /\ Resuming(q)
  <2>1. job[s] = "none"
    BY <1>1, <1>7 DEF LocalJob, Unarmed, Armed
  <2> QED BY <1>3, <1>7, <2>1 DEF Rearms
<1>8. CASE EditedStatus(q) = "active" /\ ~Resuming(q)
  <2>1. Active(s)
    BY <1>2, <1>8 DEF Resuming, EditedStatus, Active
  <2>2. ~Unfinished(q)
    BY <1>8 DEF Unfinished, RequestLeaves
  <2>3. "unsaved" \notin mishaps'[s] /\ doc[s].trigger \notin expired => Armed(s)
    BY <1>1, <1>4, <2>1, <2>2 DEF LocalLock, StillToFire
  <2>4. ~Rearms(q) => doc'[s].trigger = doc[s].trigger
    BY <1>2, <1>3, <1>8 DEF Rearms, EditedTrigger, TriggerChanged
  <2> QED BY <1>2, <1>3, <1>5, <1>8, <2>3, <2>4 DEF StillToFire, Armed, MadeFrom
<1> QED BY <1>6, <1>7, <1>8

\* The steps that write the document.
LEMMA DocStepsKeepLock ==
    ASSUME ServiceInv, LockstepInv, ServiceTypeOK', RequestsOnTrack', HistoryKept, UnsavedKept,
           NEW q \in Clients, NEW s, req[q].id = s, UNCHANGED <<phase, listed, run>>,
           \/ Insert(q) \/ Uncreate(q) \/ Write(q) \/ WriteMissed(q) \/ Revert(q) \/ Remove(q)
    PROVE  LockstepInv'
<1>0. Busy(q)
  BY DEF Insert, Uncreate, Write, WriteMissed, Revert, Remove, At
<1>1. UNCHANGED <<job, expired>>
  BY DEF Insert, Uncreate, Write, WriteMissed, Revert, Remove, storeVars
<1>2. /\ s \in Schedules /\ phase = "up" /\ LifecycleTypeOK /\ On(q, s)
      /\ doc \in [Schedules -> Docs] /\ job \in [Schedules -> Jobs]
      /\ LocalReads(q, s) /\ LocalJob(q, s)
      /\ "raced" \notin mishaps'[s] => "raced" \notin mishaps[s]
      /\ ~Misarmed(s)' => ~Misarmed(s) /\ "raced" \notin mishaps[s]
  BY <1>0, LockContext
<1>3. /\ req[q].at = "insert" => req[q].call.op = "create"
      /\ req[q].at = "uncreate" => req[q].call.op = "create"
      /\ req[q].at = "remove" => req[q].call.op = "delete"
      /\ req[q].at \in {"write", "arm", "revert"} => req[q].call.op \in {"patch", "pause", "resume"}
      /\ req[q].at \in {"arm", "revert"} => Rearms(q)
  BY <1>0, LockContext
<1>4. req[q].call.op # "run"
  BY <1>3 DEF Insert, Uncreate, Write, WriteMissed, Revert, Remove, At
<1>5. LocalStands(q, s) /\ LocalLock(q, s)
  BY <1>0, <1>4, LockContext
<1>6. ASSUME Return(q)
      PROVE  /\ \A r \in Clients \ {q} : req'[r] = req[r]
             /\ ~Busy(q)' /\ ~Swapping(q)' /\ ~Unfinished(q)' /\ LocalStands(q, s)'
  BY <1>0, <1>2, <1>6, GotoOrReturn DEF LocalStands
<1>7. ASSUME NEW step, Goto(q, step)
      PROVE  /\ \A r \in Clients \ {q} : req'[r] = req[r]
             /\ req'[q].at = step /\ req'[q].id = s
             /\ req'[q].call = req[q].call /\ req'[q].seen = req[q].seen
             /\ EditedStatus(q)' = EditedStatus(q) /\ Resuming(q)' = Resuming(q)
             /\ EditedTrigger(q)' = EditedTrigger(q)
  BY <1>0, <1>2, <1>7, GotoOrReturn
<1>a. CASE Insert(q)
  <2>1. Goto(q, "armNew") /\ req[q].at = "insert" /\ req[q].call.op = "create"
    BY <1>3, <1>a DEF Insert, At
  <2>2. /\ \A x \in Schedules \ {s} : doc'[x] = doc[x]
        /\ doc'[s].trigger = req[q].call.trigger
    BY <1>2, <1>a DEF Insert, Inserted
  <2>3. LocalStands(q, s)'
    BY <1>7, <2>1, <2>2 DEF LocalStands, TriggerStands, Relies
  <2>4. ~Misarmed(s)' => job[s] = "none"
    BY <1>0, <1>2, <2>1 DEF LocalJob, Unarmed, Armed
  <2>5. Unfinished(q)' /\ ~Swapping(q)'
    BY <1>7, <2>1 DEF Unfinished, RequestLeaves, Swapping, Busy, Idle
  <2>6. LocalLock(q, s)'
    BY <1>1, <2>4, <2>5 DEF LocalLock, MadeFrom
  <2> QED BY <1>1, <1>2, <1>4, <1>7, <2>1, <2>2, <2>3, <2>6, LockAfter
<1>b. CASE Uncreate(q) \/ Remove(q)
  <2>1. /\ Return(q) /\ req[q].at \in {"uncreate", "remove"}
        /\ doc' = [doc EXCEPT ![s].status = "deleted"]
    BY <1>b DEF Uncreate, Remove, At
  <2>2. /\ \A x \in Schedules \ {s} : doc'[x] = doc[x]
        /\ ~Active(s)'
    BY <1>2, <2>1 DEF Active, Docs
  <2>3. ~Misarmed(s)' => job[s] = "none"
    BY <1>0, <1>2, <1>3, <2>1 DEF LocalJob, Unarmed, Armed
  <2>4. LocalLock(q, s)'
    BY <1>1, <1>6, <2>1, <2>2, <2>3 DEF LocalLock, MadeFrom, StillToFire
  <2> QED BY <1>1, <1>2, <1>4, <1>6, <2>1, <2>2, <2>4, LockAfter
<1>c. CASE Write(q)
  <2>1. req[q].at = "write" /\ doc' = Saved(q)
    BY <1>c DEF Write, At
  <2>2. \A x \in Schedules \ {s} : doc'[x] = doc[x]
    BY <1>0, <1>2, <2>1, SavedFields
  <2>3. ~Misarmed(s)' =>
           /\ doc'[s].trigger = EditedTrigger(q)
           /\ Rearms(q) /\ ~Resuming(q) =>
                 /\ MadeFrom(job[s], req[q].seen.trigger)
                 /\ "unsaved" \notin mishaps'[s] /\ req[q].seen.trigger \notin expired => Armed(s)
           /\ Rearms(q) /\ Resuming(q) => job[s] = "none"
           /\ ~Rearms(q) => /\ MadeFrom(job[s], doc'[s].trigger)
                            /\ StillToFire(s)' => Armed(s)'
    BY <1>0, <1>1, <2>1, SaveKeepsLock
  <2>4. "raced" \notin mishaps[s] => doc'[s].trigger = EditedTrigger(q)
    BY <1>0, <1>2, <1>3, <1>5, <2>1, SavedFields
       DEF LocalStands, TriggerStands, Relies, EditedTrigger, TriggerChanged
  <2>5. CASE Return(q) /\ ~Rearms(q)
    <3>1. LocalLock(q, s)'
      BY <1>1, <1>6, <2>3, <2>5 DEF LocalLock, MadeFrom
    <3> QED BY <1>1, <1>2, <1>4, <1>6, <2>2, <2>5, <3>1, LockAfter
  <2>6. CASE Goto(q, "arm") /\ Rearms(q)
    <3>1. LocalStands(q, s)'
      BY <1>2, <1>7, <2>4, <2>6 DEF LocalStands, TriggerStands, Relies
    <3>2. Unfinished(q)' /\ Swapping(q)' = ~Resuming(q)
      BY <1>7, <2>6 DEF Unfinished, RequestLeaves, Swapping, Busy, Idle
    <3>3. LocalLock(q, s)'
      BY <1>1, <1>7, <2>3, <2>6, <3>2 DEF LocalLock, MadeFrom, OldJobStands, Armed
    <3> QED BY <1>1, <1>2, <1>4, <1>7, <2>2, <2>6, <3>1, <3>3, LockAfter
  <2> QED BY <1>c, <2>5, <2>6 DEF Write
<1>d. CASE WriteMissed(q)
  <2>1. req[q].at = "write" /\ UNCHANGED doc /\ ~Exists(s)
    BY <1>d DEF WriteMissed, At, storeVars
  <2>2. Misarmed(s)' /\ "raced" \in mishaps'[s]
    <3>1. req[q].seen.status \in {"active", "paused"}
      BY <1>0, <1>3, <2>1 DEF ServiceInv, RequestsOnTrack
    <3> QED BY <1>0, <1>2, <1>3, <2>1, <3>1 DEF LocalReads, Relies, Exists, Misarmed
  <2>3. LocalStands(q, s)' /\ LocalLock(q, s)'
    BY <2>2 DEF LocalStands, LocalLock
  <2>4. Return(q) \/ Goto(q, "arm")
    BY <1>d DEF WriteMissed
  <2> QED BY <1>1, <1>2, <1>4, <1>6, <1>7, <2>1, <2>3, <2>4, LockAfter
<1>e. CASE Revert(q)
  <2>1. Return(q) /\ req[q].at = "revert" /\ Rearms(q)
    BY <1>3, <1>e DEF Revert, At
  <2>2. \A x \in Schedules \ {s} : doc'[x] = doc[x]
    BY <1>2, <1>e DEF Revert
  <2>3. ASSUME ~Misarmed(s)'
        PROVE  /\ MadeFrom(job[s], doc'[s].trigger)
               /\ StillToFire(s)' => Armed(s)
    <3>1. Active(s) /\ ~Misarmed(s)
      BY <1>0, <1>2, <1>5, <2>1, <2>3 DEF LocalStands, TriggerStands
    <3>2. doc' = [doc EXCEPT ![s] = SetFields(q, doc[s], req[q].seen.status,
                                              req[q].seen.trigger, req[q].seen.errors)]
      BY <1>e, <3>1 DEF Revert, Exists, Active
    <3>3. /\ doc'[s].trigger = IF TriggerChanged(q) THEN req[q].seen.trigger ELSE doc[s].trigger
          /\ doc'[s].status = IF req[q].call.status = "keep" THEN doc[s].status
                                                         ELSE req[q].seen.status
      BY <1>2, <3>2 DEF SetFields
    <3>4. CASE Resuming(q)
      <4>1. job[s] = "none"
        BY <1>0, <1>2, <2>1, <3>1, <3>4 DEF LocalJob, Unarmed, Armed
      <4>2. ~Active(s)'
        BY <3>3, <3>4 DEF Resuming, Active
      <4> QED BY <4>1, <4>2 DEF MadeFrom, StillToFire
    <3>5. CASE ~Resuming(q)
      <4>1. Swapping(q)
        BY <1>0, <2>1, <3>5 DEF Swapping
      <4>2. doc'[s].trigger = req[q].seen.trigger
        BY <2>1, <3>3, <3>5 DEF Rearms
      <4>3. OldJobStands(q)
        BY <1>5, <3>1, <4>1 DEF LocalLock
      <4> QED BY <1>1, <1>2, <4>2, <4>3 DEF OldJobStands, StillToFire, MadeFrom, UnsavedKept
    <3> QED BY <3>4, <3>5
  <2>4. LocalLock(q, s)'
    BY <1>1, <1>6, <2>1, <2>3 DEF LocalLock, MadeFrom, Armed
  <2> QED BY <1>1, <1>2, <1>4, <1>6, <2>1, <2>2, <2>4, LockAfter
<1> QED BY <1>a, <1>b, <1>c, <1>d, <1>e

\* A fault leaves on record what the request had still to do.
LEMMA FaultsKeepLock ==
    ASSUME ServiceInv, LockstepInv, ServiceTypeOK', RequestsOnTrack', HistoryKept, UnsavedKept,
           NEW q \in Clients, NEW s, req[q].id = s, RequestFault(q) \/ ReplyFault(q)
    PROVE  LockstepInv'
<1>0. Busy(q) /\ UNCHANGED <<phase, listed, run, expired>> /\ mishaps \in Harms
  BY FaultMoves DEF RequestFault, ReplyFault, StepFails, ReplyLost, WriteReplyLost, ArmReplyLost,
     DisarmReplyLost, runVars, processVars, storeVars, ServiceInv, ServiceTypeOK, Harms
<1>2. /\ s \in Schedules /\ phase = "up" /\ LifecycleTypeOK /\ On(q, s)
      /\ doc \in [Schedules -> Docs] /\ job \in [Schedules -> Jobs]
      /\ LocalReads(q, s) /\ LocalJob(q, s)
      /\ "raced" \notin mishaps'[s] => "raced" \notin mishaps[s]
      /\ ~Misarmed(s)' => ~Misarmed(s) /\ "raced" \notin mishaps[s]
  BY <1>0, LockContext
<1>3. /\ req[q].at \in {"insert", "armNew"} => req[q].call.op = "create"
      /\ req[q].at \in {"write", "arm", "revert"} => req[q].call.op \in {"patch", "pause", "resume"}
      /\ req[q].at \in {"arm", "revert"} => Rearms(q)
  BY <1>0, LockContext
<1>5. req[q].call.op # "run" => LocalStands(q, s) /\ LocalLock(q, s)
  BY <1>0, LockContext
<1>6. ASSUME Return(q)
      PROVE  /\ \A r \in Clients \ {q} : req'[r] = req[r]
             /\ ~Busy(q)' /\ ~Swapping(q)' /\ ~Unfinished(q)' /\ LocalStands(q, s)'
  BY <1>0, <1>2, <1>6, GotoOrReturn DEF LocalStands
<1>7. ASSUME NEW step, Goto(q, step)
      PROVE  /\ \A r \in Clients \ {q} : req'[r] = req[r]
             /\ req'[q].at = step /\ req'[q].id = s
             /\ req'[q].call = req[q].call /\ req'[q].seen = req[q].seen
             /\ EditedStatus(q)' = EditedStatus(q) /\ Resuming(q)' = Resuming(q)
             /\ EditedTrigger(q)' = EditedTrigger(q)
  BY <1>0, <1>2, <1>7, GotoOrReturn
<1>a. CASE RequestFault(q)
  <2>1. StepFails(q) /\ UNCHANGED <<doc, job>>
    BY <1>a DEF RequestFault, StepFails, storeVars
  <2>2. CASE At(q, "armNew") \/ At(q, "arm")
    <3>1. /\ \/ req[q].at = "armNew" /\ Goto(q, "uncreate")
             \/ req[q].at = "arm" /\ Goto(q, "revert")
          /\ req[q].call.op # "run"
      BY <1>3, <2>1, <2>2 DEF StepFails, At
    <3>2. LocalStands(q, s)'
      BY <1>0, <1>2, <1>3, <1>5, <1>7, <2>1, <3>1
         DEF LocalStands, LocalReads, TriggerStands, Relies, Active
    <3>3. Unfinished(q)' /\ Swapping(q)' = Swapping(q)
      BY <1>0, <1>7, <3>1 DEF Unfinished, RequestLeaves, Swapping, Busy, Idle
    <3>4. Swapping(q) /\ OldJobStands(q) => OldJobStands(q)'
      BY <1>0, <1>2, <1>7, <2>1, <3>1 DEF OldJobStands, MadeFrom, Armed, UnsavedKept
    <3>5. LocalLock(q, s)'
      BY <1>0, <1>2, <1>5, <2>1, <3>1, <3>3, <3>4 DEF LocalLock, MadeFrom
    <3> QED BY <1>0, <1>2, <1>7, <2>1, <3>1, <3>2, <3>5, LockAfter
  <2>3. CASE ~(At(q, "armNew") \/ At(q, "arm"))
    <3>1. Return(q) /\ History(Only(s, RequestLeaves(q)), Nothing)
      BY <1>0, <1>a, <2>1, <2>3 DEF StepFails, RequestFault
    <3>2. RequestLeaves(q) \subseteq mishaps'[s]
      BY <1>0, <1>2, <3>1, LeftBehind, LeavesTypes
    <3>3. CASE req[q].call.op = "run"
      <4>1. req[q].at = "decide"
        BY <1>0, <1>2, <3>3, RequestFields DEF ServiceInv, RequestsOnTrack, StepsOf, Ops
      <4>2. ~Swapping(q) /\ ~Unfinished(q)
        BY <4>1 DEF Swapping, Unfinished, RequestLeaves
      <4> QED BY <1>0, <1>2, <1>6, <2>1, <3>1, <4>2, QuietLock
    <3>4. CASE req[q].call.op # "run"
      <4>1. Unfinished(q) => "unsaved" \in mishaps'[s]
        BY <3>2 DEF Unfinished
      <4>2. Swapping(q) => Misarmed(s)'
        BY <3>2 DEF Swapping, RequestLeaves, Misarmed
      <4>3. LocalLock(q, s)'
        BY <1>0, <1>2, <1>5, <1>6, <2>1, <3>1, <3>4, <4>1, <4>2
           DEF LocalLock, MadeFrom, StillToFire, Active, Armed, UnsavedKept
      <4> QED BY <1>0, <1>2, <1>6, <2>1, <3>1, <3>4, <4>3, LockAfter
    <3> QED BY <3>3, <3>4
  <2> QED BY <2>2, <2>3
<1>8. ReplyFault(q) => LostReplyLeaves(q) \subseteq mishaps'[s]
  BY LostReplyMarks DEF ServiceInv
<1>b. CASE ReplyFault(q) /\ WriteReplyLost(q)
  <2>1. Return(q) /\ job' = job
    BY <1>b DEF WriteReplyLost
  <2>3. CASE req[q].at = "insert" /\ doc' = Inserted(q)
    <3>1. "unsaved" \in mishaps'[s]
      BY <1>8, <1>b, <2>3 DEF LostReplyLeaves
    <3>2. ~Misarmed(s)' => job[s] = "none"
      BY <1>0, <1>2, <1>3, <2>3 DEF LocalJob, Unarmed, Armed
    <3>3. \A x \in Schedules \ {s} : doc'[x] = doc[x]
      BY <1>2, <2>3 DEF Inserted
    <3>4. LocalLock(q, s)'
      BY <1>0, <1>6, <2>1, <3>1, <3>2 DEF LocalLock, MadeFrom, StillToFire
    <3> QED BY <1>0, <1>2, <1>3, <1>6, <2>1, <2>3, <3>3, <3>4, LockAfter
  <2>4. CASE req[q].at = "write" /\ doc' = Saved(q)
    <3>1. \A x \in Schedules \ {s} : doc'[x] = doc[x]
      BY <1>0, <1>2, <2>4, SavedFields
    <3>2. /\ Rearms(q) /\ ~Resuming(q) => Misarmed(s)'
          /\ Rearms(q) /\ Resuming(q) => "unsaved" \in mishaps'[s]
      BY <1>8, <1>b, <2>4 DEF LostReplyLeaves, Misarmed
    <3>3. ~Misarmed(s)' =>
             /\ Rearms(q) /\ Resuming(q) => job[s] = "none"
             /\ ~Rearms(q) => /\ MadeFrom(job[s], doc'[s].trigger)
                              /\ StillToFire(s)' => Armed(s)'
      BY <1>0, <2>1, <2>4, SaveKeepsLock
    <3>4. LocalLock(q, s)'
      BY <1>0, <1>6, <2>1, <3>2, <3>3 DEF LocalLock, MadeFrom, StillToFire
    <3> QED BY <1>0, <1>2, <1>3, <1>6, <2>1, <2>4, <3>1, <3>4, LockAfter
  <2> QED BY <1>b, <2>3, <2>4 DEF WriteReplyLost, At
<1>c. CASE ReplyFault(q) /\ ArmReplyLost(q)
  <2>1. /\ \/ req[q].at = "armNew" /\ Goto(q, "uncreate")
           \/ req[q].at = "arm" /\ Goto(q, "revert")
        /\ doc' = doc /\ req[q].call.op # "run"
    BY <1>3, <1>c DEF ArmReplyLost, At
  <2>2. \A x \in Schedules \ {s} : job'[x] = job[x]
    BY <1>2, <1>c DEF ArmReplyLost, Arm
  <2>3. LocalStands(q, s)'
    BY <1>0, <1>2, <1>3, <1>5, <1>7, <2>1
       DEF LocalStands, LocalReads, TriggerStands, Relies, Active
  <2>4. LocalLock(q, s)'
    BY <1>8, <1>c, <2>1 DEF LostReplyLeaves, LocalLock, Misarmed
  <2> QED BY <1>0, <1>2, <1>7, <2>1, <2>2, <2>3, <2>4, LockAfter
<1>d. CASE ReplyFault(q) /\ DisarmReplyLost(q)
  <2>1. Return(q) /\ doc' = doc /\ req[q].at = "decide" /\ req[q].call.op # "run"
    BY <1>d DEF DisarmReplyLost, Disarms, Reaches, At
  <2>2. job'[s] = "none" /\ \A x \in Schedules \ {s} : job'[x] = job[x]
    BY <1>2, <1>d DEF DisarmReplyLost, Disarm
  <2>3. LocalLock(q, s)'
    BY <1>6, <1>8, <1>d, <2>1, <2>2 DEF LostReplyLeaves, LocalLock, MadeFrom, StillToFire
  <2> QED BY <1>0, <1>2, <1>6, <2>1, <2>2, <2>3, LockAfter
<1> QED BY <1>a, <1>b, <1>c, <1>d DEF ReplyFault, ReplyLost

\* Steps of no request that remove a job only where it has no fire left, where
\* the schedule is not active, or where that is on record.
LEMMA CalmLock ==
    ASSUME ServiceInv, LockstepInv, HistoryKept, UnsavedKept, UNCHANGED req,
           expired \subseteq expired',
           \A s \in Schedules :
               /\ doc'[s].trigger = doc[s].trigger
               /\ Active(s)' => Active(s)
               /\ \/ Active(s) => Active(s)'
                  \/ "raced" \in mishaps'[s]
                  \/ \A r \in Clients : On(r, s) => req[r].call.op = "run"
               /\ \/ job'[s] = job[s]
                  \/ job'[s] = "none" /\ \/ job[s] \in expired
                                         \/ mishaps'[s] \cap {"raced", "unsaved"} # {}
                                         \/ /\ ~Active(s)'
                                            /\ \A r \in Clients : On(r, s) => req[r].call.op = "run"
               /\ \A k \in JobKinds : run'[s][k] = "disarm" =>
                      run[s][k] = "disarm" \/ ~Active(s)',
           ActiveAreListed'
    PROVE  LockstepInv'
<1>0. /\ LifecycleTypeOK /\ RequestsOnTrack /\ "dormant" \notin expired /\ "none" \notin expired
      /\ \A s \in Schedules : "raced" \notin mishaps'[s] => "raced" \notin mishaps[s]
      /\ \A s \in Schedules : ~Misarmed(s)' => ~Misarmed(s)
  BY CleanStays, TriggerAssumption DEF ServiceInv, ServiceTypeOK, StoreTypeOK
<1>1. \A r \in Clients :
         /\ Busy(r)' = Busy(r)
         /\ Busy(r) => req[r].id \in Schedules
         /\ \A s \in Schedules : On(r, s)' = On(r, s)
         /\ Swapping(r)' = Swapping(r) /\ Unfinished(r)' = Unfinished(r)
         /\ Busy(r) /\ req[r].call.op = "run" => req[r].at = "decide"
  BY <1>0, RequestFields
     DEF RequestsOnTrack, StepsOf, Ops, Busy, On, Swapping, Unfinished, RequestLeaves, Resuming,
         EditedStatus
<1>2. \A s \in Schedules : \A t :
         MadeFrom(job[s], t) => MadeFrom(job[s], t)' /\ (job[s] \in expired => t \in expired)
  BY <1>0 DEF MadeFrom
<1>3. TriggersStand'
  <2> SUFFICES ASSUME NEW r \in Clients, Busy(r), "raced" \notin mishaps'[req[r].id]
               PROVE  TriggerStands(r)'
    BY <1>1 DEF TriggersStand
  <2>1. TriggerStands(r)
    BY <1>0, <1>1 DEF LockstepInv, TriggersStand
  <2>2. req[r].at = "revert" => Active(req[r].id)'
    BY <1>0, <1>1, <2>1 DEF TriggerStands, On
  <2> QED BY <1>1, <2>1, <2>2 DEF TriggerStands, Relies, EditedTrigger
<1>4. SwapsOldJob'
  <2> SUFFICES ASSUME NEW r \in Clients, Swapping(r), ~Misarmed(req[r].id)'
               PROVE  OldJobStands(r)'
    BY <1>1 DEF SwapsOldJob
  <2> DEFINE s == req[r].id
  <2>1. /\ s \in Schedules /\ ~Misarmed(s) /\ OldJobStands(r) /\ On(r, s)
        /\ req[r].call.op # "run" /\ "raced" \notin mishaps'[s]
    BY <1>0, <1>1 DEF LockstepInv, SwapsOldJob, Swapping, On, Misarmed
  <2>2. job'[s] = job[s] \/ (job'[s] = "none" /\ (job[s] \in expired \/ "unsaved" \in mishaps'[s]))
    BY <2>1
  <2> QED BY <1>2, <2>1, <2>2 DEF OldJobStands, MadeFrom, Armed, UnsavedKept
<1>5. JobIsOwn'
  BY <1>0, <1>1, <1>2 DEF LockstepInv, JobIsOwn, MadeFrom, Misarmed
<1>6. StaysArmed'
  <2> SUFFICES ASSUME NEW s \in Schedules, StillToFire(s)', ~Misarmed(s)', ~Armed(s)'
               PROVE  \E r \in Clients : On(r, s) /\ Unfinished(r)
    BY <1>1 DEF StaysArmed
  <2>1. StillToFire(s) /\ ~Misarmed(s)
    BY <1>0 DEF StillToFire, UnsavedKept
  <2>2. Armed(s) => job[s] \in expired
    BY DEF StillToFire, Misarmed, Armed
  <2>3. CASE \E r \in Clients : On(r, s) /\ Swapping(r)
    BY <2>3 DEF On, Swapping, Unfinished, RequestLeaves
  <2>4. CASE ~\E r \in Clients : On(r, s) /\ Swapping(r)
    <3>1. MadeFrom(job[s], doc[s].trigger)
      BY <2>1, <2>4 DEF LockstepInv, JobIsOwn
    <3>2. ~Armed(s)
      BY <1>2, <2>1, <2>2, <3>1 DEF StillToFire
    <3> QED BY <2>1, <3>2 DEF LockstepInv, StaysArmed
  <2> QED BY <2>3, <2>4
<1>7. PausedBeforeDisarm'
  BY <1>0 DEF LockstepInv, PausedBeforeDisarm
<1> QED BY <1>3, <1>4, <1>5, <1>6, <1>7 DEF LockstepInv

LEMMA RunsKeepLock ==
    ASSUME ServiceInv, LockstepInv, HistoryKept,
           NEW s \in Schedules, NEW k \in JobKinds,
           Execute(s, k) \/ RunFault(s, k) \/ RunReplyFault(s, k)
    PROVE  LockstepInv'
<1>0. /\ UNCHANGED <<req, phase, listed, expired>>
      /\ doc \in [Schedules -> Docs] /\ job \in [Schedules -> Jobs] /\ RunTypeOK
      /\ CrowdsAreRaced /\ ActiveAreListed /\ mishaps \in Harms
  BY DEF Execute, RunStep, RunFault, RunReplyFault, RunFails, RunReplyLost, Load, Answer,
     RecordSuccess, RecordFailure, PauseFailing, LeaveAlone, DisarmFailing, Report, storeVars,
     lifecycleVars, processVars,
     ServiceInv, ServiceTypeOK, StoreTypeOK, LockstepInv, Harms
<1>1. UnsavedKept
  <2>1. CASE Execute(s, k)
    <3> DEFINE mended == Only(s, IF run[s][k] = "check" THEN {"unchecked"} ELSE {})
    <3>1. \A x \in Schedules : "unsaved" \notin mended[x]
      BY DEF Only, Nothing
    <3>2. History(Nothing, mended)
      BY <2>1 DEF Execute
    <3> HIDE DEF mended
    <3> QED BY <1>0, <3>1, <3>2, UnsavedStays
  <2>2. CASE RunFault(s, k) \/ RunReplyFault(s, k)
    BY <1>0, <2>2, UnsavedStays DEF RunFault, RunReplyFault, Nothing
  <2> QED BY <2>1, <2>2
<1>2. \A x \in Schedules : "raced" \notin mishaps'[x] => "raced" \notin mishaps[x]
  BY CleanStays
<1>3. CASE \/ run[s][k] \notin {"check", "disarm"}
           \/ Execute(s, k) /\ LeaveAlone(s, k)
           \/ RunFault(s, k)
  <2>1. /\ job' = job
        /\ \A x \in Schedules : doc'[x].trigger = doc[x].trigger /\ doc'[x].status = doc[x].status
    BY <1>0, <1>3 DEF Execute, RunStep, RunFault, RunReplyFault, RunFails, RunReplyLost, Load,
       Answer, RecordSuccess, Cleared, RecordFailure, Counted, PauseFailing, LeaveAlone,
       DisarmFailing, Report, storeVars, Docs
  <2>2. PICK stage \in Stages \ {"disarm"} : run' = [run EXCEPT ![s][k] = stage]
    BY <1>3 DEF Execute, RunStep, RunFault, RunReplyFault, RunFails, RunReplyLost, Load, Answer,
       RecordSuccess, RecordFailure, PauseFailing, LeaveAlone, DisarmFailing, Report, Advance, Stages
  <2>3. \A x \in Schedules, j \in JobKinds : run'[x][j] = "disarm" => run[x][j] = "disarm"
    BY <1>0, <2>2 DEF RunTypeOK
  <2>4. ActiveAreListed'
    BY <1>0, <2>1 DEF ActiveAreListed, Active
  <2> QED BY <1>0, <1>1, <2>1, <2>3, <2>4, CalmLock DEF Active
<1>4. ASSUME run[s][k] = "check", UNCHANGED job, doc' = [doc EXCEPT ![s].status = "paused"],
             NEW stage, Advance(s, k, stage)
      PROVE  LockstepInv'
  <2>1. /\ job' = job
        /\ doc' = [doc EXCEPT ![s].status = "paused"]
        /\ run' = [run EXCEPT ![s][k] = stage]
    BY <1>4 DEF Advance
  <2>2. /\ \A x \in Schedules : doc'[x].trigger = doc[x].trigger
        /\ \A x \in Schedules \ {s} : doc'[x] = doc[x]
        /\ ~Active(s)'
    BY <1>0, <2>1 DEF Docs, Active
  <2>3. "raced" \in mishaps'[s] \/ \A r \in Clients : On(r, s) => req[r].call.op = "run"
    BY <1>0, <1>2, <1>4, RunAlone
  <2>4. \A x \in Schedules, j \in JobKinds : run'[x][j] = "disarm" => run[x][j] = "disarm" \/ x = s
    BY <1>0, <2>1 DEF RunTypeOK
  <2>5. \A x \in Schedules : Active(x)' => Active(x)
    BY <2>2 DEF Active
  <2>6. \A x \in Schedules \ {s} : Active(x)' = Active(x)
    BY <2>2 DEF Active
  <2>7. ActiveAreListed'
    BY <1>0, <2>5 DEF ActiveAreListed
  <2> QED BY <1>0, <1>1, <2>1, <2>2, <2>3, <2>4, <2>5, <2>6, <2>7, CalmLock
<1>5. ASSUME run[s][k] = "disarm", UNCHANGED doc, Disarm(s),
             NEW stage \in {"report", "free"}, Advance(s, k, stage)
      PROVE  LockstepInv'
  <2>1. /\ run[s][k] = "disarm" /\ doc' = doc
        /\ job' = [job EXCEPT ![s] = "none"]
        /\ run' = [run EXCEPT ![s][k] = stage]
    BY <1>5 DEF Disarm, Advance
  <2>2. /\ job'[s] = "none"
        /\ \A x \in Schedules \ {s} : job'[x] = job[x]
    BY <1>0, <2>1
  <2>3. \A x \in Schedules, j \in JobKinds : run'[x][j] = "disarm" => run[x][j] = "disarm"
    BY <1>0, <2>1 DEF RunTypeOK
  <2>4. "raced" \in mishaps'[s] \/ (/\ ~Active(s)
                                    /\ \A r \in Clients : On(r, s) => req[r].call.op = "run")
    BY <1>0, <1>2, <2>1, RunAlone DEF LockstepInv, PausedBeforeDisarm
  <2>5. ActiveAreListed' /\ \A x \in Schedules : Active(x)' = Active(x)
    BY <1>0, <2>1 DEF ActiveAreListed, Active
  <2> QED BY <1>0, <1>1, <2>1, <2>2, <2>3, <2>4, <2>5, CalmLock
<1>6. CASE Execute(s, k)
  <2>1. CASE PauseFailing(s, k)
    BY <1>4, <2>1 DEF PauseFailing
  <2>2. CASE DisarmFailing(s, k)
    BY <1>5, <2>2 DEF DisarmFailing
  <2>3. CASE ~PauseFailing(s, k) /\ ~DisarmFailing(s, k)
    BY <1>3, <1>6, <2>3
       DEF Execute, RunStep, Load, Answer, RecordSuccess, RecordFailure, Report
  <2> QED BY <2>1, <2>2, <2>3
<1>7. CASE RunReplyFault(s, k)
  <2>1. RunReplyLost(s, k) /\ Advance(s, k, "free")
    BY <1>7 DEF RunReplyFault, RunReplyLost
  <2>2. CASE run[s][k] = "check"
    BY <1>4, <2>1, <2>2 DEF RunReplyLost
  <2>3. CASE run[s][k] = "disarm"
    BY <1>5, <2>1, <2>3 DEF RunReplyLost
  <2> QED BY <1>3, <2>2, <2>3
<1> QED BY <1>3, <1>6, <1>7

LEMMA SchedulerKeepsLock ==
    ASSUME ServiceInv, LockstepInv, HistoryKept,
           \/ \E s \in Schedules : Fire(s) \/ MissLast(s) \/ FireNow(s) \/ DropNow(s)
           \/ Tick
    PROVE  LockstepInv'
<1>0. /\ UNCHANGED <<doc, req, phase, listed>> /\ expired \subseteq expired'
      /\ job \in [Schedules -> Jobs] /\ RunTypeOK /\ ActiveAreListed /\ mishaps \in Harms
      /\ Uneventful
  BY DEF Fire, MissLast, FireNow, DropNow, Tick, Expire, lifecycleVars, processVars, ServiceInv,
     ServiceTypeOK, StoreTypeOK, LockstepInv, Harms
<1>1. UnsavedKept
  BY <1>0, UneventfulKeepsUnsaved
<1>2. \A x \in Schedules : job'[x] = job[x] \/ (job'[x] = "none" /\ job[x] \in expired)
  <2>1. UNCHANGED job \/ \E s \in Schedules : AfterFire(s)
    BY DEF Fire, MissLast, FireNow, DropNow, Tick, Expire
  <2> QED BY <1>0, <2>1 DEF AfterFire, LastFire
<1>3. \A x \in Schedules, k \in JobKinds : run'[x][k] = "disarm" => run[x][k] = "disarm"
  <2>1. UNCHANGED run \/ \E s \in Schedules, k \in JobKinds : Advance(s, k, "load")
    BY DEF Fire, MissLast, FireNow, DropNow, Tick, runVars, JobKinds
  <2> QED BY <1>0, <2>1 DEF Advance, RunTypeOK
<1>4. ActiveAreListed' /\ \A x \in Schedules : Active(x)' = Active(x)
  BY <1>0 DEF ActiveAreListed, Active
<1> QED BY <1>0, <1>1, <1>2, <1>3, <1>4, CalmLock

\* Stopping records what every operation in flight leaves behind.
LEMMA StopKeepsLock ==
    ASSUME ServiceInv, LockstepInv, HistoryKept, Stop
    PROVE  LockstepInv'
<1>1. /\ UNCHANGED <<doc, job, expired>> /\ phase' = "down"
      /\ \A r \in Clients : ~Busy(r)' /\ ~Swapping(r)'
      /\ \A s \in Schedules, k \in JobKinds : run'[s][k] # "disarm"
      /\ History([s \in Schedules |-> StopLeaves(s)], Nothing)
  BY DEF Stop, Busy, Swapping, NoRuns, storeVars
<1>2. mishaps \in Harms /\ [s \in Schedules |-> StopLeaves(s)] \in Harms
  BY LeavesTypes DEF ServiceInv, ServiceTypeOK, Harms
<1>3. UnsavedKept /\ \A s \in Schedules : StopLeaves(s) \subseteq mishaps'[s]
  <2>1. UnsavedKept
    BY <1>1, <1>2, UnsavedStays DEF Nothing
  <2> QED BY <1>1, <1>2, <2>1, NothingType, HistoryGrows
<1>4. \A s \in Schedules : ~Misarmed(s)' => ~Misarmed(s)
  BY CleanStays
<1>5. ASSUME NEW s \in Schedules, NEW r \in Clients, On(r, s)
      PROVE  /\ Swapping(r) => Misarmed(s)'
             /\ Unfinished(r) => "unsaved" \in mishaps'[s]
  <2>1. RequestLeaves(r) \subseteq StopLeaves(s)
    BY <1>5 DEF StopLeaves
  <2>2. Swapping(r) => "misarmed" \in RequestLeaves(r)
    BY DEF Swapping, RequestLeaves
  <2> QED BY <1>3, <2>1, <2>2 DEF Unfinished, Misarmed
<1>6. JobIsOwn'
  BY <1>1, <1>4, <1>5 DEF LockstepInv, JobIsOwn, MadeFrom
<1>7. StaysArmed'
  BY <1>1, <1>3, <1>4, <1>5
     DEF LockstepInv, StaysArmed, StillToFire, Active, Armed, UnsavedKept
<1>8. TriggersStand' /\ SwapsOldJob' /\ PausedBeforeDisarm' /\ ActiveAreListed'
  BY <1>1 DEF TriggersStand, SwapsOldJob, PausedBeforeDisarm, ActiveAreListed
<1> QED BY <1>6, <1>7, <1>8 DEF LockstepInv

\* resync_jobs arms every active schedule that has fires to come and no job, but
\* those it records as failed.
LEMMA ResyncKeepsLock ==
    ASSUME ServiceInv, LockstepInv, HistoryKept, NEW failed \in SUBSET Schedules, Resync(failed)
    PROVE  LockstepInv'
<1>1. /\ UNCHANGED <<doc, req, run, expired>> /\ phase = "resync" /\ phase' = "up"
      /\ mishaps \in Harms /\ past \subseteq expired /\ doc \in [Schedules -> Docs]
  BY DEF Resync, lifecycleVars, runVars, ServiceInv, ServiceTypeOK, StoreTypeOK, Harms
<1>2. \A r \in Clients : ~Busy(r) /\ ~Busy(r)'
  BY <1>1 DEF ServiceInv, RequestsOnTrack, Busy
<1>3. \A s \in Schedules : ~Misarmed(s)' => ~Misarmed(s)
  BY CleanStays
<1>4. \A s \in Schedules : Misarmed(s) \/ MadeFrom(job[s], doc[s].trigger)
  BY <1>2 DEF LockstepInv, JobIsOwn, On
<1>5. JobIsOwn'
  <2>1. \A s \in Schedules : \/ job'[s] = job[s]
                             \/ job'[s] = ArmedWith(doc[s].trigger)
    BY DEF Resync
  <2> QED BY <1>1, <1>3, <1>4, <2>1 DEF JobIsOwn, MadeFrom, ArmedWith
<1>6. StaysArmed'
  <2> SUFFICES ASSUME NEW s \in Schedules, StillToFire(s)', ~Misarmed(s)', ~Armed(s)'
               PROVE  FALSE
    BY DEF StaysArmed
  <2>1. Active(s) /\ s \in listed /\ doc[s].trigger \notin expired /\ ~Misarmed(s)
    BY <1>1, <1>3 DEF LockstepInv, ActiveAreListed, StillToFire, Active
  <2>2. s \notin failed => Armed(s)'
    <3>1. doc[s].trigger \in Triggers
      BY <1>1 DEF Docs
    <3>2. ArmedWith(doc[s].trigger) # "none"
      BY <3>1, TriggerAssumption DEF ArmedWith
    <3> QED BY <1>1, <2>1, <3>2 DEF Resync, Armed
  <2>3. s \in failed /\ ~Armed(s)
    BY <2>2 DEF Resync, Armed
  <2>4. "unsaved" \notin mishaps[s]
    BY <1>1, <2>3 DEF Resync, History, Harms, StillToFire
  <2> QED BY <1>2, <2>1, <2>3, <2>4 DEF LockstepInv, StaysArmed, StillToFire, On
<1>7. TriggersStand' /\ SwapsOldJob'
  BY <1>2 DEF TriggersStand, SwapsOldJob, Swapping
<1>8. PausedBeforeDisarm' /\ ActiveAreListed'
  <2>1. \A s \in Schedules : "raced" \notin mishaps'[s] => "raced" \notin mishaps[s]
    BY CleanStays
  <2> QED BY <1>1, <2>1 DEF LockstepInv, PausedBeforeDisarm, ActiveAreListed, Active
<1> QED BY <1>5, <1>6, <1>7, <1>8 DEF LockstepInv

LEMMA ProcessKeepsLock ==
    ASSUME ServiceInv, LockstepInv, HistoryKept, Crash \/ Shutdown \/ Boot
    PROVE  LockstepInv'
<1> USE DEF storeVars, lifecycleVars, runVars
<1>0. mishaps \in Harms
  BY DEF ServiceInv, ServiceTypeOK, Harms
<1>1. CASE Crash \/ Shutdown
  BY <1>1, StopKeepsLock DEF Crash, Shutdown
<1>2. ASSUME NEW kept \in SUBSET Schedules, StartScheduler(kept)
      PROVE  LockstepInv'
  <2> DEFINE left == [s \in Schedules |-> IF s \in kept THEN {} ELSE {"unsaved"}]
  <2>1. UNCHANGED <<doc, req, run, expired>> /\ phase' = "starting" /\ History(left, Nothing)
    BY <1>2 DEF StartScheduler
  <2>2. left \in Harms
    BY DEF Mishaps, Harms
  <2>3. UnsavedKept
    <3> HIDE DEF left
    <3> QED BY <1>0, <2>1, UnsavedStays DEF Nothing
  <2>4. \A s \in Schedules : left[s] \subseteq mishaps'[s]
    <3> HIDE DEF left
    <3> QED BY <1>0, <2>1, <2>2, NothingType, HistoryGrows
  <2>5. \A s \in Schedules : job'[s] = job[s] \/ (job'[s] = "none" /\ "unsaved" \in mishaps'[s])
    BY <1>2, <2>4 DEF StartScheduler
  <2>6. ActiveAreListed' /\ \A s \in Schedules : Active(s)' = Active(s)
    BY <2>1 DEF ActiveAreListed, Active
  <2> QED BY <2>1, <2>3, <2>5, <2>6, CalmLock
<1>3. CASE ListActive
  <2>1. UNCHANGED <<doc, job, req, run, expired>> /\ UnsavedKept
    BY <1>0, <1>3, UneventfulKeepsUnsaved DEF ListActive
  <2>2. ActiveAreListed'
    BY <1>3, <2>1 DEF ListActive, ActiveAreListed, Active
  <2> QED BY <2>1, <2>2, CalmLock DEF Active
<1>4. ASSUME NEW failed \in SUBSET Schedules, Resync(failed)
      PROVE  LockstepInv'
  BY <1>4, ResyncKeepsLock
<1> QED BY <1>1, <1>2, <1>3, <1>4 DEF Boot

-----------------------------------------------------------------------------

LEMMA NextKeepsLock ==
    ASSUME ServiceInv, LockstepInv, Next
    PROVE  LockstepInv'
<1>0. ServiceTypeOK' /\ RequestsOnTrack' /\ HistoryKept
  BY NextTypes DEF ServiceInv
<1>1. ASSUME NEW r \in Clients, Call(r) \/ Serve(r) \/ RequestFault(r) \/ ReplyFault(r)
      PROVE  LockstepInv'
  <2>1. mishaps \in Harms /\ \E x : req[r].id = x
    BY DEF ServiceInv, ServiceTypeOK, Harms
  <2>2. UnsavedKept
    <3>1. CASE Call(r) \/ Serve(r)
      BY <2>1, <3>1, UneventfulKeepsUnsaved DEF Call, Serve
    <3>2. CASE RequestFault(r) \/ ReplyFault(r)
      BY <2>1, <3>2, UnsavedStays DEF RequestFault, ReplyFault, Nothing
    <3> QED BY <1>1, <3>1, <3>2
  <2>3. CASE Call(r)
    BY <1>0, <2>2, <2>3, CallKeepsLock
  <2>4. CASE Serve(r)
    <3>1. RequestStep(r) /\ UNCHANGED <<phase, listed, run>>
      BY <2>4 DEF Serve, runVars, processVars
    <3> QED BY <1>0, <2>1, <2>2, <3>1, ChecksKeepLock, JobStepsKeepLock, DocStepsKeepLock
            DEF RequestStep
  <2>5. CASE RequestFault(r) \/ ReplyFault(r)
    BY <1>0, <2>1, <2>2, <2>5, FaultsKeepLock
  <2> QED BY <1>1, <2>3, <2>4, <2>5
<1>2. ASSUME NEW s \in Schedules, NEW k \in JobKinds,
             Execute(s, k) \/ RunFault(s, k) \/ RunReplyFault(s, k)
      PROVE  LockstepInv'
  BY <1>0, <1>2, RunsKeepLock
<1> QED BY <1>0, <1>1, <1>2, SchedulerKeepsLock, ProcessKeepsLock DEF Next

LEMMA InitLock == Init => LockstepInv
<1> SUFFICES ASSUME Init PROVE LockstepInv
  OBVIOUS
<1>1. /\ \A r \in Clients : ~Busy(r)
      /\ \A s \in Schedules : ~Active(s) /\ job[s] = "none"
      /\ \A s \in Schedules, k \in JobKinds : run[s][k] # "disarm"
      /\ phase = "up"
  BY DEF Init, StoreInit, LifecycleInit, RunInit, NoRuns, NoDoc, Busy, Active
<1> QED BY <1>1 DEF LockstepInv, TriggersStand, SwapsOldJob, Swapping, JobIsOwn, MadeFrom,
           StaysArmed, StillToFire, PausedBeforeDisarm, ActiveAreListed

LEMMA StutterKeepsLock == LockstepInv /\ UNCHANGED vars => LockstepInv'
<1> SUFFICES ASSUME LockstepInv, UNCHANGED vars PROVE LockstepInv'
  OBVIOUS
<1> USE DEF vars, storeVars, lifecycleVars, runVars, processVars, historyVars
<1>1. TriggersStand' /\ SwapsOldJob'
  BY DEF LockstepInv, TriggersStand, TriggerStands, Relies, EditedTrigger, Busy, Active, Misarmed,
     SwapsOldJob, Swapping, Resuming, OldJobStands, MadeFrom, Armed
<1>2. JobIsOwn'
  BY DEF LockstepInv, JobIsOwn, MadeFrom, On, Swapping, Resuming, Busy, Misarmed
<1>3. StaysArmed'
  BY DEF LockstepInv, StaysArmed, StillToFire, Active, Armed, Misarmed, On, Unfinished,
     RequestLeaves, EditedStatus, Resuming, Busy
<1>4. PausedBeforeDisarm' /\ ActiveAreListed'
  BY DEF LockstepInv, PausedBeforeDisarm, ActiveAreListed, Active
<1> QED BY <1>1, <1>2, <1>3, <1>4 DEF LockstepInv

\* What half-done operations count on about triggers and jobs always holds.
THEOREM LockstepInvAlways == Spec => []LockstepInv
<1>1. ServiceInv /\ LockstepInv /\ [Next]_vars => LockstepInv'
  BY NextKeepsLock, StutterKeepsLock
<1> QED BY <1>1, InitLock, ServiceInvAlways, PTL DEF Spec

\* Between operations nothing of a schedule is half done.
LEMMA RestIsQuiet ==
    ASSUME ServiceInv, NEW s \in Schedules, AtRest(s)
    PROVE  /\ \A r \in Clients : On(r, s) => ~Swapping(r) /\ ~Unfinished(r)
           /\ \A k \in JobKinds : run[s][k] # "disarm"
<1>1. \A r \in Clients : On(r, s) => req[r].call.op = "run"
  <2>1. \A r \in Clients : On(r, s) /\ req[r].call.op # "run" => <<"request", r>> \in Editors(s)
    BY DEF Editors
  <2> QED BY <2>1 DEF AtRest
<1>2. \A k \in JobKinds : run[s][k] # "disarm"
  <2>1. \A k \in JobKinds : run[s][k] = "disarm" => <<"run", k>> \in Editors(s)
    BY DEF Editors
  <2> QED BY <2>1 DEF AtRest
<1>3. LifecycleTypeOK /\ RequestsOnTrack
  BY DEF ServiceInv, ServiceTypeOK
<1>4. \A r \in Clients : On(r, s) => req[r].at = "decide"
  BY <1>1, <1>3 DEF RequestsOnTrack, StepsOf, On
<1> QED BY <1>2, <1>4 DEF Swapping, Unfinished, RequestLeaves

\* Between operations document and job agree, whatever requests, runs, failures
\* and restarts there have been: an active schedule with fires to come is armed
\* with the trigger its document has, any other schedule has no job; unless two
\* coroutines met on the schedule, an operation on it was cut short and resync_jobs
\* has not been there since (`unsaved'), or was cut where resync_jobs does not
\* notice the wrong job (`misarmed').
THEOREM LockstepAlways == Spec => []Lockstep
<1>1. ServiceInv /\ LockstepInv => Lockstep
  <2> SUFFICES ASSUME ServiceInv, LockstepInv, NEW s \in Schedules,
                      AtRest(s), ~Misarmed(s), "unsaved" \notin mishaps[s]
               PROVE  InLockstep(s)
    BY DEF Lockstep
  <2>1. MadeFrom(job[s], doc[s].trigger)
    BY RestIsQuiet DEF LockstepInv, JobIsOwn
  <2>2. StillToFire(s) => Armed(s)
    BY RestIsQuiet DEF LockstepInv, StaysArmed
  <2>3. ~Active(s) => job[s] = "none"
    BY RestIsQuiet DEF ServiceInv, OnlyActiveArmed, Armed
  <2> QED BY <2>1, <2>2, <2>3 DEF InLockstep, MadeFrom, StillToFire, Armed
<1> QED BY <1>1, ServiceInvAlways, LockstepInvAlways, PTL

\* At rest the job of a schedule on which no two coroutines met is missing or that
\* of the active document's own trigger, whatever has failed, with the exceptions
\* that `misarmed' names: an operation cut between the save of an active schedule's
\* trigger and its arm, or whose undoing failed too; an arm that took effect and
\* raised; an auto-pause cut before its disarm.
THEOREM FailsSafeAlways == Spec => []FailsSafe
<1>1. ServiceInv /\ LockstepInv => FailsSafe
  <2> SUFFICES ASSUME ServiceInv, LockstepInv, NEW s \in Schedules,
                      AtRest(s), ~Misarmed(s), Armed(s)
               PROVE  Active(s) /\ job[s] \in {"dormant", doc[s].trigger}
    BY DEF FailsSafe
  <2>1. MadeFrom(job[s], doc[s].trigger)
    BY RestIsQuiet DEF LockstepInv, JobIsOwn
  <2>2. Active(s)
    BY RestIsQuiet DEF ServiceInv, OnlyActiveArmed
  <2> QED BY <2>1, <2>2 DEF MadeFrom, Armed
<1> QED BY <1>1, ServiceInvAlways, LockstepInvAlways, PTL
==============================================================================
