-------------------------- MODULE SchedulingService --------------------------
(***************************************************************************)
(* One process of the service: the request coroutines of Lifecycle and the *)
(* fires of Run interleave on its event loop, APScheduler submits the      *)
(* fires, and the process is stopped, killed and started again             *)
(* (server.py's lifespan, scheduler.py, lifecycle.resync_jobs).            *)
(*                                                                         *)
(* The documents and the jobs outlive the process; requests and runs in    *)
(* flight do not.                                                          *)
(***************************************************************************)
EXTENDS Lifecycle, Run

CONSTANT MaxFaults     \* bound of the model on failing calls, kills and lost jobs

ASSUME MaxFaultsAssumption == MaxFaults \in Nat

VARIABLES
    phase,     \* of the process: "down", "starting", "resync" or "up"
    past,      \* the triggers expired when resync_jobs read its clock
    listed,    \* the active schedules resync_jobs found and is to go through
    faults,    \* how many faults there have been
    mishaps    \* history: mishaps[s] says what has befallen schedule s

processVars == <<phase, past, listed>>
historyVars == <<faults, mishaps>>
vars == <<storeVars, lifecycleVars, runVars, processVars, historyVars>>

Phases == {"down", "starting", "resync", "up"}

(***************************************************************************)
(* The history variable records, for the properties only:                  *)
(*   raced      two coroutines were changing s at the same time            *)
(*   unsaved    a failure or a restart cut an operation on s short where   *)
(*              the document or the job was already changed; resync_jobs   *)
(*              is there to repair it                                      *)
(*   misarmed   one was cut short where the job of s is left wrong, which  *)
(*              resync_jobs does not notice                                *)
(*   unchecked  a failed run was cut short before its auto-pause check     *)
(***************************************************************************)
Mishaps == {"raced", "unsaved", "misarmed", "unchecked"}

ServiceTypeOK ==
    /\ StoreTypeOK
    /\ LifecycleTypeOK
    /\ RunTypeOK
    /\ phase \in Phases
    /\ past \subseteq expired
    /\ listed \subseteq Schedules
    /\ faults \in 0..MaxFaults
    /\ mishaps \in [Schedules -> SUBSET Mishaps]

Init ==
    /\ StoreInit
    /\ LifecycleInit
    /\ RunInit
    /\ phase = "up"
    /\ past = {}
    /\ listed = {}
    /\ faults = 0
    /\ mishaps = [s \in Schedules |-> {}]

-----------------------------------------------------------------------------
(* Who is changing a schedule: its document's status or trigger, or its job. *)

Editors(s) ==
    {<<"request", r>> : r \in {c \in Clients : On(c, s) /\ req[c].call.op # "run"}}
    \cup {<<"run", k>> : k \in {j \in JobKinds : run[s][j] \in {"check", "disarm"}}}
    \cup {<<"resync", x>> : x \in listed \cap {s}}

Crowded(s) == \E a, b \in Editors(s) : a # b

\* What is left behind when request r ends where it stands.
RequestLeaves(r) ==
    (IF \/ req[r].at \in {"armNew", "uncreate", "arm", "revert", "remove"}
        \/ req[r].at = "write" /\ EditedStatus(r) # "active"
     THEN {"unsaved"} ELSE {})
    \cup
    (IF req[r].at \in {"arm", "revert"} /\ ~Resuming(r) THEN {"misarmed"} ELSE {})

RunLeaves(s, k) ==
    CASE run[s][k] = "check"  -> {"unchecked"}
      [] run[s][k] = "disarm" -> {"misarmed"}
      [] OTHER -> {}

StopLeaves(s) ==
    UNION ({RequestLeaves(r) : r \in {c \in Clients : On(c, s)}}
           \cup {RunLeaves(s, k) : k \in JobKinds})

\* The history of a step that leaves left[s] behind and puts right mended[s].
History(left, mended) ==
    mishaps' = [s \in Schedules |->
                  (mishaps[s] \ mended[s]) \cup left[s]
                  \cup (IF Crowded(s)' THEN {"raced"} ELSE {})]

Nothing == [s \in Schedules |-> {}]

Only(s, what) == [Nothing EXCEPT ![s] = what]

Uneventful == History(Nothing, Nothing) /\ UNCHANGED faults

Fault == faults < MaxFaults /\ faults' = faults + 1

-----------------------------------------------------------------------------
(* Requests are served once start-up is over. *)

Call(r) ==
    /\ phase = "up"
    /\ \E s \in Schedules, c \in Calls : Lookup(r, s, c) \/ LookupName(r, s, c)
    /\ UNCHANGED <<runVars, processVars>>
    /\ Uneventful

Serve(r) ==
    /\ RequestStep(r)
    /\ UNCHANGED <<runVars, processVars>>
    /\ Uneventful

RequestFault(r) ==
    /\ Fault
    /\ StepFails(r)
    /\ UNCHANGED <<runVars, processVars>>
    /\ History(Only(req[r].id, IF At(r, "arm") \/ At(r, "armNew") THEN {} ELSE RequestLeaves(r)),
               Nothing)

\* An active schedule without a job is left to resync_jobs; the old job of one whose
\* trigger was saved, or a job whose document is taken back, to nobody.
LostReplyLeaves(r) ==
    CASE req[r].at \in {"insert", "decide"}    -> {"unsaved"}
      [] req[r].at \in {"armNew", "arm"}       -> {"misarmed"}
      [] req[r].at = "write" /\ Rearms(r)      -> IF Resuming(r) THEN {"unsaved"} ELSE {"misarmed"}
      [] OTHER -> {}

ReplyFault(r) ==
    /\ Fault
    /\ ReplyLost(r)
    /\ UNCHANGED <<runVars, processVars>>
    /\ History(Only(req[r].id, LostReplyLeaves(r)), Nothing)

-----------------------------------------------------------------------------
(* Runs *)

Execute(s, k) ==
    /\ RunStep(s, k)
    /\ UNCHANGED <<lifecycleVars, processVars>>
    /\ History(Nothing, Only(s, IF run[s][k] = "check" THEN {"unchecked"} ELSE {}))
    /\ UNCHANGED faults

RunFault(s, k) ==
    /\ Fault
    /\ RunFails(s, k)
    /\ UNCHANGED <<lifecycleVars, processVars>>
    /\ History(Only(s, RunLeaves(s, k)), Nothing)

\* The failure was counted and nobody checks, or the pause written and nobody disarms.
RunReplyFault(s, k) ==
    /\ Fault
    /\ RunReplyLost(s, k)
    /\ UNCHANGED <<lifecycleVars, processVars>>
    /\ History(Only(s, CASE run[s][k] = "failure" -> {"unchecked"}
                         [] run[s][k] = "check"   -> {"misarmed"}
                         [] OTHER -> {}),
               Nothing)

-----------------------------------------------------------------------------
(* APScheduler.  One pass of its timer picks the due jobs, moves each to    *)
(* its next fire time, removes it when there is none, and submits the run.  *)

\* The job of s is due: a date job once its date has come, another one at any
\* time until its window closes, and one last time for the fire at its close.
Due(s) == job[s] \in Triggers /\ (job[s] \in OneShot => job[s] \in expired)

LastFire(s) == job[s] \in expired

AfterFire(s) == job' = IF LastFire(s) THEN [job EXCEPT ![s] = "none"] ELSE job

Fire(s) ==
    /\ phase # "down"
    /\ Due(s)
    /\ run[s]["trigger"] = "free"
    /\ Advance(s, "trigger", "load")
    /\ AfterFire(s)
    /\ UNCHANGED <<doc, queued, expired, lifecycleVars, processVars>>
    /\ Uneventful

\* The last fire is not run: it is later than misfire_grace_time, or the run
\* before it has not ended (max_instances).  The job is removed all the same.
\* Missing another fire changes nothing.
MissLast(s) ==
    /\ phase # "down"
    /\ Due(s)
    /\ LastFire(s)
    /\ AfterFire(s)
    /\ UNCHANGED <<doc, queued, expired, lifecycleVars, runVars, processVars>>
    /\ Uneventful

\* Seeded bug: run-now fires for an active schedule only.
FireNowActive(s) ==
    /\ phase # "down"
    /\ s \in queued
    /\ Active(s)
    /\ run[s]["now"] = "free"
    /\ Advance(s, "now", "load")
    /\ queued' = queued \ {s}
    /\ UNCHANGED <<doc, job, expired, lifecycleVars, processVars>>
    /\ Uneventful

\* The run-now job has a single immediate fire, and no misfire_grace_time.
FireNow(s) ==
    /\ phase # "down"
    /\ s \in queued
    /\ run[s]["now"] = "free"
    /\ Advance(s, "now", "load")
    /\ queued' = queued \ {s}
    /\ UNCHANGED <<doc, job, expired, lifecycleVars, processVars>>
    /\ Uneventful

\* max_instances again: the previous run-now run has not ended.
DropNow(s) ==
    /\ phase # "down"
    /\ s \in queued
    /\ run[s]["now"] # "free"
    /\ queued' = queued \ {s}
    /\ UNCHANGED <<doc, job, expired, lifecycleVars, runVars, processVars>>
    /\ Uneventful

Tick ==
    /\ \E t \in Triggers : Expire(t)
    /\ UNCHANGED <<lifecycleVars, runVars, processVars>>
    /\ Uneventful

-----------------------------------------------------------------------------
(* Stopping and starting *)

Stop ==
    /\ phase' = "down"
    /\ past' = {}
    /\ listed' = {}
    /\ req' = [r \in Clients |-> Idle]
    /\ run' = NoRuns
    /\ UNCHANGED storeVars
    /\ History([s \in Schedules |-> StopLeaves(s)], Nothing)

Crash ==
    /\ phase # "down"
    /\ Fault
    /\ Stop

\* The server has answered its requests.  shutdown_scheduler cannot wait for
\* coroutines on its own event loop: the executor cancels the runs.
Shutdown ==
    /\ phase = "up"
    /\ \A r \in Clients : ~Busy(r)
    /\ UNCHANGED faults
    /\ Stop

\* start_scheduler, up to the await in resync_jobs.  The jobstore deletes the
\* jobs it cannot restore.
StartScheduler(kept) ==
    /\ phase = "down"
    /\ IF kept = Schedules THEN UNCHANGED faults ELSE Fault
    /\ phase' = "starting"
    /\ past' = expired
    /\ job' = [s \in Schedules |-> IF s \in kept THEN job[s] ELSE "none"]
    /\ queued' = queued \cap kept
    /\ UNCHANGED <<doc, expired, lifecycleVars, runVars, listed>>
    /\ History([s \in Schedules |-> IF s \in kept THEN {} ELSE {"unsaved"}], Nothing)

\* Seeded bug: goes through the jobs there are, not through the documents.
ListArmed ==
    /\ phase = "starting"
    /\ phase' = "resync"
    /\ listed' = {s \in Schedules : Active(s) /\ Armed(s)}
    /\ UNCHANGED <<storeVars, lifecycleVars, runVars, past>>
    /\ Uneventful

ListActive ==
    /\ phase = "starting"
    /\ phase' = "resync"
    /\ listed' = {s \in Schedules : Active(s)}
    /\ UNCHANGED <<storeVars, lifecycleVars, runVars, past>>
    /\ Uneventful

\* The loop of resync_jobs, which awaits nothing.  A schedule whose job cannot
\* be added is skipped and logged.
Resync(failed) ==
    /\ phase = "resync"
    /\ failed \subseteq listed
    /\ IF failed = {} THEN UNCHANGED faults ELSE Fault
    /\ job' = [s \in Schedules |->
                 IF s \in listed \ failed /\ ~Armed(s) /\ doc[s].trigger \notin past
                 THEN ArmedWith(doc[s].trigger) ELSE job[s]]
    /\ phase' = "up"
    /\ past' = {}
    /\ listed' = {}
    /\ UNCHANGED <<doc, queued, expired, lifecycleVars, runVars>>
    /\ History(Nothing, [s \in Schedules |-> IF s \in failed THEN {} ELSE {"unsaved"}])

Boot ==
    \/ \E kept \in SUBSET Schedules : StartScheduler(kept)
    \/ ListActive
    \/ \E failed \in SUBSET Schedules : Resync(failed)

-----------------------------------------------------------------------------
Next ==
    \/ \E r \in Clients : Call(r) \/ Serve(r) \/ RequestFault(r) \/ ReplyFault(r)
    \/ \E s \in Schedules, k \in JobKinds : Execute(s, k) \/ RunFault(s, k) \/ RunReplyFault(s, k)
    \/ \E s \in Schedules : Fire(s) \/ MissLast(s) \/ FireNow(s) \/ DropNow(s)
    \/ Tick
    \/ Crash \/ Shutdown \/ Boot

Spec == Init /\ [][Next]_vars

-----------------------------------------------------------------------------
(* Properties *)

Misarmed(s) == mishaps[s] \cap {"raced", "misarmed"} # {}

\* A schedule that is not active has no trigger job: lifecycle.py disarms before
\* the save and arms after it, whatever happens to requests, runs and restarts.
\* The exceptions are the moment between an auto-pause and the disarm that follows
\* it, schedules two coroutines have met on, and those where `misarmed' is on
\* record: an auto-pause cut short before its disarm, or a job that was added
\* although add_job raised, under a write that is then undone.
OnlyActiveArmed ==
    \A s \in Schedules :
        Armed(s) /\ ~Active(s)
        => Misarmed(s) \/ \E k \in JobKinds : run[s][k] = "disarm"

AtRest(s) == phase = "up" /\ Editors(s) = {}

InLockstep(s) ==
    IF Active(s)
    THEN IF doc[s].trigger \in expired
         THEN job[s] \in {"none", "dormant", doc[s].trigger}
         ELSE job[s] = doc[s].trigger
    ELSE job[s] = "none"

\* Between operations document and job agree: an active schedule is armed with
\* the trigger it has now, any other has no job.  The exceptions are schedules two
\* coroutines have met on; operations that failed, were killed or lost a reply
\* and left a schedule active without a job, until resync_jobs has put it right at
\* the next start; and the same where the job left is a wrong one (`misarmed').
Lockstep ==
    \A s \in Schedules :
        AtRest(s) /\ ~Misarmed(s) /\ "unsaved" \notin mishaps[s] => InLockstep(s)

\* At rest a job is the document's or missing, also after these failures: a call
\* that raises without effect in any step of create, resume, pause and delete, the
\* arm of an edit that raises without effect and is undone, the disarm of an edit
\* that took effect although it raised, a write of a resume, a pause or a create
\* whose reply was lost, a kill between the steps of any of these, and a run cut
\* short before its pause is written.  It does not hold for every failure.  Exempt
\* are schedules two coroutines have met on, and those left with a wrong job
\* (`misarmed'):
\*   - an edit of an active schedule's trigger that was saved and not armed: it was
\*     killed between the two, the reply of the save was lost, or the revert failed;
\*   - an add_job that took effect and raised, which the revert does not take back
\*     (FailedResumeDoesNotFire);
\*   - an auto-pause whose disarm failed or was never reached.
FailsSafe ==
    \A s \in Schedules :
        AtRest(s) /\ ~Misarmed(s) =>
            \/ ~Armed(s)
            \/ Active(s) /\ job[s] \in {"dormant", doc[s].trigger}

\* No active schedule stays at the error threshold: the run that took it there,
\* or another one, is about to check.  The exceptions are a run cut between its
\* summary and its check, or whose summary was written though its reply was lost
\* (`unchecked': the next failure checks), and schedules two coroutines have met
\* on: a PATCH to active decided on a read before the auto-pause undoes the pause
\* and keeps the count (MovingToActiveResets).
ThresholdEnforced ==
    \A s \in Schedules :
        Active(s) /\ doc[s].errors >= Threshold
                   => \/ mishaps[s] \cap {"raced", "unchecked"} # {}
                      \/ \E k \in JobKinds : run[s][k] = "check"

\* Deleting is final: no save of a request, revert or run summary that was
\* under way brings the document back, whatever races and failures there are.
DeletedForGood ==
    [][\A s \in Schedules :
         doc[s].status = "deleted" => doc'[s].status = "deleted"]_vars

\* The interleaved steps of requests and runs add up to whole operations on the
\* document (ScheduleContract): no edit, pause or error count is lost to another
\* coroutine's write.  It asks that no PATCH sets the status to active: the
\* decision whether that resets the count is made on a stale read.
Contract ==
    INSTANCE ScheduleContract
        WITH doc <- doc, Schedules <- Schedules, Triggers <- Triggers, Invalid <- Invalid

KeepsContract == Contract!Spec

-----------------------------------------------------------------------------
(* Liveness.  The event loop resumes every coroutine whose await is over,   *)
(* and every database operation ends (StepFails is how one ends badly).    *)
(* APScheduler's timer wakes for the earliest due job, at start-up too, so *)
(* a queued run-now is not passed over for ever by restarts: strong        *)
(* fairness.  The container is restarted when it stops.  Nothing obliges a *)
(* client to call, a trigger to fire, time to pass or anything to fail.    *)

Fairness ==
    /\ \A r \in Clients : WF_vars(Serve(r))
    /\ \A s \in Schedules, k \in JobKinds : WF_vars(Execute(s, k))
    /\ \A s \in Schedules : SF_vars(FireNow(s))
    /\ WF_vars(StartScheduler(Schedules))
    /\ WF_vars(ListActive)
    /\ WF_vars(Resync({}))

LiveSpec == Spec /\ Fairness

\* A run-now queued while none is running fires, for a paused or deleted schedule
\* too and across restarts (the job is in the jobstore and has no
\* misfire_grace_time), once the jobstore has no more jobs to lose.  One queued
\* while the previous one runs may be discarded: see AcceptedRunNowStarts.
RunNowFires ==
    \A s \in Schedules :
        s \in queued /\ run[s]["now"] = "free" /\ faults = MaxFaults ~> run[s]["now"] = "load"


\* Once nothing more fails, a restart repairs what cut-short operations, races and
\* jobs lost from the jobstore have left: every active schedule with fires to come
\* has a job again, whatever befell it, and document and job agree except where a
\* race or a misarmed job (which resync_jobs does not look for) is on record.
RestartRepairs ==
    \A s \in Schedules :
        phase = "down" /\ faults = MaxFaults
        ~> /\ phase = "up"
           /\ Active(s) /\ doc[s].trigger \notin expired => Armed(s)
           /\ Misarmed(s) \/ InLockstep(s)

-----------------------------------------------------------------------------
(* What the documentation and the comments say and the code does not keep.  *)

\* lifecycle.py: "When a step fails, the schedule ends in the state that does not
\* fire"; "a failed arm reverts the DB change".  (Here: of a resume, with nobody
\* else at work on the schedule.)
FailedResumeDoesNotFire ==
    [][\A r \in Clients :
         Revert(r) /\ Resuming(r) /\ "raced" \notin mishaps[req[r].id] =>
             job'[req[r].id] = "none"]_vars

\* docs/concepts/schedules.md: "paused -- the record is kept but the scheduler
\* job is removed, so it does not fire".
PausedHasNoJob ==
    \A s \in Schedules : AtRest(s) /\ doc[s].status = "paused" => ~Armed(s)

\* pause_if_failing: "a schedule paused or resumed during the run is left alone".
ResumedIsLeftAlone ==
    [][\A s \in Schedules, k \in JobKinds :
         DisarmFailing(s, k) /\ Active(s) => job'[s] = job[s]]_vars

\* pause_if_failing: if disarm raises, the job keeps firing while paused "until
\* the next resume or restart".
RestartDisarmsPaused ==
    [][phase = "resync" /\ phase' = "up" =>
         \A s \in Schedules :
             doc[s].status = "paused" /\ "raced" \notin mishaps[s] => job'[s] = "none"]_vars

\* apply: "Moving to active resets consecutive_errors, so a resumed schedule is
\* not auto-paused again by its next single failure".
MovingToActiveResets ==
    [][\A s \in Schedules :
         doc[s].status = "paused" /\ doc'[s].status = "active" => doc'[s].errors = 0]_vars

\* docs/api/schedules.md: a run-now "queues the action to fire once", and only
\* a call made "before the queued run starts" is merged with it.
AcceptedRunNowStarts ==
    [][\A s \in Schedules :
         s \in queued /\ s \notin queued' => run'[s]["now"] = "load"]_vars
==============================================================================
