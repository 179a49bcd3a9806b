--------------------------------- MODULE Run ---------------------------------
(***************************************************************************)
(* One fire of a schedule: execute_schedule of jobs.py, with the auto-pause *)
(* it makes through lifecycle.pause_if_failing.                            *)
(*                                                                         *)
(* A run belongs to the APScheduler job that fired it.  max_instances is   *)
(* one per job id, so a schedule has at most one run of its trigger job    *)
(* and one of its run-now job in flight, and the two may overlap.          *)
(*                                                                         *)
(*    load    the fire was submitted; the document is read fresh           *)
(*    calling the action is on its way                                     *)
(*    success, failure   the outcome is known, its summary not yet written *)
(*    check   a failure is written; is the schedule to be paused?          *)
(*    disarm  the pause is written; its job is still to be removed         *)
(*    report  notification and history, both best effort                   *)
(***************************************************************************)
EXTENDS ScheduleStore

CONSTANT ErrorCap    \* bound of the model: an action fails only below this count

ASSUME ErrorCapAssumption == ErrorCap \in Nat /\ ErrorCap >= Threshold

VARIABLE run         \* run[s][k]: where the run fired by job k of s stands

runVars == <<run>>

JobKinds == {"trigger", "now"}

Stages == {"free", "load", "calling", "success", "failure", "check", "disarm", "report"}

RunTypeOK == run \in [Schedules -> [JobKinds -> Stages]]

NoRuns == [s \in Schedules |-> [k \in JobKinds |-> "free"]]

RunInit == run = NoRuns

Advance(s, k, stage) == run' = [run EXCEPT ![s][k] = stage]

\* _load_schedule: a deleted schedule ends the run.  Its status is not looked at.
Load(s, k) ==
    /\ run[s][k] = "load"
    /\ Advance(s, k, IF Exists(s) THEN "calling" ELSE "free")
    /\ UNCHANGED storeVars

\* run_action never raises: it returns a result, with an error or without.
Answer(s, k) ==
    /\ run[s][k] = "calling"
    /\ \/ Advance(s, k, "success")
       \/ doc[s].errors < ErrorCap /\ Advance(s, k, "failure")
    /\ UNCHANGED storeVars

\* A document deleted meanwhile is not revived.
Cleared(s) == IF Exists(s) THEN [doc EXCEPT ![s].errors = 0] ELSE doc
Counted(s) == IF Exists(s) THEN [doc EXCEPT ![s].errors = @ + 1] ELSE doc

\* _record_summary after a success.
RecordSuccess(s, k) ==
    /\ run[s][k] = "success"
    /\ doc' = Cleared(s)
    /\ Advance(s, k, "report")
    /\ UNCHANGED <<job, queued, expired>>

\* Seeded bug: the auto-pause check is left out.
RecordFailureOnly(s, k) ==
    /\ run[s][k] = "failure"
    /\ doc' = Counted(s)
    /\ Advance(s, k, "report")
    /\ UNCHANGED <<job, queued, expired>>

\* _record_summary after a failure: an atomic $inc.
RecordFailure(s, k) ==
    /\ run[s][k] = "failure"
    /\ doc' = Counted(s)
    /\ Advance(s, k, "check")
    /\ UNCHANGED <<job, queued, expired>>

\* Seeded bug: pauses one failure late.
FailingLate(s) == Active(s) /\ doc[s].errors > Threshold

Failing(s) == Active(s) /\ doc[s].errors >= Threshold

\* pause_if_failing: one conditional update decides and pauses.
PauseFailing(s, k) ==
    /\ run[s][k] = "check"
    /\ Failing(s)
    /\ doc' = [doc EXCEPT ![s].status = "paused"]
    /\ Advance(s, k, "disarm")
    /\ UNCHANGED <<job, queued, expired>>

LeaveAlone(s, k) ==
    /\ run[s][k] = "check"
    /\ ~Failing(s)
    /\ Advance(s, k, "report")
    /\ UNCHANGED storeVars

\* Seeded bug: pauses in the database only.
ForgetDisarm(s, k) ==
    /\ run[s][k] = "disarm"
    /\ Advance(s, k, "report")
    /\ UNCHANGED storeVars

\* The update modified a document: remove the trigger job.
DisarmFailing(s, k) ==
    /\ run[s][k] = "disarm"
    /\ Disarm(s)
    /\ Advance(s, k, "report")
    /\ UNCHANGED <<doc, queued, expired>>

\* notify and run.insert, whose failures are swallowed.
Report(s, k) ==
    /\ run[s][k] = "report"
    /\ Advance(s, k, "free")
    /\ UNCHANGED storeVars

\* A database or jobstore call raises: APScheduler logs it and the run is over.
\* Here the call had no effect, below it had: the summary, the pause or the removal.
RunFails(s, k) ==
    /\ run[s][k] \in {"load", "success", "failure", "check", "disarm"}
    /\ Advance(s, k, "free")
    /\ UNCHANGED storeVars

RunReplyLost(s, k) ==
    /\ \/ run[s][k] = "success" /\ doc' = Cleared(s) /\ UNCHANGED job
       \/ run[s][k] = "failure" /\ doc' = Counted(s) /\ UNCHANGED job
       \/ /\ run[s][k] = "check"
          /\ Failing(s)
          /\ doc' = [doc EXCEPT ![s].status = "paused"]
          /\ UNCHANGED job
       \/ run[s][k] = "disarm" /\ Disarm(s) /\ UNCHANGED doc
    /\ Advance(s, k, "free")
    /\ UNCHANGED <<queued, expired>>

RunStep(s, k) ==
    \/ Load(s, k) \/ Answer(s, k)
    \/ RecordSuccess(s, k) \/ RecordFailure(s, k)
    \/ PauseFailing(s, k) \/ LeaveAlone(s, k) \/ DisarmFailing(s, k)
    \/ Report(s, k)
==============================================================================
