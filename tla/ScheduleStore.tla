---------------------------- MODULE ScheduleStore ----------------------------
(***************************************************************************)
(* What survives a restart of the service: the Schedule documents and the  *)
(* APScheduler jobs, two collections of the same MongoDB that no           *)
(* transaction ties together.  Lifecycle and Run write both; this module   *)
(* declares them and the pure rules about triggers that the code takes     *)
(* from triggers.py.                                                       *)
(*                                                                         *)
(* Time is abstract: a trigger either still has a future fire or is in     *)
(* `expired' (its date has passed, its window has closed), and it never    *)
(* comes back from there.                                                  *)
(***************************************************************************)
EXTENDS Naturals

CONSTANTS
    Schedules,   \* ids a Schedule document may be given
    Triggers,    \* trigger specifications a caller may send
    Invalid,     \* those build_trigger refuses
    OneShot,     \* date triggers: one fire, at a fixed instant
    Endless,     \* cron and interval triggers without an end_date
    Threshold    \* settings.consecutive_error_threshold

ASSUME TriggerAssumption ==
    /\ Triggers # {}
    /\ Invalid \cup OneShot \cup Endless \subseteq Triggers
    /\ Invalid \cap (OneShot \cup Endless) = {}
    /\ OneShot \cap Endless = {}
    /\ Triggers \cap {"keep", "none", "dormant"} = {}

ASSUME ThresholdAssumption == Threshold \in Nat \ {0}

VARIABLES
    doc,       \* doc[s]: the Schedule document, the fields the lifecycle reads
    job,       \* job[s]: the trigger of the APScheduler job whose id is s,
               \*   "none", or "dormant" (stored without a next run time)
    queued,    \* schedules with a pending run-now job
    expired    \* triggers with no fire left

storeVars == <<doc, job, queued, expired>>

Statuses == {"absent", "active", "paused", "deleted"}

\* The fields of Schedule that some transition depends on.
Docs == [status : Statuses, trigger : Triggers, errors : Nat]

NoDoc == [status |-> "absent", trigger |-> CHOOSE t \in Triggers : TRUE, errors |-> 0]

Jobs == Triggers \cup {"none", "dormant"}

Exists(s) == doc[s].status \in {"active", "paused"}
Active(s) == doc[s].status = "active"
Armed(s) == job[s] # "none"

\* armable_trigger: it can be built and still has a fire to come.
Armable(t) == t \notin Invalid \cup expired

\* What add_job stores for trigger t: without a next fire time the job is kept
\* paused.  A date trigger reports its date even when that has passed.
ArmedWith(t) == IF t \in expired \ OneShot THEN "dormant" ELSE t

\* add_job(..., replace_existing=True) under the schedule's id.
Arm(s, t) == job' = [job EXCEPT ![s] = ArmedWith(t)]

\* remove_job, a missing job being no error.
Disarm(s) == job' = [job EXCEPT ![s] = "none"]

StoreTypeOK ==
    /\ doc \in [Schedules -> Docs]
    /\ job \in [Schedules -> Jobs]
    /\ queued \subseteq Schedules
    /\ expired \subseteq Triggers \ (Invalid \cup Endless)

StoreInit ==
    /\ doc = [s \in Schedules |-> NoDoc]
    /\ job = [s \in Schedules |-> "none"]
    /\ queued = {}
    /\ expired = {}

\* Time reaches the last fire of t.
Expire(t) ==
    /\ t \in Triggers \ (Invalid \cup Endless \cup expired)
    /\ expired' = expired \cup {t}
    /\ UNCHANGED <<doc, job, queued>>
==============================================================================
