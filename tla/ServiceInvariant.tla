--------------------------- MODULE ServiceInvariant ---------------------------
(***************************************************************************)
(* The inductive invariants of SchedulingService.  Its safety properties   *)
(* say nothing of an operation that is half done; these conjuncts say what *)
(* each step of a request, of a run and of resync_jobs may count on as     *)
(* long as no other coroutine has changed the same schedule.  ServiceInv   *)
(* is for OnlyActiveArmed; LockstepInv adds what Lockstep, FailsSafe and   *)
(* ThresholdEnforced need, ContractInv what the refinement needs.          *)
(***************************************************************************)
EXTENDS SchedulingService

StepsOf(op) ==
    CASE op = "create" -> {"decide", "insert", "armNew", "uncreate"}
      [] op = "delete" -> {"decide", "remove"}
      [] op = "run"    -> {"decide"}
      [] OTHER         -> {"decide", "write", "arm", "revert"}

\* Requests are in flight only in a process that is up, at a step of their own
\* operation (arming only what the edit is to arm), and all but a create began
\* with a document that existed.
RequestsOnTrack ==
    \A r \in Clients :
        Busy(r) => /\ phase = "up"
                   /\ req[r].at \in StepsOf(req[r].call.op)
                   /\ req[r].at \in {"arm", "revert"} => Rearms(r)
                   /\ req[r].call.op # "create" => req[r].seen.status \in {"active", "paused"}

ListedWhileResyncing == listed # {} => phase = "resync"

\* Two editors of one schedule leave their trace in its history.
CrowdsAreRaced == \A s \in Schedules : Crowded(s) => "raced" \in mishaps[s]

\* What resync_jobs is about to arm is still active.
ListedAreActive == \A s \in listed : "raced" \in mishaps[s] \/ Active(s)

\* The status a request read stands until its write, and the schedule it is
\* about to arm is active.
Relies(r) ==   \* the steps of r between its read and its write
    /\ req[r].at \in {"decide", "write", "remove"}
    /\ req[r].call.op \in {"patch", "pause", "resume", "delete"}

ReadsStand ==
    \A r \in Clients :
        Busy(r) /\ "raced" \notin mishaps[req[r].id] =>
            /\ Relies(r) => doc[req[r].id].status = req[r].seen.status
            /\ req[r].at \in {"armNew", "arm"} => Active(req[r].id)

\* A request has nothing to fear from a job it has removed, or never added:
\* there is none when it deletes, saves a paused schedule, or takes back a
\* create or a resume.
Unarmed(r) ==
    \/ req[r].call.op = "create"
    \/ req[r].at = "remove"
    \/ req[r].at = "write" /\ EditedStatus(r) # "active"
    \/ req[r].at \in {"write", "arm", "revert"} /\ Resuming(r)

NoJobBehind ==
    \A r \in Clients :
        Busy(r) /\ ~Misarmed(req[r].id) /\ Unarmed(r) => ~Armed(req[r].id)

ServiceInv ==
    /\ ServiceTypeOK
    /\ RequestsOnTrack
    /\ ListedWhileResyncing
    /\ CrowdsAreRaced
    /\ ListedAreActive
    /\ ReadsStand
    /\ NoJobBehind
    /\ OnlyActiveArmed

-----------------------------------------------------------------------------
(* Document and job agree. *)

\* The triggers a request has read, written or inserted stand until its job is
\* in place, and a schedule whose edit is to be taken back is still active.
TriggerStands(r) ==
    /\ Relies(r) => doc[req[r].id].trigger = req[r].seen.trigger
    /\ req[r].at \in {"arm", "revert"} => doc[req[r].id].trigger = EditedTrigger(r)
    /\ req[r].at = "armNew" => doc[req[r].id].trigger = req[r].call.trigger
    /\ req[r].at = "revert" => Active(req[r].id)

TriggersStand ==
    \A r \in Clients :
        Busy(r) /\ "raced" \notin mishaps[req[r].id] => TriggerStands(r)

\* j is no job, or one made from trigger t.
MadeFrom(j, t) == j \in {"none", t} \/ (j = "dormant" /\ t \in expired)

\* Between the save of another trigger and the job that follows it, the job is
\* still that of the trigger the document had.
Swapping(r) == Busy(r) /\ req[r].at \in {"arm", "revert"} /\ ~Resuming(r)

OldJobStands(r) ==
    /\ MadeFrom(job[req[r].id], req[r].seen.trigger)
    /\ "unsaved" \notin mishaps[req[r].id] /\ req[r].seen.trigger \notin expired
          => Armed(req[r].id)

SwapsOldJob ==
    \A r \in Clients : Swapping(r) /\ ~Misarmed(req[r].id) => OldJobStands(r)

\* At any other time the job is made from the trigger of the document.
JobIsOwn ==
    \A s \in Schedules :
        Misarmed(s) \/ (\E r \in Clients : On(r, s) /\ Swapping(r))
        \/ MadeFrom(job[s], doc[s].trigger)

\* A request that still has to arm the job, or has removed it and not yet saved.
Unfinished(r) == Busy(r) /\ "unsaved" \in RequestLeaves(r)

\* An active schedule with fires to come has a job, unless a request on it is
\* half done or one was cut short and resync_jobs has not been there since.
StillToFire(s) == Active(s) /\ doc[s].trigger \notin expired /\ "unsaved" \notin mishaps[s]

StaysArmed ==
    \A s \in Schedules :
        StillToFire(s) => \/ Misarmed(s)
                          \/ Armed(s)
                          \/ \E r \in Clients : On(r, s) /\ Unfinished(r)

\* What a run is about to disarm is paused.
PausedBeforeDisarm ==
    \A s \in Schedules :
        (\E k \in JobKinds : run[s][k] = "disarm") => "raced" \in mishaps[s] \/ ~Active(s)

\* resync_jobs has listed every active schedule.
ActiveAreListed == phase = "resync" => \A s \in Schedules : Active(s) => s \in listed

LockstepInv ==
    /\ TriggersStand
    /\ SwapsOldJob
    /\ JobIsOwn
    /\ StaysArmed
    /\ PausedBeforeDisarm
    /\ ActiveAreListed

-----------------------------------------------------------------------------
(* Documents change by whole operations. *)

\* The document a create is to insert is no one else's.
CreatesAreFresh ==
    \A r \in Clients :
        Busy(r) /\ req[r].call.op = "create" =>
            /\ req[r].at \in {"decide", "insert"} =>
                  /\ doc[req[r].id].status = "absent"
                  /\ \A q \in Clients \ {r} : ~On(q, req[r].id)
            /\ req[r].at \in {"armNew", "uncreate"} => doc[req[r].id].status # "absent"

\* The document of any other request has existed, and once did when it was read.
ReadsExisted ==
    \A r \in Clients :
        Busy(r) /\ req[r].call.op # "create" =>
            doc[req[r].id].status # "absent" /\ req[r].seen.trigger \notin Invalid

\* A request that has passed its checks writes a trigger that can be built and,
\* unless it is a PATCH, a status that is not the one it read.
ChecksHold ==
    \A r \in Clients :
        Busy(r) =>
            /\ req[r].at = "insert" => req[r].call.trigger \notin Invalid
            /\ req[r].at \in {"write", "arm", "revert"} =>
                  /\ TriggerChanged(r) => req[r].call.trigger \notin Invalid
                  /\ req[r].call.op # "patch" => req[r].call.status # req[r].seen.status

StoredTriggersBuild == \A s \in Schedules : Exists(s) => doc[s].trigger \notin Invalid

ContractInv ==
    /\ CreatesAreFresh
    /\ ReadsExisted
    /\ ChecksHold
    /\ StoredTriggersBuild
==============================================================================
