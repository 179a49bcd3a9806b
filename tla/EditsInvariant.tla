---------------------------- MODULE EditsInvariant ----------------------------
(***************************************************************************)
(* The inductive invariant of ScheduleEdits behind StoredTriggerBuilds,    *)
(* JobFollowsFields, EditsFailSafe and MaskKeepsValue: what a half-done    *)
(* request may count on, and what it leaves of its schedule, as long as    *)
(* nobody else edits that schedule.  Before it, what the rules of triggers *)
(* are checked to mean.                                                    *)
(***************************************************************************)
EXTENDS ScheduleEdits

CONSTANTS
    Specifications,   \* trigger specifications the rules are checked on
    Hours             \* the hours looked at for a fire of one of them

ASSUME HoursAssumption ==
    /\ Hours \subseteq Int
    /\ \A spec \in Specifications : WellFormed(spec) /\ Covers(Hours, spec, Now)

\* A specification is accepted for arming exactly when it makes sense and the
\* times at which it is documented to fire include one that is still to come.
\* The rules do not depend on the state: they are compared in the initial one.
ArmableMeansFires ==
    Init => \A spec \in Specifications : Armable(spec) <=> Promised(spec, Now, Hours)

-----------------------------------------------------------------------------

\* Two editors of one schedule leave their trace in its history.
CrowdsAreKnown == \A s \in Schedules : Crowded(s) => s \in crowded

\* What may be stored: a trigger that builds, and has a fire to come when it is
\* to be armed.
Sound(d) == IF d.status = "active" THEN Armable(d) ELSE Builds(d)

DocsAreSound ==
    \A s \in Schedules \ (crowded \cup shifted) : Exists(s) => Sound(doc[s])

\* What the starting worker has listed stands until it is done with it.
ListedStand ==
    \A s \in DOMAIN listed \ crowded : Active(s) /\ listed[s] = Spec5(doc[s])

-----------------------------------------------------------------------------
(* A request on a schedule nobody else edits. *)

\* The document r leaves when it saves.
Result(r) == Merge(req[r].seen, Written(r))

\* The document is the one r has read, then the one it has stored.
ReadStands(r) ==
    /\ req[r].op # "create" /\ req[r].at \in {"name", "decide", "write", "remove"}
          => doc[req[r].id] = req[r].seen
    /\ req[r].at \in {"arm", "armNew", "revert"}
          => doc[req[r].id] = Result(r) /\ (Shifts(r) => req[r].id \in shifted)

\* What r will write was checked, and so was what it may have to put back.
EditStands(r) ==
    /\ Editing(r) => req[r].id \in shifted \/ Sound(req[r].seen)
    /\ req[r].at = "write" /\ TriggerChanged(r) => Builds(Edited(r))
    /\ req[r].at \in {"arm", "revert"} => Rearms(r)
    /\ req[r].at = "armNew" => Edited(r).status = "active"

\* A schedule has the job that document d wants, or none because an operation
\* was cut short.
Wanted(d) == IF d.status = "active" THEN Trigger(d) ELSE None
Follows(s, d) == job[s] = Wanted(d) \/ (s \in cut /\ ~Armed(s))

\* Between its two steps on the two stores: the job has gone before the
\* document, or is still to come after it.
HalfDone(r) ==
    \/ req[r].at \in {"armNew", "uncreate", "arm", "revert", "remove"}
    \/ req[r].at = "write" /\ Edited(r).status # "active"

\* Only an edit that is still to be armed has left a job there: the old one.
JobStands(r) ==
    HalfDone(r) /\ req[r].id \notin stuck \cup shifted =>
        IF req[r].at \in {"arm", "revert"} THEN Follows(req[r].id, req[r].seen)
        ELSE ~Armed(req[r].id)

RequestsStand ==
    \A r \in Clients :
        Busy(r) /\ req[r].id \notin crowded => ReadStands(r) /\ EditStands(r) /\ JobStands(r)

JobsFollow ==
    \A s \in Schedules \ (crowded \cup stuck \cup shifted) :
        Follows(s, doc[s]) \/ \E r \in Clients : On(r, s) /\ HalfDone(r)

EditsInv ==
    /\ CrowdsAreKnown
    /\ DocsAreSound
    /\ ListedStand
    /\ RequestsStand
    /\ JobsFollow
==============================================================================
