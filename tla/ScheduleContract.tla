--------------------------- MODULE ScheduleContract ---------------------------
(***************************************************************************)
(* What callers may rely on about a Schedule document, whoever else is     *)
(* using the service: it changes by whole operations only.  An edit never  *)
(* touches the error count and a run never touches an edit, becoming       *)
(* active starts a new count, failures are counted one by one, pausing     *)
(* (a caller's or the service's) keeps everything else, and deletion is    *)
(* final.  SchedulingService, where each operation is several steps that   *)
(* interleave with others, is shown to implement this.                     *)
(***************************************************************************)
EXTENDS Naturals

CONSTANTS Schedules, Triggers, Invalid

VARIABLE doc

Fields(status, trigger, errors) ==
    [status |-> status, trigger |-> trigger, errors |-> errors]

Becomes(s, d) == doc' = [doc EXCEPT ![s] = d]

Exists(s) == doc[s].status \in {"active", "paused"}

Valid == Triggers \ Invalid

Create(s) ==
    /\ doc[s].status = "absent"
    /\ \E t \in Valid : Becomes(s, Fields("active", t, 0))

\* A caller's edit, pause or both: the error count is not the caller's.
Edit(s) ==
    /\ Exists(s)
    /\ \E t \in Valid, status \in {doc[s].status, "paused"} :
          Becomes(s, Fields(status, t, doc[s].errors))

\* A resume, perhaps with a new trigger, and its being taken back.
Resume(s) ==
    /\ Exists(s)
    /\ \E t \in Valid : Becomes(s, Fields("active", t, 0))

TakeBackResume(s) ==
    /\ Exists(s)
    /\ \E t \in Valid :
          /\ doc'[s].errors \in Nat
          /\ Becomes(s, Fields("paused", t, doc'[s].errors))

CountFailure(s) ==
    /\ Exists(s)
    /\ Becomes(s, Fields(doc[s].status, doc[s].trigger, doc[s].errors + 1))

CountSuccess(s) ==
    /\ Exists(s)
    /\ Becomes(s, Fields(doc[s].status, doc[s].trigger, 0))

Delete(s) ==
    /\ Exists(s)
    /\ Becomes(s, Fields("deleted", doc[s].trigger, doc[s].errors))

Init == \A s \in Schedules : doc[s].status = "absent"

Next ==
    \E s \in Schedules :
        \/ Create(s) \/ Edit(s) \/ Resume(s) \/ TakeBackResume(s)
        \/ CountFailure(s) \/ CountSuccess(s) \/ Delete(s)

Spec == Init /\ [][Next]_doc
==============================================================================
