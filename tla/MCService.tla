------------------------------ MODULE MCService ------------------------------
(***************************************************************************)
(* Small instances of SchedulingService for TLC.                           *)
(***************************************************************************)
EXTENDS ServiceInvariant, TLC

\* An endless trigger, one with a single fire, and one that cannot be built.
MCTriggers == {"cron", "once", "bad"}
MCInvalid == {"bad"}
MCOneShot == {"once"}
MCEndless == {"cron"}

\* Triggers that all come to an end: a window (an end_date) and a date.
ClosingTriggers == {"window", "once", "bad"}
NoTriggers == {}

C(op, status, trigger) == [op |-> op, status |-> status, trigger |-> trigger]

Plain == { C("pause", "paused", "keep"), C("resume", "active", "keep"), C("delete", "keep", "keep") }

\* Two clients on one schedule, changing its status, its trigger (to another one
\* or one that is refused) and neither.
ClientCalls ==
    Plain \cup
    { C("create", "keep", "cron"), C("patch", "keep", "once"), C("patch", "keep", "bad"),
      C("patch", "keep", "keep") }

\* One client making every kind of request, for the failures and restarts.
FaultCalls ==
    Plain \cup { C("create", "keep", "window"), C("create", "keep", "bad"),
                 C("patch", "keep", "once"), C("patch", "active", "once") }

\* For liveness: one trigger, that does not end, run-now beside it, and no pauses
\* but the service's own.
LiveTriggers == {"cron"}
LiveCalls == { C("create", "keep", "cron"), C("resume", "active", "keep"),
               C("delete", "keep", "keep"), C("run", "keep", "keep") }

\* The status alone, by its own endpoints and by PATCH.
StatusCalls == Plain \cup { C("create", "keep", "cron"), C("patch", "active", "keep") }

\* A trigger edit against the status changes.
EditCalls == Plain \cup { C("create", "keep", "cron"), C("patch", "keep", "once") }

\* Run-now beside the trigger.
RunNowCalls == EditCalls \cup { C("run", "keep", "keep") }

ClientSymmetry == Permutations(Clients)
==============================================================================
