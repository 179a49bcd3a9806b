------------------------------- MODULE MCEdits -------------------------------
(* ScheduleEdits on two schedules, two callers, two owners and two names.   *)
(* It is noon on day zero in UTC, and six in the afternoon in the zone East. *)
EXTENDS EditsInvariant, TLC

CONSTANTS s1, s2, c1, c2

MCSchedules == {s1, s2}
MCClients == {c1, c2}
MCOwners == {"ann", "bob"}
MCNames == {"n1", "n2"}

Symmetry == Permutations(MCSchedules) \cup Permutations(MCClients)

MCOffset == [z \in {"UTC", "East"} |-> IF z = "UTC" THEN 0 ELSE 6]

MCHeaderKey == [h \in {"Auth", "auth", "Key"} |-> IF h = "Key" THEN "key" ELSE "auth"]

MCHeaderRank ==
    [h \in {"Auth", "auth", "Key"} |-> CASE h = "auth" -> 1 [] h = "Auth" -> 2 [] OTHER -> 3]

Wall(hour) == <<hour, "wall">>
Utc(hour) == <<hour, "utc">>

\* Every five hours from ten to two this afternoon: moving the start past two,
\* the end before ten, or the wall times six hours back leaves no fire or no
\* window; moving both bounds leaves one that is sound.
Given(name) ==
    [name |-> name, trigger_type |-> "interval", trigger_args |-> <<"hours", 2>>,
     timezone |-> "UTC", start_date |-> Utc(10), end_date |-> Wall(17),
     headers |-> [Auth |-> "secret", Key |-> "other"]]

Request(op, owner, changes) == [op |-> op, owner |-> owner, changes |-> changes]
Patch(changes) == Request("patch", "ann", changes)

MCCalls ==
    {Request("create", "ann", Given("n1")),
     Request("create", "ann",
             [Given("n2") EXCEPT !.headers = [auth |-> "first", Auth |-> "last", Key |-> "other"]]),
     Request("create", "bob", Given("n1")),
     Request("delete", "ann", NotStarting),
     Request("pause", "ann", [status |-> "paused"]),
     Request("resume", "ann", [status |-> "active"]),
     Patch([name |-> "n2"]),
     Patch([name |-> "n2", end_date |-> Wall(20)]),
     Patch([name |-> "n1", status |-> "paused"]),
     Patch([start_date |-> Utc(15)]),
     Patch([start_date |-> Utc(19), status |-> "paused"]),
     Patch([end_date |-> Utc(14)]),
     Patch([timezone |-> "East"]),
     Patch([headers |-> [auth |-> Mask, Key |-> Mask]]),
     Patch([headers |-> [Auth |-> "rotated"]])}

-----------------------------------------------------------------------------
(* Trigger specifications for ArmableMeansFires: every type, arguments that *)
(* fit and that do not, known zones and an unknown one, and windows with    *)
(* bounds of both kinds.                                                    *)

Dates == {None} \cup {<<hour, kind>> : hour \in {6, 12, 13, 18}, kind \in {"utc", "wall"}}

Arguments ==
    {<<"run_date", date>> : date \in Dates \ {None}}
    \cup {<<"hours", step>> : step \in {1, 5}}
    \cup {<<"hour", hour>> : hour \in {0, 7, 12, 18}}
    \cup {<<"timezone", "UTC">>}

MCSpecifications ==
    [trigger_type : TriggerTypes, trigger_args : Arguments, timezone : {"UTC", "East", "Mars"},
     start_date : Dates, end_date : Dates]

MCHours == -24..48
==============================================================================
