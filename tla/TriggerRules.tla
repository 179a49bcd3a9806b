----------------------------- MODULE TriggerRules -----------------------------
(***************************************************************************)
(* The rules of triggers.py on a trigger specification: its five fields,   *)
(* which combinations of them build a trigger, and when a trigger still    *)
(* has a fire to come.  ScheduleStore sees of all this a set of invalid    *)
(* and a set of expired triggers; ScheduleEdits uses these rules.          *)
(*                                                                         *)
(* Time is counted in hours from some midnight UTC.  A date a caller sends *)
(* is <<hour, "utc">> when it carries an offset, <<hour, "wall">> when it  *)
(* does not, and <<>> when it is absent.                                   *)
(***************************************************************************)
EXTENDS Integers

CONSTANTS
    Offset,      \* the resolvable time zones, and how far each is ahead of UTC
    DayLength    \* hours in a day

ASSUME TimeAssumption ==
    /\ DayLength \in Nat \ {0}
    /\ Offset \in [DOMAIN Offset -> Int]

None == <<>>

TriggerFields == {"trigger_type", "trigger_args", "timezone", "start_date", "end_date"}

TriggerTypes == {"date", "interval", "cron"}

-----------------------------------------------------------------------------
(* build_trigger *)

\* _localize: a date without an offset is wall time in the schedule's zone.
Localize(date, zone) == IF date[2] = "wall" THEN date[1] - Offset[zone] ELSE date[1]

WindowInOrder(spec) ==
    spec.start_date # None /\ spec.end_date # None =>
        Localize(spec.start_date, spec.timezone) < Localize(spec.end_date, spec.timezone)

ZoneKnown(spec) == spec.timezone \in DOMAIN Offset

ReservedKeys == {"timezone", "start_date", "end_date"}

\* trigger_args is <<the argument, its value>>: "run_date" with a date,
\* "hours" with a period, "hour" with an hour of the day, or a reserved key.
ArgsAllowed(spec) == spec.trigger_args[1] \notin ReservedKeys

\* The one argument of each type that is modelled.
Argument == [date |-> "run_date", interval |-> "hours", cron |-> "hour"]

\* The trigger's constructor takes the argument.
ArgsFit(spec) == spec.trigger_args[1] = Argument[spec.trigger_type]

Builds(spec) ==
    /\ ZoneKnown(spec)
    /\ WindowInOrder(spec)
    /\ ArgsAllowed(spec)
    /\ ArgsFit(spec)

\* The active window applies to interval and cron only; an unbounded one is open.
Opens(spec, now) ==
    IF spec.start_date # None THEN Localize(spec.start_date, spec.timezone)
    ELSE IF spec.trigger_type = "interval" THEN now + spec.trigger_args[2]
    ELSE now

Closed(spec, t) ==
    spec.end_date # None /\ t > Localize(spec.end_date, spec.timezone)

-----------------------------------------------------------------------------
(* get_next_fire_time(None, now) of the trigger built at `now': the set with *)
(* the next fire time, or the empty set.                                    *)

Later(a, b) == IF a > b THEN a ELSE b

\* The first multiple of `step' from `first' on that is not before now.
NextStep(first, step, now) ==
    IF first >= now THEN first ELSE first + ((now - first + step - 1) \div step) * step

\* The first time from t on at which it is `hour' o'clock in the zone.
NextHour(hour, zone, t) == t + ((hour - t - Offset[zone]) % DayLength)

NextFire(spec, now) ==
    LET first == Opens(spec, now)
        next == IF spec.trigger_type = "interval"
                THEN NextStep(first, spec.trigger_args[2], now)
                ELSE NextHour(spec.trigger_args[2], spec.timezone, Later(first, now))
    IN IF spec.trigger_type = "date" THEN {Localize(spec.trigger_args[2], spec.timezone)}
       ELSE IF Closed(spec, next) THEN {}
       ELSE {next}

\* Seeded bug: any next fire time will do, a date's included.
HasAnyFire(spec, now) == NextFire(spec, now) # {}

HasFutureFire(spec, now) == \E t \in NextFire(spec, now) : t >= now

ArmableAt(spec, now) == Builds(spec) /\ HasFutureFire(spec, now)

-----------------------------------------------------------------------------
(* Reference: what docs/concepts/triggers.md promises of a specification,   *)
(* as the times at which it fires rather than as a search for the next one. *)

LocalHour(t, zone) == (t + Offset[zone]) % DayLength

InWindow(spec, t) ==
    /\ spec.start_date # None => t >= Localize(spec.start_date, spec.timezone)
    /\ spec.end_date # None => t <= Localize(spec.end_date, spec.timezone)

FiresAt(spec, t, now) ==
    CASE spec.trigger_type = "date" -> t = Localize(spec.trigger_args[2], spec.timezone)
      [] spec.trigger_type = "interval" ->
            /\ InWindow(spec, t)
            /\ t >= Opens(spec, now)
            /\ (t - Opens(spec, now)) % spec.trigger_args[2] = 0
      [] spec.trigger_type = "cron" ->
            /\ InWindow(spec, t)
            /\ LocalHour(t, spec.timezone) = spec.trigger_args[2]

\* A specification is worth arming: it makes sense, its window is longer than
\* an instant, and one of the times at which it fires is still to come.  The
\* hours to look at are those in `Hours'.
Promised(spec, now, Hours) ==
    /\ ZoneKnown(spec)
    /\ ArgsFit(spec)
    /\ spec.start_date # None /\ spec.end_date # None =>
          \E t \in Hours : InWindow(spec, t) /\ InWindow(spec, t + 1)
    /\ \E t \in Hours : t >= now /\ FiresAt(spec, t, now)

IsDate(date) == date \in Int \X {"utc", "wall"}

\* The specifications the rules are about: dates that are dates, and an
\* argument that is in range if it is the one of the type.  (An interval of
\* no hours is one second to the library, less than the model's unit.)
WellFormed(spec) ==
    /\ spec.trigger_type \in TriggerTypes
    /\ spec.start_date # None => IsDate(spec.start_date)
    /\ spec.end_date # None => IsDate(spec.end_date)
    /\ ArgsFit(spec) =>
          CASE spec.trigger_type = "date" -> IsDate(spec.trigger_args[2])
            [] spec.trigger_type = "interval" -> spec.trigger_args[2] \in Nat \ {0}
            [] spec.trigger_type = "cron" -> spec.trigger_args[2] \in 0..DayLength-1

\* How far apart the times of firing are at most.
Period(spec) ==
    IF spec.trigger_type = "interval" THEN spec.trigger_args[2] ELSE DayLength

\* Hours among which a first one is, if there is one: where the window opens,
\* and a period from there, or from now if that is later.
Covers(Hours, spec, now) ==
    ZoneKnown(spec) /\ ArgsFit(spec) =>
        /\ spec.start_date # None => Localize(spec.start_date, spec.timezone) \in Hours
        /\ IF spec.trigger_type = "date"
           THEN Localize(spec.trigger_args[2], spec.timezone) \in Hours
           ELSE LET from == Later(Opens(spec, now), now)
                IN from .. from + Period(spec) - 1 \subseteq Hours
==============================================================================
