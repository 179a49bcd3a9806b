------------------------------- MODULE Delivery -------------------------------
(***************************************************************************)
(* What a fire does between the moment its run starts and the record of it: *)
(* the webhook with its retries (actions.py), the run summary, the callback *)
(* and the run history (jobs.py), for the fires of one schedule.  Run and   *)
(* SchedulingService see of all this an outcome and an error count; here    *)
(* the receivers are part of the picture.                                   *)
(*                                                                          *)
(* A request reaches its receiver when the network brings it there, perhaps *)
(* after the client has given it up, and the answer may come too late or    *)
(* not at all.                                                              *)
(*                                                                          *)
(* A run goes through: due (not fired yet), load, guard (the target is      *)
(* resolved), request, backoff, summary (the outcome is known), check (may  *)
(* the schedule have to be paused), disarm (it was), notify, posting,       *)
(* history, ended.  What Run makes of that is shown at the end.             *)
(***************************************************************************)
EXTENDS Naturals, FiniteSets

CONSTANTS
    Runs,          \* the fires of the schedule
    MaxRetries,    \* the largest max_retries of an action
    Plans,         \* what a run may find in the document
    Threshold,     \* settings.consecutive_error_threshold
    MaxFaults      \* bound of the model on database failures and stops

PlanShapes == [webhook : BOOLEAN, retries : 0..MaxRetries, callback : BOOLEAN]

ASSUME DeliveryAssumption ==
    /\ MaxRetries \in Nat
    /\ MaxFaults \in Nat
    /\ Threshold \in Nat \ {0}
    /\ Plans \subseteq PlanShapes
    /\ IsFiniteSet(Runs)
    /\ "none" \notin Runs

VARIABLES
    stage,      \* stage[r]: where run r stands
    kind,       \* kind[r]: the job that fired it, or "none"
    plan,       \* plan[r]: the action and the callback it loaded
    attempt,    \* attempt[r]: the loop variable of _call_webhook
    target,     \* target[r][a]: what became of the a-th request
    outcome,    \* outcome[r]: what run_action returned
    creator,    \* creator[r]: what became of the callback
    notified,   \* notified[r]: what notify returned
    finished,   \* finished[r]: rank of its finished_at, 0 before
    status,     \* the status of the schedule, or "deleted"
    errors,     \* its consecutive_errors
    summary,    \* the run whose last_* fields the document has, or "none"
    history,    \* the ScheduleRun documents
    counted,    \* history variable: runs whose outcome the document took in
    faults

runningVars == <<stage, kind, plan, attempt, outcome, notified, finished>>
worldVars == <<target, creator>>
docVars == <<status, errors>>
recordVars == <<docVars, summary, history, counted>>
vars == <<runningVars, worldVars, recordVars, faults>>

JobKinds == {"trigger", "now"}

Stages == {"due", "load", "guard", "request", "backoff", "summary", "check",
           "disarm", "notify", "posting", "history", "ended"}

Outcomes == {"none", "success", "refused", "silent", "unexpected"}

Attempts == 0..MaxRetries

NoPlan == [webhook |-> FALSE, retries |-> 0, callback |-> FALSE]

InFlight(r) == stage[r] \notin {"due", "ended"}
Present == status # "deleted"
Failed(r) == outcome[r] \notin {"none", "success"}

DeliveryTypeOK ==
    /\ stage \in [Runs -> Stages]
    /\ kind \in [Runs -> JobKinds \cup {"none"}]
    /\ plan \in [Runs -> PlanShapes]
    /\ attempt \in [Runs -> Attempts]
    /\ target \in [Runs -> [Attempts -> {"unsent", "sent", "accepted", "refused"}]]
    /\ outcome \in [Runs -> Outcomes]
    /\ creator \in [Runs -> {"unsent", "sent", "told"}]
    /\ notified \in [Runs -> BOOLEAN]
    /\ finished \in [Runs -> Nat]
    /\ status \in {"active", "paused", "deleted"}
    /\ errors \in Nat
    /\ summary \in Runs \cup {"none"}
    /\ history \subseteq [run : Runs, outcome : Outcomes, notified : BOOLEAN]
    /\ counted \subseteq Runs
    /\ faults \in 0..MaxFaults

Init ==
    /\ stage = [r \in Runs |-> "due"]
    /\ kind = [r \in Runs |-> "none"]
    /\ plan = [r \in Runs |-> NoPlan]
    /\ attempt = [r \in Runs |-> 0]
    /\ target = [r \in Runs |-> [a \in Attempts |-> "unsent"]]
    /\ outcome = [r \in Runs |-> "none"]
    /\ creator = [r \in Runs |-> "unsent"]
    /\ notified = [r \in Runs |-> FALSE]
    /\ finished = [r \in Runs |-> 0]
    /\ status = "active"
    /\ errors = 0
    /\ summary = "none"
    /\ history = {}
    /\ counted = {}
    /\ faults = 0

Goto(r, s) == stage' = [stage EXCEPT ![r] = s]

-----------------------------------------------------------------------------
(* The fire and the load *)

\* max_instances: one run at a time of the trigger job, one of the run-now job.
Fire(r, k) ==
    /\ stage[r] = "due"
    /\ \A q \in Runs : InFlight(q) => kind[q] # k
    /\ kind' = [kind EXCEPT ![r] = k]
    /\ Goto(r, "load")
    /\ UNCHANGED <<plan, attempt, outcome, notified, finished, worldVars, recordVars, faults>>

\* run_action has returned: finished_at is read and the summary update is sent.
Conclude(r, result) ==
    /\ outcome' = [outcome EXCEPT ![r] = result]
    /\ finished' = [finished EXCEPT ![r] = 1 + Cardinality({q \in Runs : finished[q] > 0})]
    /\ Goto(r, "summary")

LoadNothing(r) ==
    /\ stage[r] = "load"
    /\ ~Present
    /\ Goto(r, "ended")
    /\ UNCHANGED <<kind, plan, attempt, outcome, notified, finished, worldVars, recordVars, faults>>

Load(r) ==
    /\ stage[r] = "load"
    /\ Present
    /\ \E p \in Plans : plan' = [plan EXCEPT ![r] = p]
    /\ Goto(r, "guard")
    /\ UNCHANGED <<kind, attempt, outcome, notified, finished, worldVars, recordVars, faults>>

\* A schedule with no action (a legacy one) succeeds at once.
NoAction(r) ==
    /\ stage[r] = "guard"
    /\ ~plan[r].webhook
    /\ Conclude(r, "success")
    /\ UNCHANGED <<kind, plan, attempt, notified, worldVars, recordVars, faults>>

-----------------------------------------------------------------------------
(* _call_webhook *)

GuardPasses(r) ==
    /\ stage[r] = "guard"
    /\ plan[r].webhook
    /\ target' = [target EXCEPT ![r][0] = "sent"]
    /\ Goto(r, "request")
    /\ UNCHANGED <<kind, plan, attempt, outcome, notified, finished, creator, recordVars, faults>>

\* A blocked target or one that does not resolve is not tried again; nor is
\* anything that is not an httpx.HTTPError once the request is under way.
Unexpected(r) ==
    /\ stage[r] \in {"guard", "request"}
    /\ plan[r].webhook
    /\ Conclude(r, "unexpected")
    /\ UNCHANGED <<kind, plan, attempt, notified, worldVars, recordVars, faults>>

\* The receiver gets the request: now, or after the client has moved on.
Receive(r, a) ==
    /\ target[r][a] = "sent"
    /\ \E answer \in {"accepted", "refused"} : target' = [target EXCEPT ![r][a] = answer]
    /\ UNCHANGED <<runningVars, creator, recordVars, faults>>

\* A 2xx has arrived.
Succeed(r) ==
    /\ stage[r] = "request"
    /\ target[r][attempt[r]] = "accepted"
    /\ Conclude(r, "success")
    /\ UNCHANGED <<kind, plan, attempt, notified, worldVars, recordVars, faults>>

\* Seeded bug: max_retries taken for the number of attempts.
OneShort(r) == attempt[r] + 1 >= plan[r].retries

\* Seeded bug: one retry too many.
OneMore(r) == attempt[r] = plan[r].retries + 1

LastAttempt(r) == attempt[r] + 1 = plan[r].retries + 1

\* Seeded bug: no timeout, only an answer ends an attempt.
WaitsForAnswer(r) ==
    /\ stage[r] = "request"
    /\ target[r][attempt[r]] = "refused"
    /\ IF LastAttempt(r) THEN Conclude(r, "refused")
                         ELSE Goto(r, "backoff") /\ UNCHANGED <<outcome, finished>>
    /\ UNCHANGED <<kind, plan, attempt, notified, worldVars, recordVars, faults>>

\* An answer other than 2xx, or no answer in time, whatever the receiver did.
AttemptFails(r) ==
    /\ stage[r] = "request"
    /\ \E why \in {"refused", "silent"} :
          /\ why = "refused" => target[r][attempt[r]] = "refused"
          /\ IF LastAttempt(r) THEN Conclude(r, why)
                               ELSE Goto(r, "backoff") /\ UNCHANGED <<outcome, finished>>
    /\ UNCHANGED <<kind, plan, attempt, notified, worldVars, recordVars, faults>>

Retry(r) ==
    /\ stage[r] = "backoff"
    /\ attempt' = [attempt EXCEPT ![r] = @ + 1]
    /\ target' = [target EXCEPT ![r][attempt[r] + 1] = "sent"]
    /\ Goto(r, "request")
    /\ UNCHANGED <<kind, plan, outcome, notified, finished, creator, recordVars, faults>>

-----------------------------------------------------------------------------
(* The summary, the callback and the history, in that order *)

\* Seeded bug: every run adds to the errors, a success too.
SummaryCountsAll(r) ==
    /\ stage[r] = "summary"
    /\ IF Present
       THEN /\ summary' = r
            /\ counted' = counted \cup {r}
            /\ errors' = errors + 1
       ELSE UNCHANGED <<summary, counted, errors>>
    /\ Goto(r, IF Failed(r) THEN "check" ELSE "notify")
    /\ UNCHANGED <<kind, plan, attempt, outcome, notified, finished, worldVars, status,
                   history, faults>>

TakeIn(r) ==
    /\ summary' = r
    /\ counted' = counted \cup {r}
    /\ errors' = IF Failed(r) THEN errors + 1 ELSE 0

\* A document deleted meanwhile is not revived.
RecordSummary(r) ==
    /\ stage[r] = "summary"
    /\ IF Present
       THEN TakeIn(r)
       ELSE UNCHANGED <<summary, counted, errors>>
    /\ Goto(r, IF Failed(r) THEN "check" ELSE "notify")
    /\ UNCHANGED <<kind, plan, attempt, outcome, notified, finished, worldVars, status,
                   history, faults>>

Failing == status = "active" /\ errors >= Threshold

\* pause_if_failing: the conditional update, and the removal of the job (which
\* is not in the picture) if it has paused the schedule.
Check(r) ==
    /\ stage[r] = "check"
    /\ status' = IF Failing THEN "paused" ELSE status
    /\ Goto(r, IF Failing THEN "disarm" ELSE "notify")
    /\ UNCHANGED <<kind, plan, attempt, outcome, notified, finished, worldVars, errors,
                   summary, history,
                   counted, faults>>

Disarm(r) ==
    /\ stage[r] = "disarm"
    /\ Goto(r, "notify")
    /\ UNCHANGED <<kind, plan, attempt, outcome, notified, finished, worldVars, recordVars, faults>>

\* No callback is asked for, or its target is refused: notified is false.
NoPost(r) ==
    /\ stage[r] = "notify"
    /\ Goto(r, "history")
    /\ UNCHANGED <<kind, plan, attempt, outcome, notified, finished, worldVars, recordVars, faults>>

Post(r) ==
    /\ stage[r] = "notify"
    /\ plan[r].callback
    /\ creator' = [creator EXCEPT ![r] = "sent"]
    /\ Goto(r, "posting")
    /\ UNCHANGED <<kind, plan, attempt, outcome, notified, finished, target, recordVars, faults>>

Told(r) ==
    /\ creator[r] = "sent"
    /\ creator' = [creator EXCEPT ![r] = "told"]
    /\ UNCHANGED <<runningVars, target, recordVars, faults>>

\* Seeded bug: the callback counts as delivered once it is sent.
PostSent(r) ==
    /\ stage[r] = "posting"
    /\ notified' = [notified EXCEPT ![r] = TRUE]
    /\ Goto(r, "history")
    /\ UNCHANGED <<kind, plan, attempt, outcome, finished, worldVars, recordVars, faults>>

\* Seeded bug: a callback that fails takes the run with it.
PostRaises(r) ==
    /\ stage[r] = "posting"
    /\ IF creator[r] = "told" THEN Goto(r, "history") ELSE Goto(r, "ended")
    /\ UNCHANGED <<kind, plan, attempt, outcome, notified, finished, worldVars, recordVars, faults>>

\* A 2xx came back, or it did not (refused, lost or late): no retry.
PostEnds(r) ==
    /\ stage[r] = "posting"
    /\ \E answered \in BOOLEAN :
          /\ answered => creator[r] = "told"
          /\ notified' = [notified EXCEPT ![r] = answered]
    /\ Goto(r, "history")
    /\ UNCHANGED <<kind, plan, attempt, outcome, finished, worldVars, recordVars, faults>>

StoreRun(r) ==
    /\ stage[r] = "history"
    /\ history' = history \cup {[run |-> r, outcome |-> outcome[r], notified |-> notified[r]]}
    /\ Goto(r, "ended")
    /\ UNCHANGED <<kind, plan, attempt, outcome, notified, finished, worldVars, docVars,
                   summary, counted, faults>>

-----------------------------------------------------------------------------
(* What goes wrong around a run *)

Fault == faults < MaxFaults /\ faults' = faults + 1

\* Seeded bug: a summary that cannot be written is swallowed like the history.
SummarySwallowed(r) ==
    /\ Fault
    /\ stage[r] \in {"load", "summary", "check", "disarm", "history"}
    /\ Goto(r, IF stage[r] = "summary" THEN "notify" ELSE "ended")
    /\ UNCHANGED <<kind, plan, attempt, outcome, notified, finished, worldVars, recordVars>>

\* A database operation raises.  The history is the last one, and swallowed;
\* after any other, APScheduler logs the exception and the run is over.
StepFails(r) ==
    /\ Fault
    /\ stage[r] \in {"load", "summary", "check", "disarm", "history"}
    /\ Goto(r, "ended")
    /\ UNCHANGED <<kind, plan, attempt, outcome, notified, finished, worldVars, recordVars>>

\* The summary or the pause was written, its reply is lost, and the run is over.
\* (A history record is like one that was acknowledged.)
ReplyLost(r) ==
    /\ Fault
    /\ \/ stage[r] = "summary" /\ Present /\ TakeIn(r) /\ UNCHANGED status
       \/ /\ stage[r] = "check" /\ Failing
          /\ status' = "paused"
          /\ UNCHANGED <<errors, summary, counted>>
    /\ Goto(r, "ended")
    /\ UNCHANGED <<kind, plan, attempt, outcome, notified, finished, worldVars, history>>

\* The process stops, killed or shut down: the runs in flight are cancelled.
Stop ==
    /\ Fault
    /\ \E r \in Runs : InFlight(r)
    /\ stage' = [r \in Runs |-> IF InFlight(r) THEN "ended" ELSE stage[r]]
    /\ UNCHANGED <<kind, plan, attempt, outcome, notified, finished, worldVars, recordVars>>

\* A caller deletes the schedule.  Its history stays.
Delete ==
    /\ Present
    /\ status' = "deleted"
    /\ UNCHANGED <<runningVars, worldVars, errors, summary, history, counted, faults>>

RunStep(r) ==
    \/ LoadNothing(r) \/ Load(r) \/ NoAction(r)
    \/ GuardPasses(r) \/ Succeed(r) \/ AttemptFails(r) \/ Retry(r)
    \/ RecordSummary(r) \/ Check(r) \/ Disarm(r)
    \/ NoPost(r) \/ Post(r) \/ PostEnds(r) \/ StoreRun(r)

Next ==
    \/ \E r \in Runs :
          \/ \E k \in JobKinds : Fire(r, k)
          \/ RunStep(r)
          \/ \E a \in Attempts : Receive(r, a)
          \/ Told(r)
          \/ Unexpected(r) \/ StepFails(r) \/ ReplyLost(r)
    \/ Stop
    \/ Delete

Spec == Init /\ [][Next]_vars

\* The receiver has the request that r waits on, and may be answering.
Answering(r) ==
    \/ stage[r] = "request" /\ target[r][attempt[r]] # "sent"
    \/ stage[r] = "posting" /\ creator[r] = "told"

\* An await of a run ends: the resolver answers, a request that gets no byte for
\* timeout_seconds is given up, the sleep is over, a database operation returns
\* or raises.  httpx's timeout is between two bytes, so nothing obliges an answer
\* that has started to end, nor a receiver to answer, a job to fire or a call to
\* fail.
Fairness == \A r \in Runs : WF_vars(RunStep(r) /\ ~Answering(r))

LiveSpec == Spec /\ Fairness

-----------------------------------------------------------------------------
(* Properties *)

\* run_action's result is earned: a success is the receiver's acceptance of the
\* last request sent, a failure it does not call unexpected has used up the
\* retries the action allows, and the status it reports is the last answer's.
OutcomeEarned ==
    \A r \in Runs :
        /\ outcome[r] = "success" /\ plan[r].webhook => target[r][attempt[r]] = "accepted"
        /\ outcome[r] = "refused" => target[r][attempt[r]] = "refused"
        /\ outcome[r] \in {"refused", "silent"} => attempt[r] = plan[r].retries
        /\ \A a \in Attempts : a > attempt[r] => target[r][a] = "unsent"

Reported(r) == creator[r] # "unsent" \/ \E rec \in history : rec.run = r

\* jobs.py: the summary is written "in that order, so the error count is never
\* lost to a failure in a best-effort step": nobody hears of a run, by callback
\* or in the history, that the schedule has not counted.
CountedBeforeReported ==
    \A r \in Runs : Reported(r) => r \in counted \/ ~Present

\* A record that says notified is right: the creator has the result.
NotifiedIsTrue ==
    \A rec \in history : rec.notified => creator[rec.run] = "told"

\* "Every fire writes its own run record": unless the database failed or the
\* process stopped, a run that got an outcome leaves one record of it, and a
\* failing callback does not change that.
EveryRunRecorded ==
    faults = 0 =>
        \A r \in Runs :
            stage[r] = "ended" /\ outcome[r] # "none" =>
                \E rec \in history : rec.run = r /\ rec.outcome = outcome[r]

\* A run comes to its end, so its job's one instance is free again for the next
\* fire, unless one of its receivers, having the request, never ends its answer:
\* timeout_seconds, a "per-attempt timeout" in docs/concepts/actions.md, does not
\* stop that.
RunEnds == \A r \in Runs : InFlight(r) ~> stage[r] = "ended" \/ []Answering(r)

\* What Run has of all this: the schedule, and for each of its two jobs the
\* stage of the run it has in flight.
The == "schedule"

Seen(r) ==
    CASE stage[r] = "load" -> "load"
      [] stage[r] \in {"guard", "request", "backoff"} -> "calling"
      [] stage[r] = "summary" -> IF Failed(r) THEN "failure" ELSE "success"
      [] stage[r] \in {"check", "disarm"} -> stage[r]
      [] stage[r] \in {"notify", "posting", "history"} -> "report"
      [] OTHER -> "free"

Flying(k) == {r \in Runs : InFlight(r) /\ kind[r] = k}

RunSeen ==
    [s \in {The} |-> [k \in JobKinds |->
        IF Flying(k) = {} THEN "free" ELSE Seen(CHOOSE r \in Flying(k) : TRUE)]]

DocSeen == [s \in {The} |-> [status |-> status, trigger |-> "t", errors |-> errors]]

\* Each run fails once at most, so ErrorCap is not in the way.
View ==
    INSTANCE Run
        WITH Schedules <- {The}, Triggers <- {"t"}, Invalid <- {}, OneShot <- {}, Endless <- {"t"},
             Threshold <- Threshold, ErrorCap <- Threshold + Cardinality(Runs),
             doc <- DocSeen, job <- [s \in {The} |-> "none"], queued <- {}, expired <- {},
             run <- RunSeen

Fired(k) ==
    /\ RunSeen[The][k] = "free"
    /\ View!Advance(The, k, "load")
    /\ UNCHANGED View!storeVars

Stopped == View!RunInit' /\ UNCHANGED View!storeVars

Deleted == DocSeen' = [DocSeen EXCEPT ![The].status = "deleted"] /\ UNCHANGED RunSeen

\* What may happen to the schedule and its runs, in Run's words.
RunMoves ==
    \/ \E k \in JobKinds :
          \/ View!RunStep(The, k) \/ View!RunFails(The, k) \/ View!RunReplyLost(The, k)
          \/ Fired(k)
    \/ Stopped
    \/ Deleted

\* The retries, the callback and the history are what Run says of them in its
\* few steps: each step here is one of Run's, or nothing to it.  So what
\* SchedulingService shows of runs rests on webhooks as they are, and a run's
\* outcome, however late, goes into the error count of the right moment.
FollowsRun == [][RunMoves]_<<RunSeen, View!storeVars>>

\* What the proofs carry along: the outcome is known from the summary on, the
\* requests sent are those up to attempt, and what is reported was counted.
OnTrack(r) ==
    /\ stage[r] \in {"due", "load", "guard", "request", "backoff"} => outcome[r] = "none"
    /\ stage[r] \in {"due", "load", "guard"} => attempt[r] = 0 /\ target[r][0] = "unsent"
    /\ attempt[r] <= plan[r].retries
    /\ stage[r] = "backoff" => attempt[r] < plan[r].retries
    /\ stage[r] \in {"check", "disarm", "notify", "posting", "history"} => r \in counted \/ ~Present
    /\ notified[r] => creator[r] = "told"
    /\ stage[r] \notin {"history", "ended"} => ~notified[r]

DeliveryInv ==
    /\ DeliveryTypeOK
    /\ \A r \in Runs : OnTrack(r)
    /\ \A rec \in history : stage[rec.run] = "ended"
    /\ OutcomeEarned
    /\ CountedBeforeReported
    /\ NotifiedIsTrue
    /\ EveryRunRecorded

-----------------------------------------------------------------------------
(* What the documentation says and the code does not keep.                  *)

\* docs/concepts/actions.md: "The schedule itself also keeps a quick summary of
\* the latest run".
SummaryIsLatest ==
    (\A r \in Runs : ~InFlight(r)) =>
        \A r \in counted : finished[r] <= finished[summary]
==============================================================================
