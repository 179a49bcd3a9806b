---------------------------- MODULE DeliveryProofs ----------------------------
(***************************************************************************)
(* Theorems about Delivery, for every set of runs, every number of retries  *)
(* and any number of faults: the invariants the run of MCDelivery checks    *)
(* for one run at a time, and that Delivery implements the steps of Run.    *)
(***************************************************************************)
EXTENDS Delivery, FiniteSetTheorems, TLAPS

\* The rank Conclude gives is a number.
LEMMA RankIsNat ==
    ASSUME DeliveryTypeOK
    PROVE  1 + Cardinality({q \in Runs : finished[q] > 0}) \in Nat
<1>1. {q \in Runs : finished[q] > 0} \subseteq Runs
  OBVIOUS
<1>2. IsFiniteSet({q \in Runs : finished[q] > 0})
  BY <1>1, FS_Subset, DeliveryAssumption DEF DeliveryAssumption
<1>3. Cardinality({q \in Runs : finished[q] > 0}) \in Nat
  BY <1>2, FS_CardinalityType
<1> QED
  BY <1>3

\* The initial states satisfy the inductive invariant.
LEMMA InitInv == Init => DeliveryInv
<1> SUFFICES ASSUME Init PROVE DeliveryInv
  OBVIOUS
<1>1. DeliveryTypeOK
  BY DeliveryAssumption DEF DeliveryAssumption, Init, DeliveryTypeOK, Stages, PlanShapes, NoPlan,
     Attempts, Outcomes
<1>2. \A r \in Runs : target[r][0] = "unsent"
  BY DeliveryAssumption DEF DeliveryAssumption, Init, Attempts
<1> QED
  BY <1>1, <1>2 DEF Init, DeliveryInv, OnTrack, NoPlan, OutcomeEarned, CountedBeforeReported,
     Reported, NotifiedIsTrue, EveryRunRecorded

\* A fire starts a run that has nothing to report yet.
LEMMA FireInv ==
    ASSUME DeliveryInv, NEW r \in Runs, NEW k \in JobKinds, Fire(r, k)
    PROVE  DeliveryInv'
<1> USE DEF Fire, Goto, worldVars, recordVars, docVars, Present
<1>1. DeliveryTypeOK'
  BY DeliveryAssumption DEF DeliveryAssumption, DeliveryInv, DeliveryTypeOK, JobKinds, Stages
<1>2. \A q \in Runs : OnTrack(q)'
  BY DeliveryAssumption DEF DeliveryAssumption, DeliveryInv, OnTrack, DeliveryTypeOK, PlanShapes, Attempts
<1>3. OutcomeEarned'
  BY DeliveryAssumption DEF DeliveryAssumption, DeliveryInv, OnTrack, OutcomeEarned, DeliveryTypeOK, PlanShapes, Attempts
<1>4. CountedBeforeReported'
  BY DEF DeliveryInv, OnTrack, CountedBeforeReported, Reported, DeliveryTypeOK
<1>5. NotifiedIsTrue'
  BY DEF DeliveryInv, OnTrack, NotifiedIsTrue, DeliveryTypeOK
<1>6. EveryRunRecorded'
  BY DEF DeliveryInv, OnTrack, EveryRunRecorded, DeliveryTypeOK
<1>7. \A rec \in history' : stage'[rec.run] = "ended"
  BY DEF DeliveryInv, DeliveryTypeOK
<1> QED
  BY <1>1, <1>2, <1>3, <1>4, <1>5, <1>6, <1>7 DEF DeliveryInv

\* The run of a deleted schedule ends before it has an outcome.
LEMMA LoadNothingInv ==
    ASSUME DeliveryInv, NEW r \in Runs, LoadNothing(r)
    PROVE  DeliveryInv'
<1> USE DEF LoadNothing, Goto, worldVars, recordVars, docVars, Present
<1>1. DeliveryTypeOK'
  BY DeliveryAssumption DEF DeliveryAssumption, DeliveryInv, DeliveryTypeOK, Stages
<1>2. \A q \in Runs : OnTrack(q)'
  BY DeliveryAssumption DEF DeliveryAssumption, DeliveryInv, OnTrack, DeliveryTypeOK, PlanShapes, Attempts
<1>3. OutcomeEarned'
  BY DeliveryAssumption DEF DeliveryAssumption, DeliveryInv, OnTrack, OutcomeEarned, DeliveryTypeOK, PlanShapes, Attempts
<1>4. CountedBeforeReported'
  BY DEF DeliveryInv, OnTrack, CountedBeforeReported, Reported, DeliveryTypeOK
<1>5. NotifiedIsTrue'
  BY DEF DeliveryInv, OnTrack, NotifiedIsTrue, DeliveryTypeOK
<1>6. EveryRunRecorded'
  BY DEF DeliveryInv, OnTrack, EveryRunRecorded, DeliveryTypeOK
<1>7. \A rec \in history' : stage'[rec.run] = "ended"
  BY DEF DeliveryInv, DeliveryTypeOK
<1> QED
  BY <1>1, <1>2, <1>3, <1>4, <1>5, <1>6, <1>7 DEF DeliveryInv

\* A run that has no action succeeds at once, with nothing sent.
LEMMA LoadInv ==
    ASSUME DeliveryInv, NEW r \in Runs, Load(r)
    PROVE  DeliveryInv'
<1> USE DEF Load, Goto, worldVars, recordVars, docVars, Present
<1>1. DeliveryTypeOK'
  BY DeliveryAssumption DEF DeliveryAssumption, DeliveryInv, DeliveryTypeOK, Stages
<1>2. \A q \in Runs : OnTrack(q)'
  BY DeliveryAssumption DEF DeliveryAssumption, DeliveryInv, OnTrack, DeliveryTypeOK, PlanShapes, Attempts
<1>3. OutcomeEarned'
  BY DeliveryAssumption DEF DeliveryAssumption, DeliveryInv, OnTrack, OutcomeEarned, DeliveryTypeOK, PlanShapes, Attempts
<1>4. CountedBeforeReported'
  BY DEF DeliveryInv, OnTrack, CountedBeforeReported, Reported, DeliveryTypeOK
<1>5. NotifiedIsTrue'
  BY DEF DeliveryInv, OnTrack, NotifiedIsTrue, DeliveryTypeOK
<1>6. EveryRunRecorded'
  BY DEF DeliveryInv, OnTrack, EveryRunRecorded, DeliveryTypeOK
<1>7. \A rec \in history' : stage'[rec.run] = "ended"
  BY DEF DeliveryInv, DeliveryTypeOK
<1> QED
  BY <1>1, <1>2, <1>3, <1>4, <1>5, <1>6, <1>7 DEF DeliveryInv

\* The first request is sent.
LEMMA GuardPassesInv ==
    ASSUME DeliveryInv, NEW r \in Runs, GuardPasses(r)
    PROVE  DeliveryInv'
<1> USE DEF GuardPasses, Goto, recordVars, docVars, Present
<1>1. DeliveryTypeOK'
  BY DeliveryAssumption DEF DeliveryAssumption, DeliveryInv, DeliveryTypeOK, OnTrack, Stages, Attempts, PlanShapes
<1>2. \A q \in Runs : OnTrack(q)'
  BY DeliveryAssumption DEF DeliveryAssumption, DeliveryInv, OnTrack, DeliveryTypeOK, PlanShapes, Attempts
<1>3. OutcomeEarned'
  BY DeliveryAssumption DEF DeliveryAssumption, DeliveryInv, OnTrack, OutcomeEarned, DeliveryTypeOK, PlanShapes, Attempts
<1>4. CountedBeforeReported'
  BY DEF DeliveryInv, OnTrack, CountedBeforeReported, Reported, DeliveryTypeOK
<1>5. NotifiedIsTrue'
  BY DEF DeliveryInv, OnTrack, NotifiedIsTrue, DeliveryTypeOK
<1>6. EveryRunRecorded'
  BY DEF DeliveryInv, OnTrack, EveryRunRecorded, DeliveryTypeOK
<1>7. \A rec \in history' : stage'[rec.run] = "ended"
  BY DEF DeliveryInv, DeliveryTypeOK
<1> QED
  BY <1>1, <1>2, <1>3, <1>4, <1>5, <1>6, <1>7 DEF DeliveryInv

\* A failure that is not retried.
LEMMA UnexpectedInv ==
    ASSUME DeliveryInv, NEW r \in Runs, Unexpected(r)
    PROVE  DeliveryInv'
<1> USE DEF Unexpected, Conclude, Goto, worldVars, recordVars, docVars, Present
<1>1. DeliveryTypeOK'
  BY RankIsNat, DeliveryAssumption DEF DeliveryAssumption, DeliveryInv, DeliveryTypeOK, Stages, Outcomes, PlanShapes
<1>2. \A q \in Runs : OnTrack(q)'
  BY DeliveryAssumption DEF DeliveryAssumption, DeliveryInv, OnTrack, DeliveryTypeOK, PlanShapes, Attempts
<1>3. OutcomeEarned'
  BY DeliveryAssumption DEF DeliveryAssumption, DeliveryInv, OnTrack, OutcomeEarned, DeliveryTypeOK, PlanShapes, Attempts
<1>4. CountedBeforeReported'
  BY DEF DeliveryInv, OnTrack, CountedBeforeReported, Reported, DeliveryTypeOK
<1>5. NotifiedIsTrue'
  BY DEF DeliveryInv, OnTrack, NotifiedIsTrue, DeliveryTypeOK
<1>6. EveryRunRecorded'
  BY DEF DeliveryInv, OnTrack, EveryRunRecorded, DeliveryTypeOK
<1>7. \A rec \in history' : stage'[rec.run] = "ended"
  BY DEF DeliveryInv, DeliveryTypeOK
<1> QED
  BY <1>1, <1>2, <1>3, <1>4, <1>5, <1>6, <1>7 DEF DeliveryInv

\* A receiver answers, whatever the client is doing: only a request under way changes.
LEMMA ReceiveInv ==
    ASSUME DeliveryInv, NEW r \in Runs, NEW a \in Attempts, Receive(r, a)
    PROVE  DeliveryInv'
<1> USE DEF Receive, runningVars, recordVars, docVars, Present
<1>1. DeliveryTypeOK'
  BY DeliveryAssumption DEF DeliveryAssumption, DeliveryInv, DeliveryTypeOK, Attempts
<1>2. \A q \in Runs : OnTrack(q)'
  BY DeliveryAssumption DEF DeliveryAssumption, DeliveryInv, OnTrack, DeliveryTypeOK, PlanShapes, Attempts
<1>3. OutcomeEarned'
  BY DeliveryAssumption DEF DeliveryAssumption, DeliveryInv, OnTrack, OutcomeEarned, DeliveryTypeOK, PlanShapes, Attempts
<1>4. CountedBeforeReported'
  BY DEF DeliveryInv, OnTrack, CountedBeforeReported, Reported, DeliveryTypeOK
<1>5. NotifiedIsTrue'
  BY DEF DeliveryInv, OnTrack, NotifiedIsTrue, DeliveryTypeOK
<1>6. EveryRunRecorded'
  BY DEF DeliveryInv, OnTrack, EveryRunRecorded, DeliveryTypeOK
<1>7. \A rec \in history' : stage'[rec.run] = "ended"
  BY DEF DeliveryInv, DeliveryTypeOK
<1> QED
  BY <1>1, <1>2, <1>3, <1>4, <1>5, <1>6, <1>7 DEF DeliveryInv

\* Without an action there is nothing to send, and no retries.
LEMMA NoActionInv ==
    ASSUME DeliveryInv, NEW r \in Runs, NoAction(r)
    PROVE  DeliveryInv'
<1> USE DEF NoAction, Conclude, Goto, worldVars, recordVars, docVars, Present
<1>1. DeliveryTypeOK'
  BY RankIsNat, DeliveryAssumption DEF DeliveryAssumption, DeliveryInv, DeliveryTypeOK, Stages, Outcomes, PlanShapes
<1>2. \A q \in Runs : OnTrack(q)'
  BY DeliveryAssumption DEF DeliveryAssumption, DeliveryInv, OnTrack, DeliveryTypeOK, PlanShapes, Attempts
<1>3. OutcomeEarned'
  BY DeliveryAssumption DEF DeliveryAssumption, DeliveryInv, OnTrack, OutcomeEarned, DeliveryTypeOK, PlanShapes, Attempts
<1>4. CountedBeforeReported'
  BY DEF DeliveryInv, OnTrack, CountedBeforeReported, Reported, DeliveryTypeOK
<1>5. NotifiedIsTrue'
  BY DEF DeliveryInv, OnTrack, NotifiedIsTrue, DeliveryTypeOK
<1>6. EveryRunRecorded'
  BY DEF DeliveryInv, OnTrack, EveryRunRecorded, DeliveryTypeOK
<1>7. \A rec \in history' : stage'[rec.run] = "ended"
  BY DEF DeliveryInv, DeliveryTypeOK
<1> QED
  BY <1>1, <1>2, <1>3, <1>4, <1>5, <1>6, <1>7 DEF DeliveryInv

\* The success is the answer to the request of this attempt.
LEMMA SucceedInv ==
    ASSUME DeliveryInv, NEW r \in Runs, Succeed(r)
    PROVE  DeliveryInv'
<1> USE DEF Succeed, Conclude, Goto, worldVars, recordVars, docVars, Present
<1>1. DeliveryTypeOK'
  BY RankIsNat, DeliveryAssumption DEF DeliveryAssumption, DeliveryInv, DeliveryTypeOK, Stages, Outcomes, PlanShapes
<1>2. \A q \in Runs : OnTrack(q)'
  BY DeliveryAssumption DEF DeliveryAssumption, DeliveryInv, OnTrack, DeliveryTypeOK, PlanShapes, Attempts
<1>3. OutcomeEarned'
  BY DeliveryAssumption DEF DeliveryAssumption, DeliveryInv, OnTrack, OutcomeEarned, DeliveryTypeOK, PlanShapes, Attempts
<1>4. CountedBeforeReported'
  BY DEF DeliveryInv, OnTrack, CountedBeforeReported, Reported, DeliveryTypeOK
<1>5. NotifiedIsTrue'
  BY DEF DeliveryInv, OnTrack, NotifiedIsTrue, DeliveryTypeOK
<1>6. EveryRunRecorded'
  BY DEF DeliveryInv, OnTrack, EveryRunRecorded, DeliveryTypeOK
<1>7. \A rec \in history' : stage'[rec.run] = "ended"
  BY DEF DeliveryInv, DeliveryTypeOK
<1> QED
  BY <1>1, <1>2, <1>3, <1>4, <1>5, <1>6, <1>7 DEF DeliveryInv

\* Only the last attempt the action allows ends in a failure.
LEMMA AttemptFailsInv ==
    ASSUME DeliveryInv, NEW r \in Runs, AttemptFails(r)
    PROVE  DeliveryInv'
<1>1. DeliveryTypeOK'
  <2>1. PICK why \in {"refused", "silent"} :
          IF LastAttempt(r) THEN Conclude(r, why)
                            ELSE Goto(r, "backoff") /\ UNCHANGED <<outcome, finished>>
    BY DEF AttemptFails
  <2>2. why \in Outcomes
    BY DEF Outcomes
  <2>3. stage' \in [Runs -> Stages]
    BY <2>1 DEF DeliveryInv, DeliveryTypeOK, Stages, Conclude, Goto
  <2>4. outcome' \in [Runs -> Outcomes]
    BY <2>1, <2>2 DEF DeliveryInv, DeliveryTypeOK, Outcomes, Conclude
  <2>5. finished' \in [Runs -> Nat]
    BY <2>1, RankIsNat DEF DeliveryInv, DeliveryTypeOK, Conclude
  <2> QED
    BY <2>1, <2>2, <2>3, <2>4, <2>5 DEF DeliveryInv, DeliveryTypeOK, AttemptFails, worldVars, recordVars, docVars
<1>8. Present' = Present
  BY DEF Present, AttemptFails, recordVars, docVars
<1> USE DEF AttemptFails, Conclude, LastAttempt, Goto, worldVars, recordVars, docVars
<1>2. \A q \in Runs : OnTrack(q)'
  BY <1>8, DeliveryAssumption DEF DeliveryAssumption, DeliveryInv, OnTrack, DeliveryTypeOK, PlanShapes, Attempts
<1>3. OutcomeEarned'
  BY DeliveryAssumption DEF DeliveryAssumption, DeliveryInv, OnTrack, OutcomeEarned, DeliveryTypeOK, PlanShapes, Attempts
<1>4. CountedBeforeReported'
  BY <1>8 DEF DeliveryInv, OnTrack, CountedBeforeReported, Reported, DeliveryTypeOK
<1>5. NotifiedIsTrue'
  BY DEF DeliveryInv, OnTrack, NotifiedIsTrue, DeliveryTypeOK
<1>6. EveryRunRecorded'
  BY <1>8 DEF DeliveryInv, OnTrack, EveryRunRecorded, DeliveryTypeOK
<1>7. \A rec \in history' : stage'[rec.run] = "ended"
  BY DEF DeliveryInv, DeliveryTypeOK
<1> QED
  BY <1>1, <1>2, <1>3, <1>4, <1>5, <1>6, <1>7 DEF DeliveryInv

\* Attempts stay within the retries the action allows.
LEMMA RetryInv ==
    ASSUME DeliveryInv, NEW r \in Runs, Retry(r)
    PROVE  DeliveryInv'
<1> USE DEF Retry, Goto, recordVars, docVars, Present
<1>1. DeliveryTypeOK'
  BY DeliveryAssumption DEF DeliveryAssumption, DeliveryInv, DeliveryTypeOK, OnTrack, Stages, Attempts, PlanShapes
<1>2. \A q \in Runs : OnTrack(q)'
  BY DeliveryAssumption DEF DeliveryAssumption, DeliveryInv, OnTrack, DeliveryTypeOK, PlanShapes, Attempts
<1>3. OutcomeEarned'
  BY DeliveryAssumption DEF DeliveryAssumption, DeliveryInv, OnTrack, OutcomeEarned, DeliveryTypeOK, PlanShapes, Attempts
<1>4. CountedBeforeReported'
  BY DEF DeliveryInv, OnTrack, CountedBeforeReported, Reported, DeliveryTypeOK
<1>5. NotifiedIsTrue'
  BY DEF DeliveryInv, OnTrack, NotifiedIsTrue, DeliveryTypeOK
<1>6. EveryRunRecorded'
  BY DEF DeliveryInv, OnTrack, EveryRunRecorded, DeliveryTypeOK
<1>7. \A rec \in history' : stage'[rec.run] = "ended"
  BY DEF DeliveryInv, DeliveryTypeOK
<1> QED
  BY <1>1, <1>2, <1>3, <1>4, <1>5, <1>6, <1>7 DEF DeliveryInv

\* The outcome is counted before the run goes on, unless the document is gone.
LEMMA RecordSummaryInv ==
    ASSUME DeliveryInv, NEW r \in Runs, RecordSummary(r)
    PROVE  DeliveryInv'
<1> USE DEF RecordSummary, TakeIn, Failed, Goto, worldVars, docVars, Present
<1>1. DeliveryTypeOK'
  BY DeliveryAssumption DEF DeliveryAssumption, DeliveryInv, DeliveryTypeOK, Stages
<1>2. \A q \in Runs : OnTrack(q)'
  BY DeliveryAssumption DEF DeliveryAssumption, DeliveryInv, OnTrack, DeliveryTypeOK, PlanShapes, Attempts
<1>3. OutcomeEarned'
  BY DeliveryAssumption DEF DeliveryAssumption, DeliveryInv, OnTrack, OutcomeEarned, DeliveryTypeOK, PlanShapes, Attempts
<1>4. CountedBeforeReported'
  BY DEF DeliveryInv, OnTrack, CountedBeforeReported, Reported, DeliveryTypeOK
<1>5. NotifiedIsTrue'
  BY DEF DeliveryInv, OnTrack, NotifiedIsTrue, DeliveryTypeOK
<1>6. EveryRunRecorded'
  BY DEF DeliveryInv, OnTrack, EveryRunRecorded, DeliveryTypeOK
<1>7. \A rec \in history' : stage'[rec.run] = "ended"
  BY DEF DeliveryInv, DeliveryTypeOK
<1> QED
  BY <1>1, <1>2, <1>3, <1>4, <1>5, <1>6, <1>7 DEF DeliveryInv

\* The auto-pause touches neither the run nor what is recorded of it.
LEMMA CheckInv ==
    ASSUME DeliveryInv, NEW r \in Runs, Check(r)
    PROVE  DeliveryInv'
<1> USE DEF Check, Failing, Goto, worldVars, recordVars, docVars, Present
<1>1. DeliveryTypeOK'
  BY DeliveryAssumption DEF DeliveryAssumption, DeliveryInv, DeliveryTypeOK, Stages
<1>2. \A q \in Runs : OnTrack(q)'
  BY DeliveryAssumption DEF DeliveryAssumption, DeliveryInv, OnTrack, DeliveryTypeOK, PlanShapes, Attempts
<1>3. OutcomeEarned'
  BY DeliveryAssumption DEF DeliveryAssumption, DeliveryInv, OnTrack, OutcomeEarned, DeliveryTypeOK, PlanShapes, Attempts
<1>4. CountedBeforeReported'
  BY DEF DeliveryInv, OnTrack, CountedBeforeReported, Reported, DeliveryTypeOK
<1>5. NotifiedIsTrue'
  BY DEF DeliveryInv, OnTrack, NotifiedIsTrue, DeliveryTypeOK
<1>6. EveryRunRecorded'
  BY DEF DeliveryInv, OnTrack, EveryRunRecorded, DeliveryTypeOK
<1>7. \A rec \in history' : stage'[rec.run] = "ended"
  BY DEF DeliveryInv, DeliveryTypeOK
<1> QED
  BY <1>1, <1>2, <1>3, <1>4, <1>5, <1>6, <1>7 DEF DeliveryInv

\* Nor does the removal of the job.
LEMMA DisarmInv ==
    ASSUME DeliveryInv, NEW r \in Runs, Disarm(r)
    PROVE  DeliveryInv'
<1> USE DEF Disarm, Goto, worldVars, recordVars, docVars, Present
<1>1. DeliveryTypeOK'
  BY DeliveryAssumption DEF DeliveryAssumption, DeliveryInv, DeliveryTypeOK, Stages
<1>2. \A q \in Runs : OnTrack(q)'
  BY DeliveryAssumption DEF DeliveryAssumption, DeliveryInv, OnTrack, DeliveryTypeOK, PlanShapes, Attempts
<1>3. OutcomeEarned'
  BY DeliveryAssumption DEF DeliveryAssumption, DeliveryInv, OnTrack, OutcomeEarned, DeliveryTypeOK, PlanShapes, Attempts
<1>4. CountedBeforeReported'
  BY DEF DeliveryInv, OnTrack, CountedBeforeReported, Reported, DeliveryTypeOK
<1>5. NotifiedIsTrue'
  BY DEF DeliveryInv, OnTrack, NotifiedIsTrue, DeliveryTypeOK
<1>6. EveryRunRecorded'
  BY DEF DeliveryInv, OnTrack, EveryRunRecorded, DeliveryTypeOK
<1>7. \A rec \in history' : stage'[rec.run] = "ended"
  BY DEF DeliveryInv, DeliveryTypeOK
<1> QED
  BY <1>1, <1>2, <1>3, <1>4, <1>5, <1>6, <1>7 DEF DeliveryInv

\* Without a callback, notified stays false.
LEMMA NoPostInv ==
    ASSUME DeliveryInv, NEW r \in Runs, NoPost(r)
    PROVE  DeliveryInv'
<1> USE DEF NoPost, Goto, worldVars, recordVars, docVars, Present
<1>1. DeliveryTypeOK'
  BY DeliveryAssumption DEF DeliveryAssumption, DeliveryInv, DeliveryTypeOK, Stages
<1>2. \A q \in Runs : OnTrack(q)'
  BY DeliveryAssumption DEF DeliveryAssumption, DeliveryInv, OnTrack, DeliveryTypeOK, PlanShapes, Attempts
<1>3. OutcomeEarned'
  BY DeliveryAssumption DEF DeliveryAssumption, DeliveryInv, OnTrack, OutcomeEarned, DeliveryTypeOK, PlanShapes, Attempts
<1>4. CountedBeforeReported'
  BY DEF DeliveryInv, OnTrack, CountedBeforeReported, Reported, DeliveryTypeOK
<1>5. NotifiedIsTrue'
  BY DEF DeliveryInv, OnTrack, NotifiedIsTrue, DeliveryTypeOK
<1>6. EveryRunRecorded'
  BY DEF DeliveryInv, OnTrack, EveryRunRecorded, DeliveryTypeOK
<1>7. \A rec \in history' : stage'[rec.run] = "ended"
  BY DEF DeliveryInv, DeliveryTypeOK
<1> QED
  BY <1>1, <1>2, <1>3, <1>4, <1>5, <1>6, <1>7 DEF DeliveryInv

\* The callback is sent after the count.
LEMMA PostInv ==
    ASSUME DeliveryInv, NEW r \in Runs, Post(r)
    PROVE  DeliveryInv'
<1> USE DEF Post, Goto, recordVars, docVars, Present
<1>1. DeliveryTypeOK'
  BY DeliveryAssumption DEF DeliveryAssumption, DeliveryInv, DeliveryTypeOK, Stages
<1>2. \A q \in Runs : OnTrack(q)'
  BY DeliveryAssumption DEF DeliveryAssumption, DeliveryInv, OnTrack, DeliveryTypeOK, PlanShapes, Attempts
<1>3. OutcomeEarned'
  BY DeliveryAssumption DEF DeliveryAssumption, DeliveryInv, OnTrack, OutcomeEarned, DeliveryTypeOK, PlanShapes, Attempts
<1>4. CountedBeforeReported'
  BY DEF DeliveryInv, OnTrack, CountedBeforeReported, Reported, DeliveryTypeOK
<1>5. NotifiedIsTrue'
  BY DEF DeliveryInv, OnTrack, NotifiedIsTrue, DeliveryTypeOK
<1>6. EveryRunRecorded'
  BY DEF DeliveryInv, OnTrack, EveryRunRecorded, DeliveryTypeOK
<1>7. \A rec \in history' : stage'[rec.run] = "ended"
  BY DEF DeliveryInv, DeliveryTypeOK
<1> QED
  BY <1>1, <1>2, <1>3, <1>4, <1>5, <1>6, <1>7 DEF DeliveryInv

\* The creator has the result of a callback that was sent.
LEMMA ToldInv ==
    ASSUME DeliveryInv, NEW r \in Runs, Told(r)
    PROVE  DeliveryInv'
<1> USE DEF Told, runningVars, recordVars, docVars, Present
<1>1. DeliveryTypeOK'
  BY DeliveryAssumption DEF DeliveryAssumption, DeliveryInv, DeliveryTypeOK
<1>2. \A q \in Runs : OnTrack(q)'
  BY DeliveryAssumption DEF DeliveryAssumption, DeliveryInv, OnTrack, DeliveryTypeOK, PlanShapes, Attempts
<1>3. OutcomeEarned'
  BY DeliveryAssumption DEF DeliveryAssumption, DeliveryInv, OnTrack, OutcomeEarned, DeliveryTypeOK, PlanShapes, Attempts
<1>4. CountedBeforeReported'
  BY DEF DeliveryInv, OnTrack, CountedBeforeReported, Reported, DeliveryTypeOK
<1>5. NotifiedIsTrue'
  BY DEF DeliveryInv, OnTrack, NotifiedIsTrue, DeliveryTypeOK
<1>6. EveryRunRecorded'
  BY DEF DeliveryInv, OnTrack, EveryRunRecorded, DeliveryTypeOK
<1>7. \A rec \in history' : stage'[rec.run] = "ended"
  BY DEF DeliveryInv, DeliveryTypeOK
<1> QED
  BY <1>1, <1>2, <1>3, <1>4, <1>5, <1>6, <1>7 DEF DeliveryInv

\* notified is true only when the creator has answered.
LEMMA PostEndsInv ==
    ASSUME DeliveryInv, NEW r \in Runs, PostEnds(r)
    PROVE  DeliveryInv'
<1> USE DEF PostEnds, Goto, worldVars, recordVars, docVars, Present
<1>1. DeliveryTypeOK'
  BY DeliveryAssumption DEF DeliveryAssumption, DeliveryInv, DeliveryTypeOK, Stages
<1>2. \A q \in Runs : OnTrack(q)'
  BY DeliveryAssumption DEF DeliveryAssumption, DeliveryInv, OnTrack, DeliveryTypeOK, PlanShapes, Attempts
<1>3. OutcomeEarned'
  BY DeliveryAssumption DEF DeliveryAssumption, DeliveryInv, OnTrack, OutcomeEarned, DeliveryTypeOK, PlanShapes, Attempts
<1>4. CountedBeforeReported'
  BY DEF DeliveryInv, OnTrack, CountedBeforeReported, Reported, DeliveryTypeOK
<1>5. NotifiedIsTrue'
  BY DEF DeliveryInv, OnTrack, NotifiedIsTrue, DeliveryTypeOK
<1>6. EveryRunRecorded'
  BY DEF DeliveryInv, OnTrack, EveryRunRecorded, DeliveryTypeOK
<1>7. \A rec \in history' : stage'[rec.run] = "ended"
  BY DEF DeliveryInv, DeliveryTypeOK
<1> QED
  BY <1>1, <1>2, <1>3, <1>4, <1>5, <1>6, <1>7 DEF DeliveryInv

\* The record says what the run knows.
LEMMA StoreRunInv ==
    ASSUME DeliveryInv, NEW r \in Runs, StoreRun(r)
    PROVE  DeliveryInv'
<1> USE DEF StoreRun, Goto, worldVars, docVars, Present
<1>1. DeliveryTypeOK'
  BY DeliveryAssumption DEF DeliveryAssumption, DeliveryInv, DeliveryTypeOK, Stages, Outcomes
<1>2. \A q \in Runs : OnTrack(q)'
  BY DeliveryAssumption DEF DeliveryAssumption, DeliveryInv, OnTrack, DeliveryTypeOK, PlanShapes, Attempts
<1>3. OutcomeEarned'
  BY DeliveryAssumption DEF DeliveryAssumption, DeliveryInv, OnTrack, OutcomeEarned, DeliveryTypeOK, PlanShapes, Attempts
<1>4. CountedBeforeReported'
  BY DEF DeliveryInv, OnTrack, CountedBeforeReported, Reported, DeliveryTypeOK
<1>5. NotifiedIsTrue'
  BY DEF DeliveryInv, OnTrack, NotifiedIsTrue, DeliveryTypeOK
<1>6. EveryRunRecorded'
  <2> DEFINE record == [run |-> r, outcome |-> outcome[r], notified |-> notified[r]]
  <2>1. record \in history' /\ history \subseteq history'
    OBVIOUS
  <2>2. record.run = r /\ record.outcome = outcome'[r]
    OBVIOUS
  <2>3. \A q \in Runs : q # r => stage'[q] = stage[q]
    BY DEF DeliveryInv, DeliveryTypeOK
  <2> HIDE DEF record
  <2> QED
    BY <2>1, <2>2, <2>3 DEF DeliveryInv, EveryRunRecorded
<1>7. \A rec \in history' : stage'[rec.run] = "ended"
  BY DEF DeliveryInv, DeliveryTypeOK
<1> QED
  BY <1>1, <1>2, <1>3, <1>4, <1>5, <1>6, <1>7 DEF DeliveryInv

\* A failing database operation ends the run, and uses up a fault.
LEMMA StepFailsInv ==
    ASSUME DeliveryInv, NEW r \in Runs, StepFails(r)
    PROVE  DeliveryInv'
<1> USE DEF StepFails, Fault, Goto, worldVars, recordVars, docVars, Present
<1>1. DeliveryTypeOK'
  BY DeliveryAssumption DEF DeliveryAssumption, DeliveryInv, DeliveryTypeOK, Stages, Outcomes
<1>2. \A q \in Runs : OnTrack(q)'
  BY DeliveryAssumption DEF DeliveryAssumption, DeliveryInv, OnTrack, DeliveryTypeOK, PlanShapes, Attempts
<1>3. OutcomeEarned'
  BY DeliveryAssumption DEF DeliveryAssumption, DeliveryInv, OnTrack, OutcomeEarned, DeliveryTypeOK, PlanShapes, Attempts
<1>4. CountedBeforeReported'
  BY DEF DeliveryInv, OnTrack, CountedBeforeReported, Reported, DeliveryTypeOK
<1>5. NotifiedIsTrue'
  BY DEF DeliveryInv, OnTrack, NotifiedIsTrue, DeliveryTypeOK
<1>6. EveryRunRecorded'
  BY DEF DeliveryInv, OnTrack, EveryRunRecorded, DeliveryTypeOK
<1>7. \A rec \in history' : stage'[rec.run] = "ended"
  BY DEF DeliveryInv, DeliveryTypeOK
<1> QED
  BY <1>1, <1>2, <1>3, <1>4, <1>5, <1>6, <1>7 DEF DeliveryInv

\* A run that ends on a lost reply has written its summary or the pause, and
\* reports nothing.
LEMMA ReplyLostInv ==
    ASSUME DeliveryInv, NEW r \in Runs, ReplyLost(r)
    PROVE  DeliveryInv'
<1> USE DEF ReplyLost, TakeIn, Failing, Fault, Goto, worldVars, docVars, Present
<1>1. DeliveryTypeOK'
  BY DeliveryAssumption DEF DeliveryAssumption, DeliveryInv, DeliveryTypeOK, Stages, Outcomes
<1>2. \A q \in Runs : OnTrack(q)'
  BY DeliveryAssumption DEF DeliveryAssumption, DeliveryInv, OnTrack, DeliveryTypeOK, PlanShapes, Attempts
<1>3. OutcomeEarned'
  BY DeliveryAssumption DEF DeliveryAssumption, DeliveryInv, OnTrack, OutcomeEarned, DeliveryTypeOK, PlanShapes, Attempts
<1>4. CountedBeforeReported'
  BY DEF DeliveryInv, OnTrack, CountedBeforeReported, Reported, DeliveryTypeOK
<1>5. NotifiedIsTrue'
  BY DEF DeliveryInv, OnTrack, NotifiedIsTrue, DeliveryTypeOK
<1>6. EveryRunRecorded'
  BY DEF DeliveryInv, OnTrack, EveryRunRecorded, DeliveryTypeOK
<1>7. \A rec \in history' : stage'[rec.run] = "ended"
  BY DEF DeliveryInv, DeliveryTypeOK
<1> QED
  BY <1>1, <1>2, <1>3, <1>4, <1>5, <1>6, <1>7 DEF DeliveryInv

\* A stop ends every run, and uses up a fault.
LEMMA StopInv ==
    ASSUME DeliveryInv, Stop
    PROVE  DeliveryInv'
<1> USE DEF Stop, Fault, InFlight, worldVars, recordVars, docVars, Present
<1>1. DeliveryTypeOK'
  BY DeliveryAssumption DEF DeliveryAssumption, DeliveryInv, DeliveryTypeOK, Stages, Outcomes
<1>2. \A q \in Runs : OnTrack(q)'
  BY DeliveryAssumption DEF DeliveryAssumption, DeliveryInv, OnTrack, DeliveryTypeOK, PlanShapes, Attempts
<1>3. OutcomeEarned'
  BY DeliveryAssumption DEF DeliveryAssumption, DeliveryInv, OnTrack, OutcomeEarned, DeliveryTypeOK, PlanShapes, Attempts
<1>4. CountedBeforeReported'
  BY DEF DeliveryInv, OnTrack, CountedBeforeReported, Reported, DeliveryTypeOK
<1>5. NotifiedIsTrue'
  BY DEF DeliveryInv, OnTrack, NotifiedIsTrue, DeliveryTypeOK
<1>6. EveryRunRecorded'
  BY DEF DeliveryInv, OnTrack, EveryRunRecorded, DeliveryTypeOK
<1>7. \A rec \in history' : stage'[rec.run] = "ended"
  BY DEF DeliveryInv, DeliveryTypeOK
<1> QED
  BY <1>1, <1>2, <1>3, <1>4, <1>5, <1>6, <1>7 DEF DeliveryInv

\* After the deletion, nothing has to be counted.
LEMMA DeleteInv ==
    ASSUME DeliveryInv, Delete
    PROVE  DeliveryInv'
<1> USE DEF Delete, runningVars, worldVars, docVars, Present
<1>1. DeliveryTypeOK'
  BY DeliveryAssumption DEF DeliveryAssumption, DeliveryInv, DeliveryTypeOK
<1>2. \A q \in Runs : OnTrack(q)'
  BY DeliveryAssumption DEF DeliveryAssumption, DeliveryInv, OnTrack, DeliveryTypeOK, PlanShapes, Attempts
<1>3. OutcomeEarned'
  BY DeliveryAssumption DEF DeliveryAssumption, DeliveryInv, OnTrack, OutcomeEarned, DeliveryTypeOK, PlanShapes, Attempts
<1>4. CountedBeforeReported'
  BY DEF DeliveryInv, OnTrack, CountedBeforeReported, Reported, DeliveryTypeOK
<1>5. NotifiedIsTrue'
  BY DEF DeliveryInv, OnTrack, NotifiedIsTrue, DeliveryTypeOK
<1>6. EveryRunRecorded'
  BY DEF DeliveryInv, OnTrack, EveryRunRecorded, DeliveryTypeOK
<1>7. \A rec \in history' : stage'[rec.run] = "ended"
  BY DEF DeliveryInv, DeliveryTypeOK
<1> QED
  BY <1>1, <1>2, <1>3, <1>4, <1>5, <1>6, <1>7 DEF DeliveryInv

\* Every step keeps the invariant.
LEMMA NextInv == DeliveryInv /\ [Next]_vars => DeliveryInv'
<1> SUFFICES ASSUME DeliveryInv, [Next]_vars PROVE DeliveryInv'
  OBVIOUS
<1>1. ASSUME NEW r \in Runs, NEW k \in JobKinds, Fire(r, k) PROVE DeliveryInv'
  BY <1>1, FireInv
<1>2. ASSUME NEW r \in Runs, RunStep(r) PROVE DeliveryInv'
  BY <1>2, LoadNothingInv, LoadInv, NoActionInv, GuardPassesInv, SucceedInv, AttemptFailsInv, RetryInv,
     RecordSummaryInv, CheckInv, DisarmInv, NoPostInv, PostInv, PostEndsInv, StoreRunInv DEF RunStep
<1>3. ASSUME NEW r \in Runs, NEW a \in Attempts, Receive(r, a) PROVE DeliveryInv'
  BY <1>3, ReceiveInv
<1>4. ASSUME NEW r \in Runs, Told(r) \/ Unexpected(r) \/ StepFails(r) \/ ReplyLost(r) PROVE DeliveryInv'
  BY <1>4, ToldInv, UnexpectedInv, StepFailsInv, ReplyLostInv
<1>5. CASE Stop
  BY <1>5, StopInv
<1>6. CASE Delete
  BY <1>6, DeleteInv
<1>7. CASE UNCHANGED vars
  BY <1>7 DEF vars, runningVars, worldVars, recordVars, docVars, Present, DeliveryInv, DeliveryTypeOK, OnTrack,
     OutcomeEarned, CountedBeforeReported, Reported, NotifiedIsTrue, EveryRunRecorded
<1> QED
  BY <1>1, <1>2, <1>3, <1>4, <1>5, <1>6, <1>7 DEF Next

\* The inductive invariant holds of every behaviour of Delivery.
THEOREM DeliveryInvAlways == Spec => []DeliveryInv
  BY InitInv, NextInv, PTL DEF Spec

\* run_action's result is earned, for any number of runs and retries.
THEOREM OutcomeEarnedAlways == Spec => []OutcomeEarned
<1>1. DeliveryInv => OutcomeEarned
  BY DEF DeliveryInv
<1> QED
  BY <1>1, DeliveryInvAlways, PTL

\* No run is reported that was not counted first, whatever fails and stops.
THEOREM CountedBeforeReportedAlways == Spec => []CountedBeforeReported
<1>1. DeliveryInv => CountedBeforeReported
  BY DEF DeliveryInv
<1> QED
  BY <1>1, DeliveryInvAlways, PTL

\* A run's history record is never wrong about the callback, and only missing
\* when the database failed or the process stopped.
THEOREM HistoryIsRight == Spec => [](NotifiedIsTrue /\ EveryRunRecorded)
<1>1. DeliveryInv => NotifiedIsTrue /\ EveryRunRecorded
  BY DEF DeliveryInv
<1> QED
  BY <1>1, DeliveryInvAlways, PTL

\* The variables keep their types, for any number of runs, retries and faults.
THEOREM DeliveryTypeAlways == Spec => []DeliveryTypeOK
<1>1. DeliveryInv => DeliveryTypeOK
  BY DEF DeliveryInv
<1> QED
  BY <1>1, DeliveryInvAlways, PTL

\* "notified" in a record is only written of a callback that has arrived.
THEOREM NotifiedIsTrueAlways == Spec => []NotifiedIsTrue
<1>1. DeliveryInv => NotifiedIsTrue
  BY DEF DeliveryInv
<1> QED
  BY <1>1, DeliveryInvAlways, PTL

-----------------------------------------------------------------------------
(* Delivery implements the steps of Run.  Its two jobs have a run in flight *)
(* each at most, and a run is counted once, so that fewer failures are      *)
(* counted than there are runs.                                             *)

Uncounted == {"due", "load", "guard", "request", "backoff", "summary"}

FlightInv ==
    /\ DeliveryInv
    /\ \A q, r \in Runs : InFlight(q) /\ InFlight(r) /\ kind[q] = kind[r] => q = r
    /\ \A r \in Runs : InFlight(r) => kind[r] \in JobKinds
    /\ \A r \in Runs : stage[r] \in Uncounted => r \notin counted
    /\ errors <= Cardinality(counted)

LEMMA CountedIsFinite ==
    ASSUME DeliveryTypeOK
    PROVE  IsFiniteSet(counted) /\ Cardinality(counted) \in Nat
<1>1. IsFiniteSet(counted)
  BY FS_Subset, DeliveryAssumption DEF DeliveryAssumption, DeliveryTypeOK
<1> QED
  BY <1>1, FS_CardinalityType

LEMMA InitFlight == Init => FlightInv
<1> SUFFICES ASSUME Init PROVE FlightInv
  OBVIOUS
<1>1. DeliveryInv
  BY InitInv
<1>2. Cardinality(counted) = 0 /\ errors = 0
  BY FS_EmptySet DEF Init
<1> QED
  BY <1>1, <1>2 DEF FlightInv, Init, InFlight, Uncounted

\* A step that starts and counts nothing.
LEMMA OnwardFlight ==
    ASSUME FlightInv, DeliveryInv', kind' = kind, counted' = counted, errors' = errors,
           \A r \in Runs : /\ InFlight(r)' => InFlight(r)
                           /\ stage'[r] \in Uncounted => stage[r] \in Uncounted
    PROVE  FlightInv'
  BY DEF FlightInv

\* Where a step of a run in flight may take it, but for the count.
LEMMA GotoFlight ==
    ASSUME FlightInv, DeliveryInv', kind' = kind, counted' = counted, errors' = errors,
           NEW r \in Runs, InFlight(r), NEW s,
           stage' = [stage EXCEPT ![r] = s],
           s \in Uncounted => stage[r] \in Uncounted
    PROVE  FlightInv'
<1>1. stage \in [Runs -> Stages]
  BY DEF FlightInv, DeliveryInv, DeliveryTypeOK
<1>2. \A q \in Runs : /\ InFlight(q)' => InFlight(q)
                      /\ stage'[q] \in Uncounted => stage[q] \in Uncounted
  BY <1>1 DEF InFlight
<1> QED
  BY <1>2, OnwardFlight

LEMMA FireFlight ==
    ASSUME FlightInv, NEW r \in Runs, NEW k \in JobKinds, Fire(r, k)
    PROVE  FlightInv'
<1>1. DeliveryInv'
  BY FireInv DEF FlightInv
<1>2. /\ stage \in [Runs -> Stages] /\ kind \in [Runs -> JobKinds \cup {"none"}]
      /\ stage[r] = "due" /\ stage' = [stage EXCEPT ![r] = "load"]
      /\ kind' = [kind EXCEPT ![r] = k]
      /\ \A q \in Runs : InFlight(q) => kind[q] # k
      /\ counted' = counted /\ errors' = errors
  BY DEF FlightInv, DeliveryInv, DeliveryTypeOK, Fire, Goto, recordVars, docVars
<1>3. \A q \in Runs : q # r => (InFlight(q)' <=> InFlight(q)) /\ kind'[q] = kind[q]
  BY <1>2 DEF InFlight
<1>4. \A p, q \in Runs : InFlight(p)' /\ InFlight(q)' /\ kind'[p] = kind'[q] => p = q
  BY <1>2, <1>3 DEF FlightInv
<1>5. \A q \in Runs : InFlight(q)' => kind'[q] \in JobKinds
  BY <1>2, <1>3 DEF FlightInv
<1>6. \A q \in Runs : stage'[q] \in Uncounted => q \notin counted'
  BY <1>2 DEF FlightInv, Uncounted
<1> QED
  BY <1>1, <1>2, <1>4, <1>5, <1>6 DEF FlightInv

LEMMA RecordSummaryFlight ==
    ASSUME FlightInv, NEW r \in Runs, RecordSummary(r)
    PROVE  FlightInv'
<1>1. DeliveryInv'
  BY RecordSummaryInv DEF FlightInv
<1>2. /\ stage \in [Runs -> Stages] /\ errors \in Nat
      /\ stage[r] = "summary" /\ kind' = kind
      /\ stage' = [stage EXCEPT ![r] = IF Failed(r) THEN "check" ELSE "notify"]
  BY DEF FlightInv, DeliveryInv, DeliveryTypeOK, RecordSummary, Goto
<1>3. InFlight(r) /\ (IF Failed(r) THEN "check" ELSE "notify") \notin Uncounted
  BY <1>2 DEF InFlight, Uncounted
<1>4. \A q \in Runs : /\ InFlight(q)' => InFlight(q)
                      /\ stage'[q] \in Uncounted => stage[q] \in Uncounted /\ q # r
  BY <1>2, <1>3 DEF InFlight
<1>5. CASE ~Present
  BY <1>1, <1>2, <1>4, <1>5, OnwardFlight DEF RecordSummary
<1>6. CASE Present
  <2>1. r \notin counted
    BY <1>2 DEF FlightInv, Uncounted
  <2>2. counted' = counted \cup {r} /\ errors' <= errors + 1
    BY <1>2, <1>6 DEF RecordSummary, TakeIn
  <2>3. Cardinality(counted') = Cardinality(counted) + 1
    BY <2>1, <2>2, CountedIsFinite, FS_AddElement DEF FlightInv, DeliveryInv
  <2>4. errors' <= Cardinality(counted')
    <3>1. errors <= Cardinality(counted) /\ Cardinality(counted) \in Nat
      BY CountedIsFinite DEF FlightInv, DeliveryInv
    <3>2. errors' \in Nat
      BY <1>1 DEF DeliveryInv, DeliveryTypeOK
    <3> QED
      BY <1>2, <2>2, <2>3, <3>1, <3>2
  <2>5. \A q \in Runs : stage'[q] \in Uncounted => q \notin counted'
    BY <1>4, <2>2 DEF FlightInv
  <2> QED
    BY <1>1, <1>2, <1>4, <2>4, <2>5 DEF FlightInv
<1> QED
  BY <1>5, <1>6

\* A pause whose reply is lost counts nothing, a summary what it would have.
LEMMA ReplyLostFlight ==
    ASSUME FlightInv, NEW r \in Runs, ReplyLost(r)
    PROVE  FlightInv'
<1>1. DeliveryInv'
  BY ReplyLostInv DEF FlightInv
<1>2. /\ stage \in [Runs -> Stages] /\ errors \in Nat
      /\ stage[r] \in {"summary", "check"} /\ kind' = kind
      /\ stage' = [stage EXCEPT ![r] = "ended"]
  BY DEF FlightInv, DeliveryInv, DeliveryTypeOK, ReplyLost, Goto
<1>3. \A q \in Runs : /\ InFlight(q)' => InFlight(q)
                      /\ stage'[q] \in Uncounted => stage[q] \in Uncounted /\ q # r
  BY <1>2 DEF InFlight, Uncounted
<1>4. CASE counted' = counted /\ errors' = errors
  BY <1>1, <1>2, <1>3, <1>4, OnwardFlight
<1>5. CASE stage[r] = "summary" /\ TakeIn(r)
  <2>1. r \notin counted
    BY <1>5 DEF FlightInv, Uncounted
  <2>2. counted' = counted \cup {r} /\ errors' <= errors + 1
    BY <1>2, <1>5 DEF TakeIn
  <2>3. Cardinality(counted') = Cardinality(counted) + 1
    BY <2>1, <2>2, CountedIsFinite, FS_AddElement DEF FlightInv, DeliveryInv
  <2>4. errors' <= Cardinality(counted')
    <3>1. errors <= Cardinality(counted) /\ Cardinality(counted) \in Nat
      BY CountedIsFinite DEF FlightInv, DeliveryInv
    <3>2. errors' \in Nat
      BY <1>1 DEF DeliveryInv, DeliveryTypeOK
    <3> QED
      BY <1>2, <2>2, <2>3, <3>1, <3>2
  <2>5. \A q \in Runs : stage'[q] \in Uncounted => q \notin counted'
    BY <1>3, <2>2 DEF FlightInv
  <2> QED
    BY <1>1, <1>2, <1>3, <2>4, <2>5 DEF FlightInv
<1> QED
  BY <1>4, <1>5 DEF ReplyLost

\* Steps of a run other than the count.
LEMMA RunFlight ==
    ASSUME FlightInv, NEW r \in Runs,
           \/ LoadNothing(r) \/ Load(r) \/ NoAction(r)
           \/ GuardPasses(r) \/ Unexpected(r) \/ Succeed(r) \/ AttemptFails(r) \/ Retry(r)
           \/ Check(r) \/ Disarm(r) \/ NoPost(r) \/ Post(r) \/ PostEnds(r) \/ StoreRun(r)
           \/ StepFails(r)
    PROVE  FlightInv'
<1>1. DeliveryInv'
  BY LoadNothingInv, LoadInv, NoActionInv, GuardPassesInv, UnexpectedInv, SucceedInv,
     AttemptFailsInv, RetryInv, CheckInv, DisarmInv, NoPostInv, PostInv, PostEndsInv, StoreRunInv,
     StepFailsInv DEF FlightInv
<1>2. kind' = kind /\ counted' = counted /\ errors' = errors
  BY DEF LoadNothing, Load, NoAction, GuardPasses, Unexpected, Succeed, AttemptFails, Retry, Check,
     Disarm, NoPost, Post, PostEnds, StoreRun, StepFails, recordVars, docVars
<1>3. CASE StepFails(r) \/ LoadNothing(r) \/ StoreRun(r)
  <2>1. stage' = [stage EXCEPT ![r] = "ended"] /\ InFlight(r)
    BY <1>3 DEF StepFails, LoadNothing, StoreRun, Goto, InFlight
  <2> QED
    BY <1>1, <1>2, <2>1, GotoFlight DEF Uncounted
<1>4. CASE Check(r) \/ Disarm(r) \/ NoPost(r) \/ Post(r) \/ PostEnds(r)
  <2>1. PICK s \in {"disarm", "notify", "posting", "history"} :
            stage' = [stage EXCEPT ![r] = s]
    BY <1>4 DEF Check, Disarm, NoPost, Post, PostEnds, Goto
  <2>2. InFlight(r)
    BY <1>4 DEF Check, Disarm, NoPost, Post, PostEnds, InFlight
  <2> QED
    BY <1>1, <1>2, <2>1, <2>2, GotoFlight DEF Uncounted
<1>5. CASE \/ Load(r) \/ NoAction(r) \/ GuardPasses(r) \/ Unexpected(r) \/ Succeed(r)
           \/ AttemptFails(r) \/ Retry(r)
  <2>1. PICK s : stage' = [stage EXCEPT ![r] = s]
    BY <1>5 DEF Load, NoAction, GuardPasses, Unexpected, Succeed, AttemptFails, Retry, Conclude, Goto
  <2>2. InFlight(r) /\ stage[r] \in Uncounted
    BY <1>5 DEF Load, NoAction, GuardPasses, Unexpected, Succeed, AttemptFails, Retry, InFlight,
       Uncounted
  <2> QED
    BY <1>1, <1>2, <2>1, <2>2, GotoFlight
<1> QED
  BY <1>3, <1>4, <1>5

\* Steps around the runs: what reaches the receivers, a stop, a deletion.
LEMMA AroundFlight ==
    ASSUME FlightInv,
           \/ \E r \in Runs : Told(r) \/ \E a \in Attempts : Receive(r, a)
           \/ Stop \/ Delete \/ UNCHANGED vars
    PROVE  FlightInv'
<1>1. DeliveryInv'
  BY NextInv DEF Next, FlightInv
<1>2. kind' = kind /\ counted' = counted /\ errors' = errors
  BY DEF Told, Receive, Stop, Delete, vars, runningVars, recordVars, docVars
<1>3. CASE Stop
  <2>1. \A r \in Runs : stage'[r] = IF InFlight(r) THEN "ended" ELSE stage[r]
    BY <1>3 DEF Stop
  <2>2. \A r \in Runs : /\ InFlight(r)' => InFlight(r)
                        /\ stage'[r] \in Uncounted => stage[r] \in Uncounted
    BY <2>1 DEF InFlight, Uncounted
  <2> QED
    BY <1>1, <1>2, <2>2, OnwardFlight
<1>4. CASE ~Stop
  <2>1. stage' = stage
    BY <1>4 DEF Told, Receive, Delete, vars, runningVars
  <2> QED
    BY <1>1, <1>2, <2>1, OnwardFlight DEF InFlight
<1> QED
  BY <1>3, <1>4

LEMMA NextFlight == FlightInv /\ [Next]_vars => FlightInv'
<1> SUFFICES ASSUME FlightInv, [Next]_vars PROVE FlightInv'
  OBVIOUS
<1>1. ASSUME NEW r \in Runs, RunStep(r) PROVE FlightInv'
  BY <1>1, RunFlight, RecordSummaryFlight DEF RunStep
<1> QED
  BY <1>1, FireFlight, RunFlight, ReplyLostFlight, AroundFlight DEF Next

-----------------------------------------------------------------------------
(* What Run sees of each step.                                              *)

LEMMA SeenInFlight ==
    ASSUME FlightInv, NEW r \in Runs, InFlight(r)
    PROVE  /\ kind[r] \in JobKinds
           /\ Flying(kind[r]) = {r}
           /\ RunSeen[The][kind[r]] = Seen(r)
<1>1. kind[r] \in JobKinds
  BY DEF FlightInv
<1>2. Flying(kind[r]) = {r}
  BY DEF FlightInv, Flying
<1>3. (CHOOSE q \in Flying(kind[r]) : TRUE) = r
  BY <1>2
<1> QED
  BY <1>1, <1>2, <1>3 DEF RunSeen

\* Two jobs are seen at the same stage if the same runs fly, and stand where
\* they stood.
LEMMA SameSeen ==
    ASSUME NEW k \in JobKinds, Flying(k)' = Flying(k),
           \A q \in Flying(k) : Seen(q)' = Seen(q)
    PROVE  RunSeen'[The][k] = RunSeen[The][k]
<1>1. CASE Flying(k) = {}
  BY <1>1 DEF RunSeen
<1>2. CASE Flying(k) # {}
  <2>1. PICK q : q = CHOOSE p \in Flying(k) : TRUE
    OBVIOUS
  <2>2. q \in Flying(k)
    BY <1>2, <2>1
  <2>3. RunSeen[The][k] = Seen(q)
    BY <1>2, <2>1, Zenon DEF RunSeen
  <2>4. RunSeen'[The][k] = Seen(q)'
    BY <1>2, <2>1, Zenon DEF RunSeen
  <2> QED
    BY <2>2, <2>3, <2>4
<1> QED
  BY <1>1, <1>2

\* RunSeen as an EXCEPT, from what it is for each job.
LEMMA SeenChanges ==
    ASSUME NEW k \in JobKinds, NEW seen, RunSeen'[The][k] = seen,
           \A j \in JobKinds \ {k} : RunSeen'[The][j] = RunSeen[The][j]
    PROVE  RunSeen' = [RunSeen EXCEPT ![The][k] = seen]
<1>1. /\ DOMAIN RunSeen = {The} /\ DOMAIN RunSeen[The] = JobKinds
      /\ DOMAIN RunSeen' = {The} /\ DOMAIN RunSeen'[The] = JobKinds
  BY DEF RunSeen
<1>2. RunSeen' = [s \in {The} |-> RunSeen'[The]] /\ RunSeen = [s \in {The} |-> RunSeen[The]]
  BY DEF RunSeen
<1>3. RunSeen'[The] = [j \in JobKinds |-> RunSeen'[The][j]]
  BY DEF RunSeen
<1>4. RunSeen'[The] = [RunSeen[The] EXCEPT ![k] = seen]
  BY <1>1, <1>3
<1> QED
  BY <1>1, <1>2, <1>4

\* A step of run r moves its job to the stage r has then, and no other job.
LEMMA SeenMoves ==
    ASSUME FlightInv, FlightInv', NEW r \in Runs, InFlight(r), kind' = kind,
           \A q \in Runs \ {r} : stage'[q] = stage[q] /\ outcome'[q] = outcome[q]
    PROVE  RunSeen' = [RunSeen EXCEPT ![The][kind[r]] = Seen(r)']
<1> DEFINE k == kind[r]
<1>1. k \in JobKinds /\ Flying(k) = {r}
  BY SeenInFlight
<1>2. \A q \in Runs \ {r} : (InFlight(q)' <=> InFlight(q)) /\ Seen(q)' = Seen(q)
  BY DEF InFlight, Seen, Failed
<1>3. \A j \in JobKinds \ {k} : RunSeen'[The][j] = RunSeen[The][j]
  <2> TAKE j \in JobKinds \ {k}
  <2>1. Flying(j)' = Flying(j) /\ r \notin Flying(j)
    BY <1>2 DEF Flying
  <2>2. \A q \in Flying(j) : Seen(q)' = Seen(q)
    BY <1>2, <2>1 DEF Flying
  <2> QED
    BY <2>1, <2>2, SameSeen
<1>4. RunSeen'[The][k] = Seen(r)'
  <2>1. CASE InFlight(r)'
    <3>1. Flying(k)' = {r}
      BY <1>1, <1>2, <2>1 DEF Flying
    <3>2. (CHOOSE q \in Flying(k)' : TRUE) = r
      BY <3>1
    <3> QED
      BY <1>1, <3>1, <3>2 DEF RunSeen
  <2>2. CASE ~InFlight(r)'
    <3>1. Flying(k)' = {}
      BY <1>1, <1>2, <2>2 DEF Flying
    <3>2. Seen(r)' = "free"
      BY <2>2 DEF Seen, InFlight
    <3> QED
      BY <1>1, <3>1, <3>2 DEF RunSeen
  <2> QED
    BY <2>1, <2>2
<1> QED
  BY <1>1, <1>3, <1>4, SeenChanges

\* A step that leaves the schedule alone leaves all alone that Run calls stored.
LEMMA StoreStays ==
    ASSUME docVars' = docVars
    PROVE  UNCHANGED View!storeVars
  BY DEF View!storeVars, DocSeen, docVars

\* What Run reads in the document.
LEMMA DocMeans ==
    ASSUME FlightInv
    PROVE  /\ View!Exists(The) <=> Present
           /\ View!Failing(The) <=> Failing
           /\ DocSeen[The].errors = errors
           /\ errors < Threshold + Cardinality(Runs)
<1>1. /\ status \in {"active", "paused", "deleted"} /\ errors \in Nat
      /\ counted \subseteq Runs /\ errors <= Cardinality(counted)
      /\ IsFiniteSet(Runs) /\ Threshold \in Nat \ {0}
  BY DeliveryAssumption DEF FlightInv, DeliveryInv, DeliveryTypeOK, DeliveryAssumption
<1>2. /\ Cardinality(counted) <= Cardinality(Runs)
      /\ Cardinality(counted) \in Nat /\ Cardinality(Runs) \in Nat
  BY <1>1, FS_Subset, FS_CardinalityType
<1>3. errors < Threshold + Cardinality(Runs)
  BY <1>1, <1>2
<1> QED
  BY <1>1, <1>3 DEF View!Exists, View!Failing, View!Active, DocSeen, Present, Failing

\* Run sees nothing of a step after which every run stands, to it, where it
\* stood.
LEMMA NotSeen ==
    ASSUME kind' = kind, docVars' = docVars,
           \A r \in Runs : (InFlight(r)' <=> InFlight(r)) /\ (InFlight(r) => Seen(r)' = Seen(r))
    PROVE  UNCHANGED <<RunSeen, View!storeVars>>
<1>1. \A k \in JobKinds : Flying(k)' = Flying(k)
  BY DEF Flying
<1>2. \A k \in JobKinds : \A q \in Flying(k) : Seen(q)' = Seen(q)
  BY DEF Flying
<1>3. \A k \in JobKinds : RunSeen'[The][k] = RunSeen[The][k]
  BY <1>1, <1>2, SameSeen
<1>4. RunSeen' = RunSeen
  BY <1>3 DEF RunSeen
<1> QED
  BY <1>4, StoreStays

LEMMA StageTypes ==
    ASSUME FlightInv
    PROVE  /\ stage \in [Runs -> Stages] /\ outcome \in [Runs -> Outcomes]
           /\ kind \in [Runs -> JobKinds \cup {"none"}]
           /\ status \in {"active", "paused", "deleted"} /\ errors \in Nat
  BY DEF FlightInv, DeliveryInv, DeliveryTypeOK

\* The attempts of a request, what reaches a receiver, and the way of the
\* callback: nothing to Run.
LEMMA InsideSeen ==
    ASSUME FlightInv, NEW r \in Runs,
           \/ GuardPasses(r) \/ Retry(r) \/ (AttemptFails(r) /\ ~LastAttempt(r))
           \/ NoPost(r) \/ Post(r) \/ PostEnds(r)
           \/ Told(r) \/ \E a \in Attempts : Receive(r, a)
    PROVE  UNCHANGED <<RunSeen, View!storeVars>>
<1>1. kind' = kind /\ docVars' = docVars /\ outcome' = outcome
  BY DEF GuardPasses, Retry, AttemptFails, NoPost, Post, PostEnds, Told, Receive, runningVars, recordVars
<1>2. PICK s \in Stages : /\ stage' = [stage EXCEPT ![r] = s]
                         /\ \/ s = stage[r]
                            \/ {stage[r], s} \subseteq {"guard", "request", "backoff"}
                            \/ {stage[r], s} \subseteq {"notify", "posting", "history"}
  <2>1. CASE GuardPasses(r) \/ Retry(r) \/ (AttemptFails(r) /\ ~LastAttempt(r))
    BY <2>1 DEF GuardPasses, Retry, AttemptFails, Goto, Stages
  <2>2. CASE NoPost(r) \/ Post(r) \/ PostEnds(r)
    BY <2>2 DEF NoPost, Post, PostEnds, Goto, Stages
  <2>3. CASE Told(r) \/ \E a \in Attempts : Receive(r, a)
    <3>1. stage' = stage
      BY <2>3 DEF Told, Receive, runningVars
    <3> QED
      BY <3>1, StageTypes
  <2> QED
    BY <2>1, <2>2, <2>3
<1>3. \A q \in Runs : (InFlight(q)' <=> InFlight(q)) /\ Seen(q)' = Seen(q)
  BY <1>1, <1>2, StageTypes DEF InFlight, Seen, Failed
<1> QED
  BY <1>1, <1>3, NotSeen

\* A step of run r that changes the stage: Run's Advance, from the stage Run
\* has of it to the next.
LEMMA SeenGoes ==
    ASSUME FlightInv, FlightInv', NEW r \in Runs, InFlight(r), kind' = kind,
           NEW s \in Stages, Goto(r, s),
           \/ outcome' = outcome
           \/ \E result \in Outcomes : outcome' = [outcome EXCEPT ![r] = result]
    PROVE  /\ kind[r] \in JobKinds
           /\ RunSeen[The][kind[r]] = Seen(r)
           /\ stage'[r] = s
           /\ RunSeen' = [RunSeen EXCEPT ![The][kind[r]] = Seen(r)']
<1>1. /\ stage'[r] = s
      /\ \A q \in Runs \ {r} : stage'[q] = stage[q] /\ outcome'[q] = outcome[q]
  BY StageTypes DEF Goto
<1> QED
  BY <1>1, SeenInFlight, SeenMoves

LEMMA LoadFollows ==
    ASSUME FlightInv, FlightInv', NEW r \in Runs, LoadNothing(r) \/ Load(r)
    PROVE  View!RunStep(The, kind[r])
<1> DEFINE s == IF Present THEN "guard" ELSE "ended"
<1>1. /\ stage[r] = "load" /\ Goto(r, s) /\ s \in Stages
      /\ kind' = kind /\ outcome' = outcome /\ docVars' = docVars
  BY DEF LoadNothing, Load, recordVars, Stages
<1>2. InFlight(r) /\ Seen(r) = "load"
  BY <1>1 DEF InFlight, Seen
<1>3. /\ RunSeen[The][kind[r]] = "load" /\ stage'[r] = s
      /\ RunSeen' = [RunSeen EXCEPT ![The][kind[r]] = Seen(r)']
  <2> HIDE DEF s
  <2> QED
    BY <1>1, <1>2, SeenGoes
<1>4. Seen(r)' = IF Present THEN "calling" ELSE "free"
  BY <1>3 DEF Seen
<1>5. View!Load(The, kind[r])
  BY <1>1, <1>3, <1>4, DocMeans, StoreStays DEF View!Load, View!Advance
<1> QED
  BY <1>5 DEF View!RunStep

\* The outcome, when it comes, is Run's Answer.
LEMMA ConcludeFollows ==
    ASSUME FlightInv, FlightInv', NEW r \in Runs,
           \/ NoAction(r) \/ Succeed(r) \/ Unexpected(r)
           \/ (AttemptFails(r) /\ LastAttempt(r))
    PROVE  View!RunStep(The, kind[r])
<1>1. PICK result \in Outcomes \ {"none"} :
          /\ stage[r] \in {"guard", "request"} /\ Conclude(r, result)
          /\ kind' = kind /\ docVars' = docVars
  BY DEF NoAction, Succeed, Unexpected, AttemptFails, recordVars, Outcomes
<1>2. InFlight(r) /\ Seen(r) = "calling"
  BY <1>1 DEF InFlight, Seen
<1>3. /\ RunSeen[The][kind[r]] = "calling" /\ stage'[r] = "summary"
      /\ RunSeen' = [RunSeen EXCEPT ![The][kind[r]] = Seen(r)']
  BY <1>1, <1>2, SeenGoes DEF Conclude, Stages
<1>4. Seen(r)' \in {"success", "failure"}
  BY <1>3 DEF Seen
<1>5. View!Answer(The, kind[r])
  BY <1>1, <1>3, <1>4, DocMeans, StoreStays DEF View!Answer, View!Advance
<1> QED
  BY <1>5 DEF View!RunStep

LEMMA RecordSummaryFollows ==
    ASSUME FlightInv, FlightInv', NEW r \in Runs, RecordSummary(r)
    PROVE  View!RunStep(The, kind[r])
<1> DEFINE s == IF Failed(r) THEN "check" ELSE "notify"
           seen == IF Failed(r) THEN "failure" ELSE "success"
<1>1. /\ stage[r] = "summary" /\ Goto(r, s) /\ s \in Stages
      /\ kind' = kind /\ outcome' = outcome /\ status' = status
      /\ errors' = IF Present THEN IF Failed(r) THEN errors + 1 ELSE 0 ELSE errors
  BY DEF RecordSummary, TakeIn, Stages
<1>2. InFlight(r) /\ Seen(r) = seen
  BY <1>1 DEF InFlight, Seen
<1>3. /\ RunSeen[The][kind[r]] = seen /\ stage'[r] = s
      /\ RunSeen' = [RunSeen EXCEPT ![The][kind[r]] = Seen(r)']
  <2> HIDE DEF s, seen
  <2> QED
    BY <1>1, <1>2, SeenGoes
<1>4. Seen(r)' = IF Failed(r) THEN "check" ELSE "report"
  BY <1>3 DEF Seen
<1>5. CASE Failed(r)
  <2>1. DocSeen' = IF View!Exists(The) THEN [DocSeen EXCEPT ![The].errors = @ + 1] ELSE DocSeen
    BY <1>1, <1>5, DocMeans DEF DocSeen
  <2>2. View!RecordFailure(The, kind[r])
    BY <1>3, <1>4, <1>5, <2>1 DEF View!RecordFailure, View!Counted, View!Advance
  <2> QED
    BY <2>2 DEF View!RunStep
<1>6. CASE ~Failed(r)
  <2>1. DocSeen' = IF View!Exists(The) THEN [DocSeen EXCEPT ![The].errors = 0] ELSE DocSeen
    BY <1>1, <1>6, DocMeans DEF DocSeen
  <2>2. View!RecordSuccess(The, kind[r])
    BY <1>3, <1>4, <1>6, <2>1 DEF View!RecordSuccess, View!Cleared, View!Advance
  <2> QED
    BY <2>2 DEF View!RunStep
<1> QED
  BY <1>5, <1>6

LEMMA CheckFollows ==
    ASSUME FlightInv, FlightInv', NEW r \in Runs, Check(r)
    PROVE  View!RunStep(The, kind[r])
<1> DEFINE s == IF Failing THEN "disarm" ELSE "notify"
<1>1. /\ stage[r] = "check" /\ Goto(r, s) /\ s \in Stages
      /\ kind' = kind /\ outcome' = outcome /\ errors' = errors
      /\ status' = IF Failing THEN "paused" ELSE status
  BY DEF Check, Stages
<1>2. InFlight(r) /\ Seen(r) = "check"
  BY <1>1 DEF InFlight, Seen
<1>3. /\ RunSeen[The][kind[r]] = "check" /\ stage'[r] = s
      /\ RunSeen' = [RunSeen EXCEPT ![The][kind[r]] = Seen(r)']
  <2> HIDE DEF s
  <2> QED
    BY <1>1, <1>2, SeenGoes
<1>4. Seen(r)' = IF Failing THEN "disarm" ELSE "report"
  BY <1>3 DEF Seen
<1>5. CASE Failing
  <2>1. DocSeen' = [DocSeen EXCEPT ![The].status = "paused"]
    BY <1>1, <1>5 DEF DocSeen
  <2>2. View!PauseFailing(The, kind[r])
    BY <1>3, <1>4, <1>5, <2>1, DocMeans DEF View!PauseFailing, View!Advance
  <2> QED
    BY <2>2 DEF View!RunStep
<1>6. CASE ~Failing
  <2>1. docVars' = docVars
    BY <1>1, <1>6 DEF docVars
  <2>2. View!LeaveAlone(The, kind[r])
    BY <1>3, <1>4, <1>6, <2>1, DocMeans, StoreStays DEF View!LeaveAlone, View!Advance
  <2> QED
    BY <2>2 DEF View!RunStep
<1> QED
  BY <1>5, <1>6

LEMMA DisarmFollows ==
    ASSUME FlightInv, FlightInv', NEW r \in Runs, Disarm(r)
    PROVE  View!RunStep(The, kind[r])
<1>1. /\ stage[r] = "disarm" /\ Goto(r, "notify") /\ "notify" \in Stages
      /\ kind' = kind /\ outcome' = outcome /\ docVars' = docVars
  BY DEF Disarm, recordVars, Stages
<1>2. InFlight(r) /\ Seen(r) = "disarm"
  BY <1>1 DEF InFlight, Seen
<1>3. /\ RunSeen[The][kind[r]] = "disarm" /\ stage'[r] = "notify"
      /\ RunSeen' = [RunSeen EXCEPT ![The][kind[r]] = Seen(r)']
  BY <1>1, <1>2, SeenGoes
<1>4. Seen(r)' = "report"
  BY <1>3 DEF Seen
<1>5. View!DisarmFailing(The, kind[r])
  BY <1>1, <1>3, <1>4, StoreStays DEF View!DisarmFailing, View!Advance, View!Disarm, View!storeVars
<1> QED
  BY <1>5 DEF View!RunStep

LEMMA StoreRunFollows ==
    ASSUME FlightInv, FlightInv', NEW r \in Runs, StoreRun(r)
    PROVE  View!RunStep(The, kind[r])
<1>1. /\ stage[r] = "history" /\ Goto(r, "ended") /\ "ended" \in Stages
      /\ kind' = kind /\ outcome' = outcome /\ docVars' = docVars
  BY DEF StoreRun, Stages
<1>2. InFlight(r) /\ Seen(r) = "report"
  BY <1>1 DEF InFlight, Seen
<1>3. /\ RunSeen[The][kind[r]] = "report" /\ stage'[r] = "ended"
      /\ RunSeen' = [RunSeen EXCEPT ![The][kind[r]] = Seen(r)']
  BY <1>1, <1>2, SeenGoes
<1>4. Seen(r)' = "free"
  BY <1>3 DEF Seen
<1>5. View!Report(The, kind[r])
  BY <1>1, <1>3, <1>4, StoreStays DEF View!Report, View!Advance
<1> QED
  BY <1>5 DEF View!RunStep

\* A step that fails is Run's RunFails; the history's failure, swallowed, its
\* Report.
LEMMA StepFailsFollows ==
    ASSUME FlightInv, FlightInv', NEW r \in Runs, StepFails(r)
    PROVE  View!RunStep(The, kind[r]) \/ View!RunFails(The, kind[r])
<1>1. /\ stage[r] \in {"load", "summary", "check", "disarm", "history"}
      /\ Goto(r, "ended") /\ "ended" \in Stages
      /\ kind' = kind /\ outcome' = outcome /\ docVars' = docVars
  BY DEF StepFails, recordVars, Stages
<1>2. /\ InFlight(r)
      /\ IF stage[r] = "history"
         THEN Seen(r) = "report"
         ELSE Seen(r) \in {"load", "success", "failure", "check", "disarm"}
  BY <1>1 DEF InFlight, Seen
<1>3. /\ RunSeen[The][kind[r]] = Seen(r) /\ stage'[r] = "ended"
      /\ RunSeen' = [RunSeen EXCEPT ![The][kind[r]] = Seen(r)']
  BY <1>1, <1>2, SeenGoes
<1>4. Seen(r)' = "free"
  BY <1>3 DEF Seen
<1>5. View!Report(The, kind[r]) \/ View!RunFails(The, kind[r])
  BY <1>1, <1>2, <1>3, <1>4, StoreStays DEF View!Report, View!Advance, View!RunFails
<1> QED
  BY <1>5 DEF View!RunStep

\* A summary or a pause whose reply is lost is Run's too.
LEMMA ReplyLostFollows ==
    ASSUME FlightInv, FlightInv', NEW r \in Runs, ReplyLost(r)
    PROVE  View!RunReplyLost(The, kind[r])
<1>1. /\ stage[r] \in {"summary", "check"} /\ Goto(r, "ended") /\ "ended" \in Stages
      /\ kind' = kind /\ outcome' = outcome
  BY DEF ReplyLost, Stages
<1>2. /\ InFlight(r)
      /\ Seen(r) = IF stage[r] = "summary" THEN IF Failed(r) THEN "failure" ELSE "success" ELSE "check"
  BY <1>1 DEF InFlight, Seen
<1>3. /\ RunSeen[The][kind[r]] = Seen(r) /\ stage'[r] = "ended"
      /\ RunSeen' = [RunSeen EXCEPT ![The][kind[r]] = Seen(r)']
  BY <1>1, <1>2, SeenGoes
<1>4. Seen(r)' = "free"
  BY <1>3 DEF Seen
<1>5. View!Advance(The, kind[r], "free")
  BY <1>3, <1>4 DEF View!Advance
<1>6. CASE stage[r] = "summary" /\ Present /\ TakeIn(r) /\ status' = status
  <2>1. DocSeen' = IF Failed(r) THEN [DocSeen EXCEPT ![The].errors = @ + 1]
                                ELSE [DocSeen EXCEPT ![The].errors = 0]
    BY <1>6 DEF DocSeen, TakeIn
  <2>2. DocSeen' = IF Failed(r) THEN View!Counted(The) ELSE View!Cleared(The)
    BY <1>6, <2>1, DocMeans DEF View!Counted, View!Cleared
  <2> QED
    BY <1>2, <1>3, <1>5, <1>6, <2>2 DEF View!RunReplyLost
<1>7. CASE stage[r] = "check" /\ Failing /\ status' = "paused" /\ errors' = errors
  <2>1. DocSeen' = [DocSeen EXCEPT ![The].status = "paused"]
    BY <1>7 DEF DocSeen
  <2> QED
    BY <1>2, <1>3, <1>5, <1>7, <2>1, DocMeans DEF View!RunReplyLost
<1> QED
  BY <1>6, <1>7 DEF ReplyLost

LEMMA FireFollows ==
    ASSUME FlightInv, FlightInv', NEW r \in Runs, NEW k \in JobKinds, Fire(r, k)
    PROVE  Fired(k)
<1>1. /\ stage' = [stage EXCEPT ![r] = "load"] /\ kind' = [kind EXCEPT ![r] = k]
      /\ outcome' = outcome /\ docVars' = docVars /\ ~InFlight(r)
      /\ \A q \in Runs : InFlight(q) => kind[q] # k
  BY DEF Fire, Goto, recordVars, InFlight
<1>2. RunSeen[The][k] = "free"
  BY <1>1 DEF RunSeen, Flying
<1>3. InFlight(r)' /\ kind'[r] = k /\ Seen(r)' = "load"
  BY <1>1, StageTypes DEF InFlight, Seen
<1>4. \A q \in Runs \ {r} : /\ (InFlight(q)' <=> InFlight(q)) /\ Seen(q)' = Seen(q)
                           /\ kind'[q] = kind[q]
  BY <1>1, StageTypes DEF InFlight, Seen, Failed
<1>5. \A j \in JobKinds \ {k} : RunSeen'[The][j] = RunSeen[The][j]
  <2> TAKE j \in JobKinds \ {k}
  <2>1. Flying(j)' = Flying(j) /\ \A q \in Flying(j) : Seen(q)' = Seen(q)
    BY <1>1, <1>3, <1>4 DEF Flying
  <2> QED
    BY <2>1, SameSeen
<1>6. RunSeen'[The][k] = "load"
  <2>1. Flying(k)' = {r}
    BY <1>1, <1>3, <1>4 DEF Flying
  <2>2. (CHOOSE q \in Flying(k)' : TRUE) = r
    BY <2>1
  <2> QED
    BY <1>3, <2>1, <2>2 DEF RunSeen
<1>7. View!Advance(The, k, "load")
  BY <1>5, <1>6, SeenChanges DEF View!Advance
<1> QED
  BY <1>1, <1>2, <1>7, StoreStays DEF Fired

LEMMA StopFollows ==
    ASSUME Stop
    PROVE  Stopped
<1>1. /\ \A r \in Runs : stage'[r] = IF InFlight(r) THEN "ended" ELSE stage[r]
      /\ docVars' = docVars
  BY DEF Stop, recordVars
<1>2. \A r \in Runs : ~InFlight(r)'
  BY <1>1 DEF InFlight
<1>3. \A k \in JobKinds : Flying(k)' = {}
  BY <1>2 DEF Flying
<1>4. RunSeen' = [s \in {The} |-> [k \in JobKinds |-> "free"]]
  BY <1>3 DEF RunSeen
<1> QED
  BY <1>1, <1>4, StoreStays DEF Stopped, View!RunInit, View!NoRuns, View!JobKinds, JobKinds

LEMMA DeleteFollows ==
    ASSUME Delete
    PROVE  Deleted
<1>1. /\ kind' = kind /\ stage' = stage /\ outcome' = outcome
      /\ status' = "deleted" /\ errors' = errors
  BY DEF Delete, runningVars
<1>2. RunSeen' = RunSeen
  BY <1>1 DEF RunSeen, Flying, InFlight, Seen, Failed
<1> QED
  BY <1>1, <1>2 DEF Deleted, DocSeen

LEMMA RunStepFollows ==
    ASSUME FlightInv, FlightInv', NEW r \in Runs, RunStep(r) \/ Unexpected(r)
    PROVE  [RunMoves]_<<RunSeen, View!storeVars>>
<1>1. kind[r] \in JobKinds
  <2>1. InFlight(r)
    BY DEF RunStep, LoadNothing, Load, NoAction, GuardPasses, Unexpected, Succeed, AttemptFails, Retry,
       RecordSummary, Check, Disarm, NoPost, Post, PostEnds, StoreRun, InFlight
  <2> QED
    BY <2>1, SeenInFlight
<1>2. CASE \/ LoadNothing(r) \/ Load(r) \/ NoAction(r) \/ Succeed(r) \/ Unexpected(r)
           \/ (AttemptFails(r) /\ LastAttempt(r))
           \/ RecordSummary(r) \/ Check(r) \/ Disarm(r) \/ StoreRun(r)
  <2>1. View!RunStep(The, kind[r])
    BY <1>2, LoadFollows, ConcludeFollows, RecordSummaryFollows, CheckFollows, DisarmFollows,
       StoreRunFollows
  <2> QED
    BY <1>1, <2>1 DEF RunMoves
<1>3. CASE \/ GuardPasses(r) \/ Retry(r) \/ (AttemptFails(r) /\ ~LastAttempt(r))
           \/ NoPost(r) \/ Post(r) \/ PostEnds(r)
  BY <1>3, InsideSeen
<1> QED
  BY <1>2, <1>3 DEF RunStep

\* Every step of Delivery is one of Run's, or nothing to it.
LEMMA NextFollows ==
    ASSUME FlightInv, FlightInv', [Next]_vars
    PROVE  [RunMoves]_<<RunSeen, View!storeVars>>
<1>1. ASSUME NEW r \in Runs, NEW k \in JobKinds, Fire(r, k)
      PROVE  RunMoves
  BY <1>1, FireFollows DEF RunMoves
<1>2. ASSUME NEW r \in Runs, StepFails(r)
      PROVE  RunMoves
  <2>1. kind[r] \in JobKinds
    BY <1>2, SeenInFlight DEF StepFails, InFlight
  <2> QED
    BY <1>2, <2>1, StepFailsFollows DEF RunMoves
<1>7. ASSUME NEW r \in Runs, ReplyLost(r)
      PROVE  RunMoves
  <2>1. kind[r] \in JobKinds
    BY <1>7, SeenInFlight DEF ReplyLost, InFlight
  <2> QED
    BY <1>7, <2>1, ReplyLostFollows DEF RunMoves
<1>3. ASSUME NEW r \in Runs, Told(r) \/ \E a \in Attempts : Receive(r, a)
      PROVE  UNCHANGED <<RunSeen, View!storeVars>>
  BY <1>3, InsideSeen
<1>4. CASE Stop
  BY <1>4, StopFollows DEF RunMoves
<1>5. CASE Delete
  BY <1>5, DeleteFollows DEF RunMoves
<1>6. CASE UNCHANGED vars
  <2>1. kind' = kind /\ stage' = stage /\ outcome' = outcome /\ docVars' = docVars
    BY <1>6 DEF vars, runningVars, recordVars
  <2>2. RunSeen' = RunSeen
    BY <2>1 DEF RunSeen, Flying, InFlight, Seen, Failed
  <2> QED
    BY <2>1, <2>2, StoreStays
<1> QED
  BY <1>1, <1>2, <1>3, <1>4, <1>5, <1>6, <1>7, RunStepFollows DEF Next

\* Delivery implements Run: for any number of fires, retries and faults, the
\* schedule and its runs move as Run says, two overlapping runs too.
THEOREM FollowsRunAlways == Spec => FollowsRun
<1>1. Spec => []FlightInv
  BY InitFlight, NextFlight, PTL DEF Spec
<1>2. FlightInv /\ FlightInv' /\ [Next]_vars => [RunMoves]_<<RunSeen, View!storeVars>>
  BY NextFollows
<1> QED
  BY <1>1, <1>2, PTL DEF Spec, FollowsRun
===============================================================================
