------------------------------ MODULE EditsProofs ------------------------------
(***************************************************************************)
(* Jobs and documents of ScheduleEdits agree, for any schedules, callers,  *)
(* requests, zones and faults: EditsInv is an invariant.                   *)
(***************************************************************************)
EXTENDS EditsInvariant, NamesProofs, ScheduleEditsProofs, TriggerProofs

-----------------------------------------------------------------------------
(* Specifications that make the same trigger. *)

SameBound(a, b, zone) ==
    (a = None <=> b = None) /\ (a # None => Localize(a, zone) = Localize(b, zone))

Agrees(d, e) ==
    /\ d.trigger_type = e.trigger_type
    /\ d.trigger_args = e.trigger_args
    /\ d.timezone = e.timezone
    /\ SameBound(d.start_date, e.start_date, e.timezone)
    /\ SameBound(d.end_date, e.end_date, e.timezone)

LEMMA AgreeBuilds == ASSUME NEW d, NEW e, Agrees(d, e) PROVE Builds(d) <=> Builds(e)
  BY DEF Agrees, SameBound, Builds, ZoneKnown, ArgsAllowed, ArgsFit, WindowInOrder

LEMMA AgreeFires == ASSUME NEW d, NEW e, Agrees(d, e) PROVE Armable(d) <=> Armable(e)
<1>1. Opens(d, Now) = Opens(e, Now)
  BY DEF Agrees, SameBound, Opens
<1>2. \A t : Closed(d, t) <=> Closed(e, t)
  BY DEF Agrees, SameBound, Closed
<1>3. NextFire(d, Now) = NextFire(e, Now)
  BY <1>1, <1>2 DEF Agrees, NextFire
<1> QED
  BY <1>3, AgreeBuilds DEF Armable, ArmableAt, HasFutureFire

LEMMA AgreeTrigger == ASSUME NEW d, NEW e, Agrees(d, e) PROVE Trigger(d) = Trigger(e)
<1>1. \A f \in Bounds :
         /\ d[f] = None <=> e[f] = None
         /\ d[f] # None => Localize(d[f], e.timezone) = Localize(e[f], e.timezone)
  BY DEF Agrees, SameBound, Bounds
<1>2. \A f \in TriggerFields \ Bounds : d[f] = e[f]
  BY DEF Agrees, TriggerFields, Bounds
<1>3. d.trigger_type = e.trigger_type /\ d.timezone = e.timezone
  BY DEF Agrees
<1> QED
  BY <1>1, <1>2, <1>3 DEF Trigger

LEMMA AgreeSound ==
    ASSUME NEW d, NEW e, Agrees(d, e), d.status = e.status
    PROVE  (Sound(d) <=> Sound(e)) /\ Wanted(d) = Wanted(e)
  BY AgreeBuilds, AgreeFires, AgreeTrigger DEF Sound, Wanted

LEMMA ListedAgrees == ASSUME NEW d PROVE Agrees(Spec5(d), d)
  BY DEF Agrees, SameBound, Spec5, TriggerFields

LEMMA ArmableBuilds == ASSUME NEW d, Armable(d) PROVE Builds(d)
  BY DEF Armable, ArmableAt

-----------------------------------------------------------------------------
(* What a request stores makes the trigger it has checked. *)

LEMMA TriggersEditable ==
    /\ TriggerFields \subseteq EditableFields /\ EditableFields \subseteq Fields
    /\ Bounds \subseteq TriggerFields /\ "status" \in EditableFields \ TriggerFields
    /\ "headers" \notin TriggerFields
  BY DEF Fields, EditableFields, TriggerFields, Bounds

LEMMA WrittenValues ==
    ASSUME NEW r
    PROVE  /\ DOMAIN Written(r) = Named(r)
           /\ \A f \in Named(r) \ (Bounds \cup {"headers"}) : Written(r)[f] = req[r].changes[f]
           /\ \A f \in Named(r) \cap Bounds :
                 Written(r)[f] = IF req[r].changes[f] = None THEN None
                                 ELSE <<req[r].changes[f][1], "utc">>
<1>1. /\ DOMAIN Unmasked(r) = Named(r)
      /\ \A f \in Named(r) \ {"headers"} : Unmasked(r)[f] = req[r].changes[f]
  BY DEF Unmasked, Named
<1> QED
  BY <1>1 DEF Written, Stored, Bounds, None

LEMMA MergedValues ==
    ASSUME NEW d, DOMAIN d = Fields, NEW changes
    PROVE  \A f \in EditableFields :
              Merge(d, changes)[f] = IF f \in DOMAIN changes THEN changes[f] ELSE d[f]
  BY TriggersEditable DEF Merge

LEMMA SavedStatus ==
    ASSUME NEW r, DOMAIN req[r].seen = Fields
    PROVE  /\ Result(r).status = Edited(r).status
           /\ "status" \notin Named(r) => Edited(r).status = req[r].seen.status
  BY WrittenValues, MergedValues, TriggersEditable DEF Result, Edited, Named, Bounds

LEMMA ResultAgrees ==
    ASSUME NEW r, DOMAIN req[r].seen = Fields, ~Shifts(r)
    PROVE  Agrees(Result(r), Edited(r))
<1> DEFINE d == Result(r)
           e == Edited(r)
<1>1. \A f \in TriggerFields \ Bounds : d[f] = e[f]
  BY WrittenValues, MergedValues, TriggersEditable DEF Result, Edited, Named
<1>2. ASSUME NEW f \in Bounds PROVE SameBound(d[f], e[f], e.timezone)
  <2>1. CASE f \in Named(r)
    <3>1. /\ e[f] = req[r].changes[f]
          /\ d[f] = IF e[f] = None THEN None ELSE <<e[f][1], "utc">>
      BY <1>2, <2>1, WrittenValues, MergedValues, TriggersEditable DEF Result, Edited, Named
    <3>2. e[f] # None => Localize(e[f], e.timezone) = e[f][1]
      BY <1>2, <2>1 DEF Shifts
    <3> QED
      BY <3>1, <3>2, LocalizeOnce DEF SameBound
  <2>2. CASE f \notin Named(r)
    <3>1. d[f] = e[f]
      BY <1>2, <2>2, WrittenValues, MergedValues, TriggersEditable DEF Result, Edited, Named
    <3> QED
      BY <3>1 DEF SameBound
  <2> QED
    BY <2>1, <2>2
<1> QED
  BY <1>1, <1>2 DEF Agrees, TriggerFields, Bounds

LEMMA UntouchedAgrees ==
    ASSUME NEW r, DOMAIN req[r].seen = Fields, ~TriggerChanged(r)
    PROVE  Agrees(Result(r), req[r].seen)
<1>1. \A f \in TriggerFields : Result(r)[f] = req[r].seen[f]
  BY WrittenValues, MergedValues, TriggersEditable DEF Result, TriggerChanged
<1> QED
  BY <1>1 DEF Agrees, SameBound, TriggerFields

LEMMA RevertAgrees ==
    ASSUME NEW r, DOMAIN req[r].seen = Fields, NEW d, d = Merge(Result(r), Before(r))
    PROVE  Agrees(d, req[r].seen) /\ d.status = req[r].seen.status
<1>1. DOMAIN Result(r) = Fields
  BY DEF Result, Merge
<1>2. \A f \in EditableFields : d[f] = req[r].seen[f]
  BY <1>1, WrittenValues, MergedValues DEF Result, Before
<1> QED
  BY <1>2, TriggersEditable DEF Agrees, SameBound, TriggerFields

-----------------------------------------------------------------------------
(* The invariant, schedule by schedule. *)

Stands(r) == ReadStands(r) /\ EditStands(r) /\ JobStands(r)

Kept(s) ==
    /\ Crowded(s) => s \in crowded
    /\ s \notin crowded =>
          /\ s \notin shifted /\ Exists(s) => Sound(doc[s])
          /\ s \in DOMAIN listed => Active(s) /\ listed[s] = Spec5(doc[s])
          /\ \A r \in Clients : On(r, s) => Stands(r)
          /\ s \notin stuck \cup shifted =>
                Follows(s, doc[s]) \/ \E r \in Clients : On(r, s) /\ HalfDone(r)

Known == CheckedInv /\ HeadersInv /\ EditsInv

LEMMA KnownOf ==
    ASSUME Known
    PROVE  /\ Shape /\ NamesInv
           /\ \A r \in Clients : Busy(r) => RequestOK(r)
           /\ \A s \in Schedules : Kept(s)
<1>1. Shape /\ NamesInv /\ \A r \in Clients : Busy(r) => RequestOK(r)
  BY DEF Known, CheckedInv, HeadersInv, NamesInv
<1>2. ASSUME NEW s \in Schedules PROVE Kept(s)
  BY DEF Known, EditsInv, CrowdsAreKnown, DocsAreSound, ListedStand, RequestsStand, JobsFollow,
         Kept, Stands, On
<1> QED
  BY <1>1, <1>2

\* The only editor of a schedule.
LEMMA OnlyEditor ==
    ASSUME NEW s \in Schedules, ~Crowded(s), NEW r \in Clients, On(r, s)
    PROVE  (\A q \in Clients : On(q, s) => q = r) /\ s \notin DOMAIN listed
<1>1. <<"request", r>> \in Editors(s)
  BY DEF Editors
<1>2. \A q \in Clients : On(q, s) => <<"request", q>> \in Editors(s)
  BY DEF Editors
<1>3. s \in DOMAIN listed => <<"worker", s>> \in Editors(s)
  BY DEF Editors
<1>4. \A q \in Clients : <<"request", q>> = <<"request", r>> => q = r
  OBVIOUS
<1>5. <<"request", r>> # <<"worker", s>>
  OBVIOUS
<1> QED
  BY <1>1, <1>2, <1>3, <1>4, <1>5 DEF Crowded

LEMMA WorkerOnly ==
    ASSUME NEW s \in Schedules, ~Crowded(s), s \in DOMAIN listed
    PROVE  \A q \in Clients : ~On(q, s)
  BY OnlyEditor

LEMMA CrowdNoted ==
    ASSUME NEW c, NEW k, History(c, k)
    PROVE  /\ \A s \in Schedules : Crowded(s)' => s \in crowded'
           /\ crowded \subseteq crowded' /\ cut' = cut \cup c /\ stuck' = stuck \cup k
  BY DEF History

-----------------------------------------------------------------------------
(* A request that stays where it is, or only moves, has read and sends the  *)
(* same.                                                                   *)

LEMMA SameEdit ==
    ASSUME NEW r, req'[r].seen = req[r].seen, req'[r].changes = req[r].changes,
           req'[r].op = req[r].op
    PROVE  /\ Edited(r)' = Edited(r) /\ Result(r)' = Result(r)
           /\ (Rearms(r)' <=> Rearms(r)) /\ (Resuming(r)' <=> Resuming(r))
           /\ (TriggerChanged(r)' <=> TriggerChanged(r)) /\ (Shifts(r)' <=> Shifts(r))
           /\ (Editing(r)' <=> Editing(r))
<1>1. Edited(r)' = Edited(r) /\ (Rearms(r)' <=> Rearms(r)) /\ Named(r)' = Named(r)
  BY EditStays DEF Named
<1>2. \A h : KeptSpelling(r, h)' = KeptSpelling(r, h)
  <2>1. \A h : KeptBy(r, h)' = KeptBy(r, h)
    BY DEF KeptBy, StoredHeaders
  <2> QED
    BY <2>1 DEF KeptSpelling
<1>3. Masked(r)' = Masked(r)
  BY DEF Masked
<1>4. Unmasked(r)' = Unmasked(r)
  BY <1>1, <1>2, <1>3 DEF Unmasked
<1>5. Result(r)' = Result(r)
  BY <1>4 DEF Result, Written, Stored, Merge
<1>6. Shifts(r)' <=> Shifts(r)
  BY <1>1 DEF Shifts
<1> QED
  BY <1>1, <1>5, <1>6 DEF Resuming, TriggerChanged, Editing, Edited, Merge

LEMMA SameRequest ==
    ASSUME NEW r, req'[r] = req[r]
    PROVE  /\ (Busy(r)' <=> Busy(r)) /\ (HalfDone(r)' <=> HalfDone(r))
           /\ \A s : On(r, s)' <=> On(r, s)
  BY SameEdit DEF Busy, HalfDone, On

\* Steps elsewhere change nothing of a schedule.
LEMMA KeptElsewhere ==
    ASSUME NEW s \in Schedules, Kept(s), Crowded(s)' => s \in crowded',
           crowded \subseteq crowded', shifted \subseteq shifted', stuck \subseteq stuck',
           s \in cut => s \in cut',
           doc'[s] = doc[s], job'[s] = job[s],
           s \in DOMAIN listed' => s \in DOMAIN listed /\ listed'[s] = listed[s],
           \A q \in Clients : On(q, s) \/ On(q, s)' => req'[q] = req[q]
    PROVE  Kept(s)'
<1> SUFFICES ASSUME s \notin crowded' PROVE Kept(s)'
  BY DEF Kept
<1>1. (Exists(s)' <=> Exists(s)) /\ (Active(s)' <=> Active(s)) /\ (Armed(s)' <=> Armed(s))
  BY DEF Exists, Active, Armed
<1>2. \A d : Follows(s, d) => Follows(s, d)'
  BY <1>1 DEF Follows, Wanted
<1>3. ASSUME NEW q \in Clients, On(q, s)' PROVE Stands(q)'
  <2>1. req'[q] = req[q] /\ On(q, s) /\ req[q].id = s /\ Stands(q)
    BY <1>3, SameRequest DEF On, Kept
  <2>2. HalfDone(q)' <=> HalfDone(q)
    BY <2>1, SameRequest
  <2>3. ReadStands(q)'
    BY <2>1, SameEdit DEF Stands, ReadStands
  <2>4. EditStands(q)'
    BY <2>1, SameEdit DEF Stands, EditStands, Sound, Armable
  <2>5. JobStands(q)'
    BY <1>1, <1>2, <2>1, <2>2 DEF Stands, JobStands, Follows, Wanted
  <2> QED
    BY <2>3, <2>4, <2>5 DEF Stands
<1>4. \A q \in Clients : On(q, s) /\ HalfDone(q) => On(q, s)' /\ HalfDone(q)'
  BY SameRequest
<1>5. Sound(doc[s])' <=> Sound(doc[s])
  BY DEF Sound, Armable
<1> QED
  BY <1>1, <1>2, <1>3, <1>4, <1>5 DEF Kept, Follows, Wanted

-----------------------------------------------------------------------------
(* Steps of a request: what becomes of its own schedule, when nobody else   *)
(* edits it.                                                               *)

\* What every step of request r leaves alone.
Frame(r) ==
    /\ UNCHANGED resyncVars
    /\ \A s \in Schedules \ {req[r].id} : doc'[s] = doc[s] /\ job'[s] = job[s]
    /\ shifted \subseteq shifted'
    /\ \E c, k : History(c, k)

LEMMA KeptJoinNext == ASSUME Shape', \A s \in Schedules : Kept(s)' PROVE EditsInv'
<1>1. \A r \in Clients : Busy(r)' => req'[r].id \in Schedules
  BY DEF Shape, Formed
<1>2. CrowdsAreKnown' /\ DocsAreSound' /\ JobsFollow'
  BY DEF CrowdsAreKnown, DocsAreSound, JobsFollow, Kept
<1>3. ListedStand'
  BY DEF Shape, ListedStand, Kept
<1>4. RequestsStand'
  BY <1>1 DEF RequestsStand, Kept, Stands, On
<1> QED
  BY <1>2, <1>3, <1>4 DEF EditsInv

LEMMA StepEnds ==
    ASSUME Known, Shape', NEW r \in Clients, Busy(r), Return(r), Frame(r),
           NEW s \in Schedules, req[r].id = s,
           s \notin crowded' =>
              /\ s \notin shifted' /\ Exists(s)' => Sound(doc'[s])
              /\ s \notin stuck' \cup shifted' => Follows(s, doc[s])'
    PROVE  EditsInv'
<1> PICK c, k : History(c, k)
  BY DEF Frame
<1>1. /\ ~Busy(r)' /\ \A q \in Clients \ {r} : req'[q] = req[q]
      /\ UNCHANGED <<listed, found>>
  BY KnownOf DEF Return, Shape, Formed, Busy, Frame, resyncVars
<1>2. ASSUME NEW q \in Schedules, q # s PROVE Kept(q)'
  <2>1. \A p \in Clients : On(p, q) \/ On(p, q)' => req'[p] = req[p]
    BY <1>1, <1>2 DEF On
  <2> QED
    BY <1>1, <1>2, <2>1, KnownOf, CrowdNoted, KeptElsewhere DEF Frame
<1>3. CASE s \notin crowded'
  <2>1. ~Crowded(s)
    BY <1>3, CrowdNoted, KnownOf DEF Kept
  <2>2. \A q \in Clients : ~On(q, s)'
    BY <1>1, <2>1, OnlyEditor, SameRequest DEF On
  <2>3. s \notin DOMAIN listed'
    BY <1>1, <2>1, OnlyEditor DEF On
  <2>4. Sound(doc[s])' <=> Sound(doc'[s])
    BY DEF Sound, Armable
  <2> QED
    BY <1>2, <1>3, <2>2, <2>3, <2>4, CrowdNoted, KeptJoinNext DEF Kept
<1>4. CASE s \in crowded'
  BY <1>2, <1>4, KeptJoinNext DEF Kept
<1> QED
  BY <1>3, <1>4

LEMMA StepMoves ==
    ASSUME Known, Shape', NEW r \in Clients, Busy(r), NEW step, step # "idle", Goto(r, step),
           Frame(r), NEW s \in Schedules, req[r].id = s,
           s \notin crowded' =>
              /\ s \notin shifted' /\ Exists(s)' => Sound(doc'[s])
              /\ s \notin stuck' \cup shifted' => Follows(s, doc[s])' \/ HalfDone(r)'
              /\ Stands(r)'
    PROVE  EditsInv'
<1> PICK c, k : History(c, k)
  BY DEF Frame
<1>1. /\ Busy(r)' /\ \A q \in Clients \ {r} : req'[q] = req[q]
      /\ req'[r].id = s /\ UNCHANGED <<listed, found>>
  BY KnownOf, GotoKeeps DEF Frame, resyncVars
<1>2. ASSUME NEW q \in Schedules, q # s PROVE Kept(q)'
  <2>1. \A p \in Clients : On(p, q) \/ On(p, q)' => req'[p] = req[p]
    BY <1>1, <1>2 DEF On
  <2> QED
    BY <1>1, <1>2, <2>1, KnownOf, CrowdNoted, KeptElsewhere DEF Frame
<1>3. CASE s \notin crowded'
  <2>1. ~Crowded(s)
    BY <1>3, CrowdNoted, KnownOf DEF Kept
  <2>2. On(r, s)' /\ \A q \in Clients : On(q, s)' => q = r
    BY <1>1, <2>1, OnlyEditor, SameRequest DEF On
  <2>3. s \notin DOMAIN listed'
    BY <1>1, <2>1, OnlyEditor DEF On
  <2>4. Sound(doc[s])' <=> Sound(doc'[s])
    BY DEF Sound, Armable
  <2> QED
    BY <1>2, <1>3, <2>2, <2>3, <2>4, CrowdNoted, KeptJoinNext DEF Kept
<1>4. CASE s \in crowded'
  BY <1>2, <1>4, KeptJoinNext DEF Kept
<1> QED
  BY <1>3, <1>4

LEMMA OwnSchedule ==
    ASSUME Known, NEW r \in Clients, Busy(r), Frame(r), NEW s, req[r].id = s
    PROVE  /\ s \in Schedules /\ RequestOK(r)
           /\ s \in cut => s \in cut'
           /\ s \notin crowded' =>
                /\ Stands(r)
                /\ s \notin shifted /\ Exists(s) => Sound(doc[s])
                /\ s \notin stuck \cup shifted => Follows(s, doc[s]) \/ HalfDone(r)
           /\ shifted \subseteq shifted' /\ stuck \subseteq stuck'
<1> PICK c, k : History(c, k)
  BY DEF Frame
<1>1. s \in Schedules /\ RequestOK(r) /\ On(r, s) /\ Kept(s)
  BY KnownOf DEF Shape, Formed, On
<1>2. crowded \subseteq crowded' /\ cut \subseteq cut' /\ stuck \subseteq stuck'
  BY CrowdNoted
<1>3. s \notin crowded' => s \notin crowded /\ ~Crowded(s)
  BY <1>1, <1>2 DEF Kept
<1> QED
  BY <1>1, <1>2, <1>3, OnlyEditor DEF Kept, Frame

LEMMA StepFrame ==
    ASSUME Known, NEW r \in Clients, NEW c, NEW k, History(c, k),
           RequestStep(r) \/ StepFails(r) \/ WriteClashes(r) \/ RevertClashes(r)
    PROVE  Busy(r) /\ Frame(r)
<1>1. DOMAIN doc = Schedules /\ DOMAIN job = Schedules
  BY KnownOf DEF NamesInv, DocsOK, Shape
<1>2. Busy(r) /\ UNCHANGED resyncVars
  BY DEF RequestStep, NameFree, NameTaken, Refused, CreateAccepted, Insert,
         InsertClashes, ArmNew, Uncreate, NothingToDo, DisarmThenSave, SaveFirst, Write,
         WriteMissed, ArmEdited, Revert, DisarmThenDelete, Remove, Reaches, At, StepFails,
         WriteClashes, RevertClashes, resyncVars
<1>3. shifted \subseteq shifted'
  BY DEF RequestStep, NameFree, NameTaken, Refused, CreateAccepted, Insert,
         InsertClashes, ArmNew, Uncreate, NothingToDo, DisarmThenSave, SaveFirst, Write,
         WriteMissed, ArmEdited, Revert, DisarmThenDelete, Remove, StepFails,
         WriteClashes, RevertClashes, Store, storeVars, docVars
<1>4. \A s \in Schedules \ {req[r].id} : doc'[s] = doc[s]
  BY <1>1 DEF RequestStep, NameFree, NameTaken, Refused, CreateAccepted, Insert,
         InsertClashes, ArmNew, Uncreate, NothingToDo, DisarmThenSave, SaveFirst, Write,
         WriteMissed, ArmEdited, Revert, DisarmThenDelete, Remove, StepFails,
         WriteClashes, RevertClashes, Store, storeVars, docVars
<1>5. \A s \in Schedules \ {req[r].id} : job'[s] = job[s]
  BY <1>1 DEF RequestStep, NameFree, NameTaken, Refused, CreateAccepted, Insert,
         InsertClashes, ArmNew, Uncreate, NothingToDo, DisarmThenSave, SaveFirst, Write,
         WriteMissed, ArmEdited, Revert, DisarmThenDelete, Remove, StepFails,
         WriteClashes, RevertClashes, storeVars, Arm, Disarm
<1> QED
  BY <1>2, <1>3, <1>4, <1>5 DEF Frame

LEMMA ReplyFrame ==
    ASSUME Known, NEW r \in Clients, ReplyFault(r)
    PROVE  /\ Busy(r) /\ Frame(r) /\ ReplyLost(r)
           /\ LosesJob(r) => req[r].id \in cut'
           /\ LosesTrack(r) => req[r].id \in stuck'
<1>1. DOMAIN doc = Schedules /\ DOMAIN job = Schedules
  BY KnownOf DEF NamesInv, DocsOK, Shape
<1>2. /\ ReplyLost(r)
      /\ \E c, k : /\ History(c, k)
                   /\ LosesJob(r) => req[r].id \in c
                   /\ LosesTrack(r) => req[r].id \in k
  <2> DEFINE c == IF LosesJob(r) THEN {req[r].id} ELSE {}
             k == IF LosesTrack(r) THEN {req[r].id} ELSE {}
  <2>1. ReplyLost(r) /\ History(c, k)
    BY DEF ReplyFault
  <2>2. (LosesJob(r) => req[r].id \in c) /\ (LosesTrack(r) => req[r].id \in k)
    OBVIOUS
  <2> HIDE DEF c, k
  <2> QED
    BY <2>1, <2>2
<1>3. Busy(r) /\ UNCHANGED resyncVars
  BY <1>2 DEF ReplyLost, InsertReplyLost, WriteReplyLost, ArmReplyLost, DisarmReplyLost, Reaches, At
<1>4. shifted \subseteq shifted'
  BY <1>2 DEF ReplyLost, InsertReplyLost, WriteReplyLost, ArmReplyLost, DisarmReplyLost,
     Store, docVars
<1>5. \A s \in Schedules \ {req[r].id} : doc'[s] = doc[s]
  BY <1>1, <1>2 DEF ReplyLost, InsertReplyLost, WriteReplyLost, ArmReplyLost, DisarmReplyLost,
     Store, docVars
<1>6. \A s \in Schedules \ {req[r].id} : job'[s] = job[s]
  BY <1>1, <1>2 DEF ReplyLost, InsertReplyLost, WriteReplyLost, ArmReplyLost, DisarmReplyLost,
     Arm, Disarm
<1> QED
  BY <1>2, <1>3, <1>4, <1>5, <1>6, CrowdNoted DEF Frame

\* A request that ends with nothing done.
LEMMA GivesUp ==
    ASSUME Known, Shape', NEW r \in Clients, Busy(r), Return(r), Frame(r),
           UNCHANGED storeVars, ~HalfDone(r)
    PROVE  EditsInv'
<1> SUFFICES ASSUME NEW s, req[r].id = s PROVE EditsInv'
  OBVIOUS
<1>1. doc' = doc /\ job' = job /\ shifted' = shifted
  BY DEF storeVars, docVars
<1> QED
  BY <1>1, OwnSchedule, StepEnds DEF Exists, Follows, Wanted, Armed

\* A request cut short half way.
LEMMA CutShort ==
    ASSUME Known, Shape', NEW r \in Clients, Busy(r), Return(r), Frame(r),
           UNCHANGED storeVars, HalfDone(r), req[r].at \notin {"arm", "armNew"}, EndsAt(r)
    PROVE  EditsInv'
<1> SUFFICES ASSUME NEW s, req[r].id = s PROVE EditsInv'
  OBVIOUS
<1>1. doc' = doc /\ job' = job /\ shifted' = shifted
  BY DEF storeVars, docVars
<1>2. /\ LeavesUnarmed(r) => s \in cut'
      /\ req[r].at = "revert" /\ ~Resuming(r) => s \in stuck'
  BY CrowdNoted DEF EndsAt
<1>3. CASE req[r].at # "revert"
  <2>1. LeavesUnarmed(r)
    BY <1>3 DEF HalfDone, LeavesUnarmed
  <2> QED
    BY <1>1, <1>2, <1>3, <2>1, OwnSchedule, StepEnds
       DEF Exists, Follows, Wanted, Armed, Stands, JobStands
<1>4. CASE req[r].at = "revert" /\ Resuming(r)
  <2>1. LeavesUnarmed(r) /\ Wanted(req[r].seen) = None
    BY <1>4 DEF LeavesUnarmed, Resuming, Wanted
  <2> QED
    BY <1>1, <1>2, <1>4, <2>1, OwnSchedule, StepEnds
       DEF Exists, Follows, Wanted, Armed, Stands, JobStands
<1>5. CASE req[r].at = "revert" /\ ~Resuming(r)
  BY <1>1, <1>2, <1>5, OwnSchedule, StepEnds DEF Exists
<1> QED
  BY <1>3, <1>4, <1>5

\* From one step before the write to the next, with both stores as they were.
LEMMA ForwardKeeps ==
    ASSUME Known, Shape', NEW r \in Clients, Frame(r),
           NameFree(r) \/ CreateAccepted(r) \/ SaveFirst(r)
    PROVE  EditsInv'
<1> SUFFICES ASSUME NEW s, req[r].id = s PROVE EditsInv'
  OBVIOUS
<1>1. Busy(r) /\ doc' = doc /\ job' = job /\ shifted' = shifted
  BY DEF NameFree, CreateAccepted, SaveFirst, Reaches, At, storeVars, docVars
<1>2. PICK step : /\ Goto(r, step) /\ step \in {"decide", "insert", "write"}
                  /\ step = "insert" => req[r].op = "create"
                  /\ step = "write" =>
                        /\ Edited(r).status = "active"
                        /\ TriggerChanged(r) => Builds(Edited(r))
  BY ArmableBuilds DEF NameFree, CreateAccepted, SaveFirst, Acceptable
<1>3. req[r].at \in {"name", "decide"}
  BY DEF NameFree, CreateAccepted, SaveFirst, Reaches, At
<1>4. /\ Busy(r)' /\ req'[r].at = step /\ req'[r].seen = req[r].seen
      /\ req'[r].changes = req[r].changes /\ req'[r].op = req[r].op /\ req'[r].id = s
  BY <1>1, <1>2, KnownOf, GotoKeeps
<1>5. ~HalfDone(r) /\ ~HalfDone(r)'
  BY <1>2, <1>3, <1>4, SameEdit DEF HalfDone
<1>6. s \notin crowded' => Stands(r)'
  <2> SUFFICES ASSUME s \notin crowded' PROVE Stands(r)'
    OBVIOUS
  <2>1. Stands(r)
    BY <1>1, OwnSchedule
  <2>2. ReadStands(r)'
    BY <1>1, <1>2, <1>3, <1>4, <2>1 DEF Stands, ReadStands
  <2>3. EditStands(r)'
    BY <1>1, <1>2, <1>4, <2>1, SameEdit DEF Stands, EditStands, Sound, Armable, Editing
  <2>4. JobStands(r)'
    BY <1>5 DEF JobStands
  <2> QED
    BY <2>2, <2>3, <2>4 DEF Stands
<1> QED
  BY <1>1, <1>2, <1>5, <1>6, OwnSchedule, StepMoves DEF Exists, Follows, Wanted, Armed

\* The job goes before the document.
LEMMA DisarmKeepsAll ==
    ASSUME Known, Shape', NEW r \in Clients, Frame(r),
           DisarmThenSave(r) \/ DisarmThenDelete(r)
    PROVE  EditsInv'
<1> SUFFICES ASSUME NEW s, req[r].id = s PROVE EditsInv'
  OBVIOUS
<1>1. Busy(r) /\ doc' = doc /\ shifted' = shifted /\ Disarm(s) /\ req[r].at = "decide"
  BY DEF DisarmThenSave, DisarmThenDelete, Reaches, At, docVars
<1>2. PICK step : /\ Goto(r, step)
                  /\ \/ /\ step = "remove" /\ req[r].op = "delete"
                     \/ /\ step = "write" /\ Edited(r).status # "active" /\ Editing(r)
                        /\ TriggerChanged(r) => Builds(Edited(r))
  BY ArmableBuilds DEF DisarmThenSave, DisarmThenDelete, Acceptable, Reaches
<1>3. /\ Busy(r)' /\ req'[r].at = step /\ req'[r].seen = req[r].seen
      /\ req'[r].changes = req[r].changes /\ req'[r].op = req[r].op /\ req'[r].id = s
  BY <1>1, <1>2, KnownOf, GotoKeeps
<1>4. HalfDone(r)'
  BY <1>2, <1>3, SameEdit DEF HalfDone
<1>5. ~Armed(s)'
  BY <1>1, OwnSchedule, KnownOf DEF Disarm, Armed, Shape
<1>6. s \notin crowded' => Stands(r)'
  <2> SUFFICES ASSUME s \notin crowded' PROVE Stands(r)'
    OBVIOUS
  <2>1. Stands(r)
    BY <1>1, OwnSchedule
  <2>2. ReadStands(r)'
    BY <1>1, <1>2, <1>3, <2>1 DEF Stands, ReadStands
  <2>3. EditStands(r)'
    BY <1>1, <1>2, <1>3, <2>1, SameEdit DEF Stands, EditStands, Sound, Armable
  <2>4. JobStands(r)'
    BY <1>2, <1>3, <1>5 DEF JobStands
  <2> QED
    BY <2>2, <2>3, <2>4 DEF Stands
<1> QED
  BY <1>1, <1>2, <1>4, <1>6, OwnSchedule, StepMoves DEF Exists

\* The job has gone, the caller got an error, and nothing is saved.
LEMMA DisarmLostKeepsAll ==
    ASSUME Known, Shape', NEW r \in Clients, ReplyFault(r), DisarmReplyLost(r)
    PROVE  EditsInv'
<1> SUFFICES ASSUME NEW s, req[r].id = s PROVE EditsInv'
  OBVIOUS
<1>1. /\ Busy(r) /\ Frame(r) /\ Return(r) /\ doc' = doc /\ shifted' = shifted /\ Disarm(s)
      /\ req[r].at = "decide"
  BY ReplyFrame DEF DisarmReplyLost, Reaches, At, docVars
<1>2. s \in cut'
  BY <1>1, ReplyFrame DEF LosesJob
<1>3. ~Armed(s)'
  BY <1>1, OwnSchedule, KnownOf DEF Disarm, Armed, Shape
<1> QED
  BY <1>1, <1>2, <1>3, OwnSchedule, StepEnds DEF Exists, Follows

\* The job that comes last is the one the document wants.
LEMMA ArmKeepsAll ==
    ASSUME Known, Shape', NEW r \in Clients, Frame(r), ArmNew(r) \/ ArmEdited(r)
    PROVE  EditsInv'
<1> SUFFICES ASSUME NEW s, req[r].id = s PROVE EditsInv'
  OBVIOUS
<1>1. /\ Busy(r) /\ Return(r) /\ doc' = doc /\ shifted' = shifted /\ Arm(s, Edited(r))
      /\ req[r].at \in {"arm", "armNew"}
  BY DEF ArmNew, ArmEdited, At, docVars
<1>2. job'[s] = Trigger(Edited(r))
  BY <1>1, OwnSchedule, KnownOf DEF Arm, Shape
<1>3. ASSUME s \notin crowded', s \notin shifted PROVE job'[s] = Wanted(doc[s])
  <2>1. /\ Stands(r) /\ doc[s] = Result(r) /\ ~Shifts(r) /\ DOMAIN req[r].seen = Fields
    BY <1>1, <1>3, OwnSchedule DEF Stands, ReadStands, RequestOK
  <2>2. Edited(r).status = "active"
    BY <1>1, <2>1 DEF Stands, EditStands, Rearms
  <2>3. Result(r).status = "active" /\ Trigger(Result(r)) = Trigger(Edited(r))
    BY <2>1, <2>2, SavedStatus, ResultAgrees, AgreeTrigger
  <2> QED
    BY <1>2, <2>1, <2>3 DEF Wanted
<1> QED
  BY <1>1, <1>3, OwnSchedule, StepEnds DEF Exists, Follows, Wanted

LEMMA DeleteKeepsAll ==
    ASSUME Known, Shape', NEW r \in Clients, Frame(r), Uncreate(r) \/ Remove(r)
    PROVE  EditsInv'
<1> SUFFICES ASSUME NEW s, req[r].id = s PROVE EditsInv'
  OBVIOUS
<1>1. /\ Busy(r) /\ Return(r) /\ job' = job /\ shifted' = shifted
      /\ req[r].at \in {"uncreate", "remove"}
      /\ doc' = [doc EXCEPT ![s].status = "deleted"]
  BY DEF Uncreate, Remove, At
<1>2. doc'[s].status = "deleted"
  BY <1>1, OwnSchedule, KnownOf, FieldsNamed DEF NamesInv, DocsOK
<1>3. s \notin crowded' /\ s \notin stuck \cup shifted => ~Armed(s)
  BY <1>1, OwnSchedule DEF Stands, JobStands, HalfDone
<1> QED
  BY <1>1, <1>2, <1>3, OwnSchedule, StepEnds DEF Exists, Follows, Wanted, Armed

\* What is put back is what the job that is there was made for.
LEMMA RevertKeepsAll ==
    ASSUME Known, Shape', NEW r \in Clients, Frame(r), Revert(r) PROVE EditsInv'
<1> SUFFICES ASSUME NEW s, req[r].id = s PROVE EditsInv'
  OBVIOUS
<1>1. Busy(r) /\ Return(r) /\ job' = job /\ shifted' = shifted /\ req[r].at = "revert"
  BY DEF Revert, At
<1> SUFFICES ASSUME s \notin crowded', s \notin shifted PROVE Sound(doc'[s]) /\
                 (s \notin stuck => Follows(s, doc[s])')
  BY <1>1, OwnSchedule, StepEnds
<1>2. /\ Stands(r) /\ doc[s] = Result(r) /\ DOMAIN req[r].seen = Fields /\ Editing(r)
      /\ Edited(r).status = "active"
  BY <1>1, OwnSchedule DEF Stands, ReadStands, EditStands, RequestOK, OnPath, Editing, Rearms
<1>3. Exists(s)
  BY <1>2, SavedStatus DEF Exists
<1>4. doc'[s] = Merge(Result(r), Before(r))
  BY <1>1, <1>2, <1>3, OwnSchedule, KnownOf DEF Revert, Reverted, NamesInv, DocsOK
<1>5. (Sound(doc'[s]) <=> Sound(req[r].seen)) /\ Wanted(doc'[s]) = Wanted(req[r].seen)
  <2>1. Agrees(doc'[s], req[r].seen) /\ doc'[s].status = req[r].seen.status
    BY <1>2, <1>4, RevertAgrees
  <2> QED
    BY <2>1, AgreeSound
<1>6. Sound(req[r].seen) /\ (s \notin stuck => Follows(s, req[r].seen))
  BY <1>1, <1>2 DEF Stands, EditStands, JobStands, HalfDone
<1>7. Wanted(doc[s])' = Wanted(doc'[s])
  BY DEF Wanted, Trigger
<1> QED
  BY <1>1, <1>5, <1>6, <1>7, OwnSchedule DEF Follows, Armed

\* A document that has been saved as checked is sound.
LEMMA ResultSound ==
    ASSUME NEW r, DOMAIN req[r].seen = Fields, ~Shifts(r),
           Edited(r).status = "active" => Armable(Edited(r)),
           Builds(Edited(r))
    PROVE  Sound(Result(r)) /\ Wanted(Result(r)) = Wanted(Edited(r))
<1>1. Agrees(Result(r), Edited(r)) /\ Result(r).status = Edited(r).status
  BY ResultAgrees, SavedStatus
<1>2. Sound(Edited(r))
  BY DEF Sound
<1> QED
  BY <1>1, <1>2, AgreeSound

\* The document a create stores is sound, and the job is still to come.
LEMMA InsertStores ==
    ASSUME Known, NEW r \in Clients, Busy(r), Frame(r), Insert(r) \/ InsertReplyLost(r),
           NEW s, req[r].id = s
    PROVE  /\ s \in Schedules /\ req[r].op = "create" /\ req[r].at = "insert" /\ job' = job
           /\ doc'[s] = Result(r) /\ (Shifts(r) => s \in shifted')
           /\ Edited(r).status = "active"
           /\ s \notin shifted' => Sound(doc'[s])
           /\ s \notin crowded' /\ s \notin stuck \cup shifted => ~Armed(s)
<1>1. job' = job /\ req[r].at = "insert" /\ Store(r, Result(r))
  BY DEF Insert, InsertReplyLost, At, Result
<1>2. /\ RequestOK(r) /\ s \in Schedules /\ req[r].op = "create" /\ Fresh(r)
  BY <1>1, OwnSchedule DEF RequestOK, OnPath, Fresh, Creating
<1>3. /\ DOMAIN req[r].seen = Fields /\ doc[s].status = "absent"
      /\ req[r].seen.status = "active" /\ "status" \notin Named(r)
  BY <1>2, FieldsNamed DEF RequestOK, NewDoc, NoDoc
<1>4. Edited(r).status = "active" /\ Armable(Edited(r))
  BY <1>1, <1>3, SavedStatus DEF Known, CheckedInv, EditChecked, WillArm, At
<1>5. /\ doc'[s] = Result(r) /\ (Shifts(r) => s \in shifted')
  BY <1>1, <1>2, KnownOf DEF Store, NamesInv, DocsOK
<1>6. s \notin shifted' => Sound(doc'[s])
  BY <1>3, <1>4, <1>5, ResultSound, ArmableBuilds
<1>7. s \notin crowded' /\ s \notin stuck \cup shifted => ~Armed(s)
  BY <1>1, <1>3, OwnSchedule DEF Follows, Wanted, Armed, HalfDone
<1> QED
  BY <1>1, <1>2, <1>4, <1>5, <1>6, <1>7

LEMMA InsertKeepsAll ==
    ASSUME Known, Shape', NEW r \in Clients, Busy(r), Frame(r), Insert(r) PROVE EditsInv'
<1> SUFFICES ASSUME NEW s, req[r].id = s PROVE EditsInv'
  OBVIOUS
<1>1. /\ Goto(r, "armNew") /\ job' = job /\ doc'[s] = Result(r) /\ (Shifts(r) => s \in shifted')
      /\ Edited(r).status = "active" /\ req[r].op = "create"
      /\ s \notin shifted' => Sound(doc'[s])
  BY InsertStores DEF Insert
<1>2. /\ Busy(r)' /\ req'[r].at = "armNew" /\ req'[r].seen = req[r].seen
      /\ req'[r].changes = req[r].changes /\ req'[r].op = req[r].op /\ req'[r].id = s
  BY <1>1, KnownOf, GotoKeeps
<1>3. HalfDone(r)'
  BY <1>2 DEF HalfDone
<1>4. s \notin crowded' => Stands(r)'
  <2> SUFFICES ASSUME s \notin crowded' PROVE Stands(r)'
    OBVIOUS
  <2>1. s \notin stuck \cup shifted => ~Armed(s)
    BY InsertStores
  <2>2. ReadStands(r)'
    BY <1>1, <1>2, SameEdit DEF ReadStands
  <2>3. EditStands(r)'
    BY <1>1, <1>2, SameEdit DEF EditStands, Editing
  <2>4. JobStands(r)'
    BY <1>1, <1>2, <2>1, OwnSchedule DEF JobStands, Armed
  <2> QED
    BY <2>2, <2>3, <2>4 DEF Stands
<1> QED
  BY <1>1, <1>3, <1>4, OwnSchedule, StepMoves

\* Inserted without the caller's learning of it: active, and without a job.
LEMMA InsertLostKeepsAll ==
    ASSUME Known, Shape', NEW r \in Clients, ReplyFault(r), InsertReplyLost(r)
    PROVE  EditsInv'
<1> SUFFICES ASSUME NEW s, req[r].id = s PROVE EditsInv'
  OBVIOUS
<1>1. Busy(r) /\ Frame(r) /\ Return(r)
  BY ReplyFrame DEF InsertReplyLost
<1>2. /\ job' = job /\ s \in Schedules /\ req[r].at = "insert"
      /\ s \notin shifted' => Sound(doc'[s])
      /\ s \notin crowded' /\ s \notin stuck \cup shifted => ~Armed(s)
  BY <1>1, InsertStores
<1>3. s \in cut'
  BY <1>2, ReplyFrame DEF LosesJob
<1> QED
  BY <1>1, <1>2, <1>3, OwnSchedule, StepEnds DEF Follows, Armed

\* The document a request saves is sound, and wants the old job if the request is
\* not to arm another one.
LEMMA SavedSound ==
    ASSUME NEW r, DOMAIN req[r].seen = Fields, Sound(req[r].seen), ~Shifts(r),
           TriggerChanged(r) => Builds(Edited(r)),
           Rearms(r) => Armable(Edited(r))
    PROVE  /\ Sound(Result(r))
           /\ ~Rearms(r) /\ Edited(r).status = "active" => Wanted(Result(r)) = Wanted(req[r].seen)
<1>1. CASE TriggerChanged(r) \/ Rearms(r)
  <2>1. Builds(Edited(r)) /\ (Edited(r).status = "active" => Armable(Edited(r)))
    BY <1>1, ArmableBuilds DEF Rearms
  <2> QED
    BY <1>1, <2>1, ResultSound DEF Rearms
<1>2. CASE ~TriggerChanged(r) /\ ~Rearms(r)
  <2>1. Agrees(Result(r), req[r].seen) /\ Result(r).status = Edited(r).status
    BY <1>2, UntouchedAgrees, SavedStatus
  <2>2. Edited(r).status = "active" => req[r].seen.status = "active"
    BY <1>2 DEF Rearms, Resuming
  <2>3. CASE Edited(r).status = "active"
    BY <2>1, <2>2, <2>3, AgreeSound
  <2>4. CASE Edited(r).status # "active"
    BY <2>1, <2>4, AgreeBuilds, ArmableBuilds DEF Sound
  <2> QED
    BY <2>3, <2>4
<1> QED
  BY <1>1, <1>2

LEMMA WriteKeepsAll ==
    ASSUME Known, Shape', NEW r \in Clients, Frame(r),
           Write(r) \/ (WriteReplyLost(r) /\ ReplyFault(r))
    PROVE  EditsInv'
<1> SUFFICES ASSUME NEW s, req[r].id = s PROVE EditsInv'
  OBVIOUS
<1>1. /\ Busy(r) /\ job' = job /\ req[r].at = "write" /\ Store(r, Saved(r))
      /\ \/ Rearms(r) /\ Goto(r, "arm")
         \/ ~Rearms(r) /\ Return(r)
         \/ Rearms(r) /\ Return(r) /\ ReplyFault(r)
  BY DEF Write, WriteReplyLost, At
<1>2. /\ RequestOK(r) /\ s \in Schedules /\ Editing(r) /\ DOMAIN req[r].seen = Fields
  BY <1>1, OwnSchedule DEF RequestOK, OnPath, Editing
<1>3. Rearms(r) => Armable(Edited(r))
  BY <1>1 DEF Known, CheckedInv, EditChecked, WillArm, At
<1>4. s \in shifted => s \in shifted'
  BY OwnSchedule, <1>1
<1>5. ASSUME s \notin crowded'
      PROVE  /\ Stands(r) /\ doc[s] = req[r].seen /\ doc'[s] = Result(r)
             /\ Shifts(r) => s \in shifted'
             /\ s \notin shifted' =>
                   /\ Sound(doc'[s]) /\ Sound(req[r].seen)
                   /\ ~Rearms(r) /\ Edited(r).status = "active" =>
                         Wanted(doc'[s]) = Wanted(req[r].seen)
             /\ s \notin stuck \cup shifted =>
                   IF Edited(r).status = "active" THEN Follows(s, req[r].seen) ELSE ~Armed(s)
  <2>1. Stands(r) /\ doc[s] = req[r].seen
    BY <1>1, <1>2, <1>5, OwnSchedule DEF Stands, ReadStands, Editing
  <2>2. doc'[s] = Result(r) /\ (Shifts(r) => s \in shifted')
    BY <1>1, <1>2, <2>1, KnownOf DEF Store, Saved, Result, NamesInv, DocsOK
  <2>3. s \notin shifted' =>
                   /\ Sound(doc'[s]) /\ Sound(req[r].seen)
                   /\ ~Rearms(r) /\ Edited(r).status = "active" =>
                         Wanted(doc'[s]) = Wanted(req[r].seen)
    <3> SUFFICES ASSUME s \notin shifted'
                 PROVE  /\ Sound(Result(r)) /\ Sound(req[r].seen)
                        /\ ~Rearms(r) /\ Edited(r).status = "active" =>
                               Wanted(Result(r)) = Wanted(req[r].seen)
      BY <2>2
    <3>1. Sound(req[r].seen) /\ (TriggerChanged(r) => Builds(Edited(r)))
      BY <1>1, <1>2, <1>4, <2>1 DEF Stands, EditStands
    <3> QED
      BY <1>2, <1>3, <2>2, <3>1, SavedSound
  <2>4. s \notin stuck \cup shifted =>
                   IF Edited(r).status = "active" THEN Follows(s, req[r].seen) ELSE ~Armed(s)
    BY <1>1, <1>5, <2>1, OwnSchedule DEF Stands, JobStands, HalfDone
  <2> QED
    BY <2>1, <2>2, <2>3, <2>4
<1>6. Wanted(doc[s])' = Wanted(doc'[s])
  BY DEF Wanted, Trigger
<1>7. CASE Rearms(r) /\ Goto(r, "arm")
  <2>1. /\ Busy(r)' /\ req'[r].at = "arm" /\ req'[r].seen = req[r].seen
        /\ req'[r].changes = req[r].changes /\ req'[r].op = req[r].op /\ req'[r].id = s
    BY <1>1, <1>7, KnownOf, GotoKeeps
  <2>2. HalfDone(r)'
    BY <2>1 DEF HalfDone
  <2>3. s \notin crowded' => Stands(r)'
    <3> SUFFICES ASSUME s \notin crowded' PROVE Stands(r)'
      OBVIOUS
    <3>1. ReadStands(r)'
      BY <1>5, <2>1, SameEdit DEF ReadStands
    <3>2. Sound(req[r].seen)' <=> Sound(req[r].seen)
      BY <2>1 DEF Sound, Armable
    <3>3. EditStands(r)'
      BY <1>5, <1>7, <2>1, <3>2, SameEdit DEF EditStands
    <3>4. Edited(r).status = "active"
      BY <1>7 DEF Rearms
    <3>5. JobStands(r)'
      BY <1>1, <1>5, <2>1, <3>4, OwnSchedule DEF JobStands, Follows, Wanted, Trigger, Armed
    <3> QED
      BY <3>1, <3>3, <3>5 DEF Stands
  <2> QED
    BY <1>1, <1>5, <1>7, <2>2, <2>3, OwnSchedule, StepMoves
<1>8. CASE ~Rearms(r) /\ Return(r)
  <2>1. s \notin crowded' /\ s \notin stuck' \cup shifted' => Follows(s, doc[s])'
    <3> SUFFICES ASSUME s \notin crowded', s \notin stuck', s \notin shifted'
                 PROVE  Follows(s, doc[s])'
      OBVIOUS
    <3>1. s \notin stuck /\ s \notin shifted /\ (s \in cut => s \in cut')
      BY <1>1, <1>4, OwnSchedule
    <3>2. CASE Edited(r).status = "active"
      BY <1>1, <1>5, <1>6, <1>8, <3>1, <3>2 DEF Follows, Armed
    <3>3. CASE Edited(r).status # "active"
      <4>1. Wanted(doc'[s]) = None
        BY <1>2, <1>5, <3>3, SavedStatus DEF Wanted
      <4> QED
        BY <1>1, <1>5, <1>6, <3>1, <3>3, <4>1 DEF Follows, Armed
    <3> QED
      BY <3>2, <3>3
  <2> QED
    BY <1>1, <1>2, <1>5, <1>8, <2>1, StepEnds
<1>9. CASE Rearms(r) /\ Return(r) /\ ReplyFault(r)
  <2>1. IF Resuming(r) THEN s \in cut' ELSE s \in stuck'
    BY <1>1, <1>9, ReplyFrame DEF LosesJob, LosesTrack
  <2>2. s \notin crowded' /\ s \notin stuck' \cup shifted' => Follows(s, doc[s])'
    <3> SUFFICES ASSUME s \notin crowded', s \notin stuck', s \notin shifted'
                 PROVE  Follows(s, doc[s])'
      OBVIOUS
    <3>1. s \notin stuck /\ s \notin shifted /\ Resuming(r) /\ s \in cut'
      BY <1>1, <1>4, <2>1, OwnSchedule
    <3>2. Follows(s, req[r].seen) /\ Wanted(req[r].seen) = None
      BY <1>5, <3>1 DEF Resuming, Wanted
    <3> QED
      BY <1>1, <3>1, <3>2 DEF Follows, Armed
  <2> QED
    BY <1>1, <1>2, <1>5, <1>9, <2>2, StepEnds
<1> QED
  BY <1>1, <1>7, <1>8, <1>9

\* Only another caller's delete makes a write miss.
LEMMA MissKeepsAll ==
    ASSUME Known, Shape', NEW r \in Clients, Frame(r), WriteMissed(r) PROVE EditsInv'
<1> SUFFICES ASSUME NEW s, req[r].id = s PROVE EditsInv'
  OBVIOUS
<1>1. /\ Busy(r) /\ req[r].at = "write" /\ ~Exists(s)
      /\ Return(r) \/ Goto(r, "arm")
  BY DEF WriteMissed, At
<1>2. s \in crowded'
  <2> SUFFICES ASSUME s \notin crowded' PROVE FALSE
    OBVIOUS
  <2>1. Stands(r) /\ Editing(r) /\ req[r].seen.status \in {"active", "paused"}
    BY <1>1, OwnSchedule DEF RequestOK, OnPath, Editing
  <2>2. doc[s] = req[r].seen
    BY <1>1, <2>1 DEF Stands, ReadStands, Editing
  <2> QED
    BY <1>1, <2>1, <2>2 DEF Exists
<1> QED
  BY <1>1, <1>2, StepEnds, StepMoves, OwnSchedule

\* A failure to add the job leads to the step that undoes.
LEMMA ArmFailsKeepsAll ==
    ASSUME Known, Shape', NEW r \in Clients, Busy(r), Frame(r), UNCHANGED storeVars,
           \/ req[r].at = "armNew" /\ Goto(r, "uncreate")
           \/ req[r].at = "arm" /\ Goto(r, "revert")
    PROVE  EditsInv'
<1> SUFFICES ASSUME NEW s, req[r].id = s PROVE EditsInv'
  OBVIOUS
<1>1. doc' = doc /\ job' = job /\ shifted' = shifted
  BY DEF storeVars, docVars
<1>2. PICK step : /\ Goto(r, step) /\ step \in {"uncreate", "revert"}
                  /\ step = "revert" <=> req[r].at = "arm"
                  /\ step = "uncreate" <=> req[r].at = "armNew"
  OBVIOUS
<1>3. /\ Busy(r)' /\ req'[r].at = step /\ req'[r].seen = req[r].seen
      /\ req'[r].changes = req[r].changes /\ req'[r].op = req[r].op /\ req'[r].id = s
  BY <1>2, KnownOf, GotoKeeps
<1>4. HalfDone(r) /\ HalfDone(r)'
  BY <1>2, <1>3 DEF HalfDone
<1>5. s \notin crowded' => Stands(r)'
  <2> SUFFICES ASSUME s \notin crowded' PROVE Stands(r)'
    OBVIOUS
  <2>1. Stands(r) /\ (s \in cut => s \in cut')
    BY OwnSchedule
  <2>2. stuck \subseteq stuck'
    BY OwnSchedule
  <2>3. ReadStands(r)'
    BY <1>1, <1>2, <1>3, <2>1, SameEdit DEF Stands, ReadStands
  <2>4. EditStands(r)'
    BY <1>1, <1>2, <1>3, <2>1, SameEdit DEF Stands, EditStands, Sound, Armable
  <2>5. JobStands(r)'
    BY <1>1, <1>2, <1>3, <1>4, <2>1, <2>2 DEF Stands, JobStands, Follows, Wanted, Trigger, Armed
  <2> QED
    BY <2>3, <2>4, <2>5 DEF Stands
<1> QED
  BY <1>1, <1>2, <1>4, <1>5, OwnSchedule, StepMoves DEF Exists

\* The job was added although the call failed: nothing is known of it any more.
LEMMA ArmLostKeepsAll ==
    ASSUME Known, Shape', NEW r \in Clients, ReplyFault(r), ArmReplyLost(r)
    PROVE  EditsInv'
<1> SUFFICES ASSUME NEW s, req[r].id = s PROVE EditsInv'
  OBVIOUS
<1>1. Busy(r) /\ Frame(r) /\ doc' = doc /\ shifted' = shifted
  BY ReplyFrame DEF ArmReplyLost, docVars
<1>2. PICK step : /\ Goto(r, step) /\ step \in {"uncreate", "revert"}
                  /\ req[r].at \in {"arm", "armNew"}
                  /\ step = "revert" <=> req[r].at = "arm"
  BY DEF ArmReplyLost, At
<1>3. s \in stuck'
  BY <1>2, ReplyFrame DEF LosesTrack
<1>4. /\ Busy(r)' /\ req'[r].at = step /\ req'[r].seen = req[r].seen
      /\ req'[r].changes = req[r].changes /\ req'[r].op = req[r].op /\ req'[r].id = s
  BY <1>1, <1>2, KnownOf, GotoKeeps
<1>5. s \notin crowded' => Stands(r)'
  <2> SUFFICES ASSUME s \notin crowded' PROVE Stands(r)'
    OBVIOUS
  <2>1. Stands(r)
    BY <1>1, OwnSchedule
  <2>2. ReadStands(r)'
    BY <1>1, <1>2, <1>4, <2>1, SameEdit DEF Stands, ReadStands
  <2>3. EditStands(r)'
    BY <1>1, <1>2, <1>4, <2>1, SameEdit DEF Stands, EditStands, Sound, Armable
  <2>4. JobStands(r)'
    BY <1>3, <1>4 DEF JobStands
  <2> QED
    BY <2>2, <2>3, <2>4 DEF Stands
<1> QED
  BY <1>1, <1>2, <1>3, <1>5, OwnSchedule, StepMoves DEF Exists

LEMMA ServeKeepsAll ==
    ASSUME Known, Shape', NEW r \in Clients, Serve(r) PROVE EditsInv'
<1>1. Busy(r) /\ Frame(r) /\ RequestStep(r)
  BY StepFrame DEF Serve, Uneventful
<1>2. CASE NameTaken(r) \/ Refused(r) \/ InsertClashes(r) \/ NothingToDo(r)
  <2>1. Return(r) /\ UNCHANGED storeVars /\ ~HalfDone(r)
    BY <1>2 DEF NameTaken, Refused, InsertClashes, NothingToDo, Reaches, At, HalfDone
  <2> QED
    BY <1>1, <2>1, GivesUp
<1>3. CASE NameFree(r) \/ CreateAccepted(r) \/ SaveFirst(r)
  BY <1>1, <1>3, ForwardKeeps
<1>4. CASE DisarmThenSave(r) \/ DisarmThenDelete(r)
  BY <1>1, <1>4, DisarmKeepsAll
<1>5. CASE ArmNew(r) \/ ArmEdited(r)
  BY <1>1, <1>5, ArmKeepsAll
<1>6. CASE Uncreate(r) \/ Remove(r)
  BY <1>1, <1>6, DeleteKeepsAll
<1>7. CASE Revert(r) \/ Insert(r)
  BY <1>1, <1>7, RevertKeepsAll, InsertKeepsAll
<1>8. CASE Write(r) \/ WriteMissed(r)
  BY <1>1, <1>8, WriteKeepsAll, MissKeepsAll
<1> QED
  BY <1>1, <1>2, <1>3, <1>4, <1>5, <1>6, <1>7, <1>8 DEF RequestStep

LEMMA FailsKeepAll ==
    ASSUME Known, Shape', NEW r \in Clients, Clash(r) \/ RequestFault(r) \/ ReplyFault(r)
    PROVE  EditsInv'
<1>1. CASE Clash(r)
  <2>1. /\ Return(r) /\ UNCHANGED storeVars /\ EndsAt(r) /\ req[r].at \in {"write", "revert"}
    BY <1>1 DEF Clash, WriteClashes, RevertClashes, At
  <2>2. Busy(r) /\ Frame(r)
    BY <1>1, StepFrame DEF Clash, EndsAt
  <2> QED
    BY <2>1, <2>2, GivesUp, CutShort
<1>2. CASE RequestFault(r)
  <2>1. Busy(r) /\ UNCHANGED storeVars /\ StepFails(r)
    BY <1>2 DEF RequestFault, StepFails
  <2>2. CASE At(r, "armNew") \/ At(r, "arm")
    <3>1. Frame(r)
      BY <1>2, <2>1, <2>2, StepFrame DEF RequestFault
    <3>2. \/ req[r].at = "armNew" /\ Goto(r, "uncreate")
          \/ req[r].at = "arm" /\ Goto(r, "revert")
      BY <2>1, <2>2 DEF StepFails, At
    <3> QED
      BY <2>1, <3>1, <3>2, ArmFailsKeepsAll
  <2>3. CASE ~(At(r, "armNew") \/ At(r, "arm"))
    <3>1. EndsAt(r) /\ req[r].at \notin {"arm", "armNew"}
      BY <1>2, <2>1, <2>3 DEF RequestFault, At
    <3>2. Frame(r)
      BY <2>1, <3>1, StepFrame DEF EndsAt
    <3>3. Return(r)
      BY <2>1, <2>3 DEF StepFails, At
    <3> QED
      BY <2>1, <3>1, <3>2, <3>3, GivesUp, CutShort
  <2> QED
    BY <2>2, <2>3
<1>3. CASE ReplyFault(r)
  BY <1>3, ReplyFrame, InsertLostKeepsAll, WriteKeepsAll, ArmLostKeepsAll, DisarmLostKeepsAll
     DEF ReplyLost
<1> QED
  BY <1>1, <1>2, <1>3

-----------------------------------------------------------------------------
(* The first step of a request. *)

LEMMA CallKeepsAll ==
    ASSUME Known, Shape', NEW r \in Clients, Call(r) PROVE EditsInv'
<1> PICK s \in Schedules, c \in Calls : Lookup(r, s, c) \/ BeginCreate(r, s, c)
  BY DEF Call
<1>1. PICK seen, step : /\ Begin(r, s, c, seen, step) /\ step \in {"name", "decide"}
                        /\ \/ c.op # "create" /\ Exists(s) /\ seen = doc[s]
                           \/ c.op = "create"
  BY DEF Lookup, BeginCreate
<1>2. /\ \A q \in Clients \ {r} : req'[q] = req[q]
      /\ req'[r] = [at |-> step, op |-> c.op, id |-> s, seen |-> seen, changes |-> c.changes]
      /\ ~Busy(r) /\ UNCHANGED <<doc, job, shifted, listed, found>> /\ History({}, {})
  BY <1>1, KnownOf DEF Begin, NamesInv, storeVars, docVars, resyncVars
<1>3. ASSUME NEW q \in Schedules, q # s PROVE Kept(q)'
  <2>1. \A p \in Clients : On(p, q) \/ On(p, q)' => req'[p] = req[p]
    BY <1>2, <1>3 DEF On
  <2> QED
    BY <1>2, <1>3, <2>1, KnownOf, CrowdNoted, KeptElsewhere
<1>4. ASSUME s \notin crowded' PROVE Kept(s)'
  <2>1. /\ Kept(s) /\ s \notin crowded /\ ~Crowded(s)'
        /\ cut' = cut /\ stuck' = stuck /\ (Crowded(s)' => s \in crowded')
    BY <1>2, <1>4, KnownOf DEF History
  <2>2. On(r, s)'
    BY <1>1, <1>2 DEF On, Busy, Idle
  <2>3. (\A q \in Clients : On(q, s)' => q = r) /\ s \notin DOMAIN listed'
    <3>1. <<"request", r>> \in Editors(s)'
      BY <2>2 DEF Editors
    <3>2. \A q \in Clients : On(q, s)' => <<"request", q>> \in Editors(s)'
      BY DEF Editors
    <3>3. s \in DOMAIN listed' => <<"worker", s>> \in Editors(s)'
      BY DEF Editors
    <3>4. /\ \A q \in Clients : <<"request", q>> = <<"request", r>> => q = r
          /\ <<"request", r>> # <<"worker", s>>
      OBVIOUS
    <3>5. \A a, b \in Editors(s)' : a = b
      BY <2>1 DEF Crowded
    <3> QED
      BY <3>1, <3>2, <3>3, <3>4, <3>5
  <2>4. \A q \in Clients : ~On(q, s)
    BY <1>2, <2>3, SameRequest DEF On
  <2>5. /\ s \notin shifted /\ Exists(s) => Sound(doc[s])
        /\ s \notin stuck \cup shifted => Follows(s, doc[s])
    BY <2>1, <2>4 DEF Kept
  <2>6. Stands(r)'
    <3>1. ReadStands(r)'
      BY <1>1, <1>2 DEF ReadStands
    <3>2. EditStands(r)'
      BY <1>1, <1>2, <2>5 DEF EditStands, Editing, Sound, Armable
    <3>3. ~HalfDone(r)'
      BY <1>1, <1>2 DEF HalfDone
    <3> QED
      BY <3>1, <3>2, <3>3 DEF Stands, JobStands
  <2> QED
    BY <1>2, <2>1, <2>3, <2>5, <2>6
       DEF Kept, Exists, Sound, Armable, Follows, Wanted, Trigger, Armed
<1> QED
  BY <1>3, <1>4, KeptJoinNext DEF Kept

-----------------------------------------------------------------------------
(* The worker that starts. *)

LEMMA WorkerStartsAll ==
    ASSUME Known, Shape', WorkerStarts PROVE EditsInv'
<1> PICK lost \in SUBSET {s \in Schedules : Armed(s)} :
        /\ job' = [s \in Schedules |-> IF s \in lost THEN None ELSE job[s]]
        /\ History({s \in lost : Active(s)}, {})
  BY DEF WorkerStarts
<1>1. /\ listed = NotStarting /\ doc' = doc /\ shifted' = shifted /\ req' = req
      /\ listed' = [s \in {q \in Schedules : Active(q)} |-> Spec5(doc[s])]
      /\ stuck' = stuck /\ cut' = cut \cup {s \in lost : Active(s)}
      /\ crowded \subseteq crowded'
      /\ \A s \in Schedules : Crowded(s)' => s \in crowded'
  BY CrowdNoted DEF WorkerStarts, docVars
<1> SUFFICES ASSUME NEW s \in Schedules, s \notin crowded' PROVE Kept(s)'
  BY <1>1, KeptJoinNext DEF Kept
<1>2. Kept(s) /\ s \notin crowded /\ ~Crowded(s)'
  BY <1>1, KnownOf
<1>3. /\ s \in DOMAIN listed' <=> Active(s)
      /\ Active(s) => listed'[s] = Spec5(doc[s])
      /\ job'[s] = job[s] \/ (job'[s] = None /\ s \in lost)
  BY <1>1
<1>4. \A q \in Clients : (On(q, s)' <=> On(q, s)) /\ (HalfDone(q)' <=> HalfDone(q))
  BY <1>1, SameRequest
<1>5. Spec5(doc[s])' = Spec5(doc[s]) /\ (Active(s)' <=> Active(s))
  BY <1>1 DEF Spec5, Active
<1>6. CASE Active(s)
  <2>1. \A q \in Clients : ~On(q, s)'
    <3>1. <<"worker", s>> \in Editors(s)'
      BY <1>3, <1>6 DEF Editors
    <3>2. \A q \in Clients : On(q, s)' => <<"request", q>> \in Editors(s)'
      BY DEF Editors
    <3>3. \A q \in Clients : <<"request", q>> # <<"worker", s>>
      OBVIOUS
    <3> QED
      BY <1>2, <3>1, <3>2, <3>3 DEF Crowded
  <2>2. s \notin stuck \cup shifted => Follows(s, doc[s])
    BY <1>2, <1>4, <2>1 DEF Kept
  <2>3. s \notin stuck \cup shifted => Follows(s, doc[s])'
    BY <1>1, <1>3, <1>6, <2>2 DEF Follows, Wanted, Trigger, Armed
  <2> QED
    BY <1>1, <1>2, <1>3, <1>5, <1>6, <2>1, <2>3 DEF Kept, Exists, Sound, Armable
<1>7. CASE ~Active(s)
  <2>1. \A q \in Clients : On(q, s)' => Stands(q)'
    <3> SUFFICES ASSUME NEW q \in Clients, On(q, s)' PROVE Stands(q)'
      OBVIOUS
    <3>1. Stands(q) /\ req[q].id = s /\ Busy(q) /\ DOMAIN req[q].seen = Fields
      BY <1>1, <1>2, <1>4, KnownOf DEF Kept, On, RequestOK
    <3>2. req[q].at \notin {"arm", "revert", "armNew"}
      <4>1. req[q].at \in {"arm", "revert", "armNew"} => Edited(q).status = "active"
        BY <3>1 DEF Stands, EditStands, Rearms
      <4>2. req[q].at \in {"arm", "revert", "armNew"} => doc[s].status = Edited(q).status
        BY <3>1, SavedStatus DEF Stands, ReadStands
      <4> QED
        BY <1>7, <4>1, <4>2 DEF Active
    <3>3. ReadStands(q)'
      BY <1>1, <3>1, <3>2 DEF Stands, ReadStands
    <3>4. EditStands(q)'
      BY <1>1, <3>1, SameEdit DEF Stands, EditStands, Sound, Armable
    <3>5. JobStands(q)'
      BY <1>1, <1>3, <1>4, <3>1, <3>2 DEF Stands, JobStands, Armed
    <3> QED
      BY <3>3, <3>4, <3>5 DEF Stands
  <2>2. s \notin stuck \cup shifted =>
           Follows(s, doc[s])' \/ \E q \in Clients : On(q, s)' /\ HalfDone(q)'
    BY <1>1, <1>2, <1>3, <1>4, <1>7 DEF Kept, Follows, Wanted, Active, Armed
  <2> QED
    BY <1>1, <1>2, <1>3, <1>7, <2>1, <2>2 DEF Kept, Exists, Sound, Armable
<1> QED
  BY <1>6, <1>7

\* When the worker is done with a schedule nobody else has edited, it has its job.
LEMMA ResyncKeepsAll ==
    ASSUME Known, Shape', NEW s \in Schedules,
           Skip(s) \/ FindMissing(s) \/ Restore(s) \/ RestoreFails(s)
    PROVE  EditsInv'
<1>1. /\ doc' = doc /\ shifted' = shifted /\ req' = req
      /\ stuck' = stuck /\ crowded' = crowded
      /\ s \in DOMAIN listed
      /\ \A q \in Schedules \ {s} : job'[q] = job[q] /\ (q \in cut => q \in cut')
      /\ \A q \in DOMAIN listed' : q \in DOMAIN listed /\ listed'[q] = listed[q]
  BY KnownOf DEF Skip, FindMissing, Restore, RestoreFails, Forget, storeVars, docVars, historyVars,
                 Arm, Shape
<1>2. \A q \in Schedules : Crowded(q)' => Crowded(q)
  <2>1. \A q \in Schedules : Editors(q)' \subseteq Editors(q)
    BY <1>1, SameRequest DEF Editors
  <2> QED
    BY <2>1 DEF Crowded
<1>3. \A q \in Schedules : Crowded(q)' => q \in crowded'
  BY <1>1, <1>2, KnownOf DEF Kept
<1>4. ASSUME NEW q \in Schedules, q # s PROVE Kept(q)'
  BY <1>1, <1>3, <1>4, KnownOf, KeptElsewhere
<1>5. ASSUME s \notin crowded PROVE Kept(s)'
  <2>1. Kept(s) /\ Active(s) /\ listed[s] = Spec5(doc[s]) /\ ~Crowded(s)
    BY <1>1, <1>5, KnownOf DEF Kept
  <2>2. \A q \in Clients : ~On(q, s) /\ ~On(q, s)'
    BY <1>1, <2>1, WorkerOnly, SameRequest
  <2>3. /\ s \notin shifted => Armable(doc[s])
        /\ s \notin stuck \cup shifted => Follows(s, doc[s])
    BY <1>5, <2>1, <2>2 DEF Kept, Exists, Active, Sound
  <2>4. /\ Armable(listed[s]) <=> Armable(doc[s])
        /\ Trigger(listed[s]) = Trigger(doc[s])
    BY <2>1, ListedAgrees, AgreeFires, AgreeTrigger
  <2>5. s \notin stuck \cup shifted => Follows(s, doc[s])'
    <3> SUFFICES ASSUME s \notin stuck, s \notin shifted PROVE Follows(s, doc[s])'
      OBVIOUS
    <3>1. Wanted(doc[s])' = Trigger(doc[s])
      BY <1>1, <2>1 DEF Wanted, Active, Trigger
    <3>2. job[s] = Trigger(doc[s]) \/ (s \in cut /\ ~Armed(s))
      BY <2>1, <2>3 DEF Follows, Wanted, Active
    <3>3. CASE Skip(s)
      <4>1. job' = job /\ Armed(s)
        BY <2>3, <2>4, <3>3 DEF Skip, Missing, storeVars
      <4> QED
        BY <3>1, <3>2, <4>1 DEF Follows
    <3>4. CASE FindMissing(s) \/ RestoreFails(s)
      <4>1. job' = job /\ cut' = cut
        BY <3>4 DEF FindMissing, RestoreFails, storeVars, historyVars
      <4> QED
        BY <3>1, <3>2, <4>1 DEF Follows, Armed
    <3>5. CASE Restore(s)
      <4>1. job'[s] = Trigger(listed[s])
        BY <3>5, KnownOf DEF Restore, Arm, Shape
      <4> QED
        BY <2>4, <3>1, <4>1 DEF Follows
    <3> QED
      BY <3>3, <3>4, <3>5
  <2>6. (Active(s)' <=> Active(s)) /\ (Exists(s)' <=> Exists(s)) /\ Spec5(doc[s])' = Spec5(doc[s])
    BY <1>1 DEF Active, Exists, Spec5
  <2> QED
    BY <1>1, <1>2, <2>1, <2>2, <2>3, <2>5, <2>6 DEF Kept, Sound, Armable, Active, Exists
<1> QED
  BY <1>1, <1>3, <1>4, <1>5, KeptJoinNext DEF Kept

-----------------------------------------------------------------------------
LEMMA InitEdits == Init => EditsInv
<1> SUFFICES ASSUME Init PROVE EditsInv
  OBVIOUS
<1>1. /\ \A s \in Schedules : doc[s].status = "absent" /\ job[s] = None
      /\ \A r \in Clients : ~Busy(r)
      /\ DOMAIN listed = {}
  BY FieldsNamed DEF Init, NoDoc, Busy, NotStarting
<1>2. \A s \in Schedules : Editors(s) = {}
  BY <1>1 DEF Editors, On
<1> QED
  BY <1>1, <1>2 DEF EditsInv, CrowdsAreKnown, Crowded, DocsAreSound, ListedStand, RequestsStand,
                    JobsFollow, Follows, Wanted, Exists

LEMMA NextEdits == Known /\ [Next]_vars => EditsInv'
<1> SUFFICES ASSUME Known, [Next]_vars PROVE EditsInv'
  OBVIOUS
<1>1. Shape'
  BY NextChecked DEF Known, CheckedInv
<1>2. ASSUME NEW r \in Clients, Call(r) \/ Serve(r) \/ Clash(r) \/ RequestFault(r) \/ ReplyFault(r)
      PROVE  EditsInv'
  BY <1>1, <1>2, CallKeepsAll, ServeKeepsAll, FailsKeepAll
<1>3. CASE WorkerStarts
  BY <1>1, <1>3, WorkerStartsAll
<1>4. ASSUME NEW s \in Schedules, Skip(s) \/ FindMissing(s) \/ Restore(s) \/ RestoreFails(s)
      PROVE  EditsInv'
  BY <1>1, <1>4, ResyncKeepsAll
<1>5. CASE UNCHANGED vars
  <2>1. /\ doc' = doc /\ job' = job /\ shifted' = shifted /\ req' = req /\ listed' = listed
        /\ crowded' = crowded /\ cut' = cut /\ stuck' = stuck
    BY <1>5 DEF vars, storeVars, docVars, resyncVars, historyVars
  <2>2. \A s \in Schedules : Crowded(s)' => s \in crowded'
    <3>1. \A s \in Schedules : Editors(s)' = Editors(s)
      BY <2>1, SameRequest DEF Editors
    <3> QED
      BY <2>1, <3>1, KnownOf DEF Crowded, Kept
  <2>3. \A s \in Schedules : Kept(s)'
    BY <2>1, <2>2, KnownOf, KeptElsewhere
  <2> QED
    BY <1>1, <2>3, KeptJoinNext
<1> QED
  BY <1>2, <1>3, <1>4, <1>5 DEF Next

\* EditsInv, for any callers and requests: what a half-done edit may count on,
\* and what it leaves, stands until another editor joins it.
THEOREM EditsInvAlways == Spec => []EditsInv
<1>1. Init => Known
  BY InitChecked, InitHeaders, InitEdits DEF Known
<1>2. Known /\ [Next]_vars => Known'
  BY NextChecked, NextHeaders, NextEdits DEF Known
<1>3. Known => EditsInv
  BY DEF Known
<1> QED
  BY <1>1, <1>2, <1>3, PTL DEF Spec

\* Without two editors meeting on a schedule, the trigger it has stored builds,
\* after edits of any of its five fields, reverts and failures.
THEOREM StoredTriggerBuildsAlways == Spec => []StoredTriggerBuilds
<1>1. EditsInv => StoredTriggerBuilds
  BY ArmableBuilds DEF EditsInv, DocsAreSound, StoredTriggerBuilds, Sound
<1> QED
  BY <1>1, EditsInvAlways, PTL

LEMMA RestFollows ==
    ASSUME EditsInv, NEW s \in Schedules, AtRest(s), s \notin crowded \cup stuck \cup shifted
    PROVE  Follows(s, doc[s])
<1>1. \A r \in Clients : On(r, s) => <<"request", r>> \in Editors(s)
  BY DEF Editors
<1> QED
  BY <1>1 DEF EditsInv, JobsFollow, AtRest

\* At rest, with no meeting of editors, no operation that failed half way and no
\* lost reply or failed undoing on record, the job is the one the document's five
\* fields make: an edit of any of them has reached it.
THEOREM JobFollowsFieldsAlways == Spec => []JobFollowsFields
<1>1. EditsInv => JobFollowsFields
  BY RestFollows DEF JobFollowsFields, Follows, Wanted, Active
<1> QED
  BY <1>1, EditsInvAlways, PTL

\* After a failure a schedule at rest is not armed or fires on what its document
\* says, unless editors met on it, the undoing of an edit failed too, the job was
\* added although add_job raised, or the $set that edits the trigger of an active
\* schedule was applied although its reply was lost.
THEOREM EditsFailSafeAlways == Spec => []EditsFailSafe
<1>1. EditsInv => EditsFailSafe
  BY RestFollows DEF EditsFailSafe, Follows, Wanted, Active, Armed
<1> QED
  BY <1>1, EditsInvAlways, PTL

-----------------------------------------------------------------------------
\* What a write stores for a mask is what it has read, and that still stands.
LEMMA MaskStep ==
    ASSUME Known, NEW r \in Clients, Busy(r), Write(r) \/ WriteReplyLost(r),
           "headers" \in Named(r), req[r].id \notin crowded, NEW h \in Masked(r)
    PROVE  \E g \in DOMAIN doc[req[r].id].headers :
              /\ HeaderKey[g] = HeaderKey[h]
              /\ \A f \in DOMAIN doc[req[r].id].headers :
                    HeaderKey[f] = HeaderKey[h] => HeaderRank[f] <= HeaderRank[g]
              /\ doc'[req[r].id].headers[h] = doc[req[r].id].headers[g]
<1> SUFFICES ASSUME NEW s, req[r].id = s
             PROVE  \E g \in DOMAIN doc[s].headers :
                       /\ HeaderKey[g] = HeaderKey[h]
                       /\ \A f \in DOMAIN doc[s].headers :
                             HeaderKey[f] = HeaderKey[h] => HeaderRank[f] <= HeaderRank[g]
                       /\ doc'[s].headers[h] = doc[s].headers[g]
  OBVIOUS
<1>1. /\ s \in Schedules /\ RequestOK(r) /\ Kept(s) /\ On(r, s) /\ req[r].at = "write"
  BY KnownOf DEF Shape, Formed, On, Write, WriteReplyLost, At
<1>2. Stands(r) /\ doc[s] = req[r].seen /\ req[r].op # "create" /\ DOMAIN doc[s] = Fields
  BY <1>1 DEF Kept, Stands, ReadStands, RequestOK, OnPath
<1>3. KeptBy(r, h) # {}
  BY <1>1 DEF Known, HeadersInv, HeadersRead, Writing, CanUnmask
<1> DEFINE g == KeptSpelling(r, h)
<1>4. /\ g \in DOMAIN doc[s].headers /\ HeaderKey[g] = HeaderKey[h]
      /\ \A f \in DOMAIN doc[s].headers : HeaderKey[f] = HeaderKey[h] => HeaderRank[f] <= HeaderRank[g]
  <2>1. StoredHeaders(r) = DOMAIN doc[s].headers
    BY <1>2 DEF StoredHeaders
  <2>2. DOMAIN doc[s].headers \subseteq HeaderNames
    BY <1>1, <1>2 DEF Known, HeadersInv, HeadersRead, Plain, RequestOK, OnPath, Editing
  <2>3. g \in KeptBy(r, h) /\ \A f \in KeptBy(r, h) : HeaderRank[f] <= HeaderRank[g]
    BY <1>3, <2>1, <2>2, LastSpelling
  <2> QED
    BY <2>1, <2>3 DEF KeptBy
<1>5. Written(r).headers[h] = req[r].seen.headers[g] /\ "headers" \in DOMAIN Written(r)
  BY DEF Written, Stored, Unmasked, Named, Bounds, Masked
<1>6. doc'[s].headers = Written(r).headers
  BY <1>1, <1>2, <1>5, HeadersNamed, KnownOf DEF Write, WriteReplyLost, Store, Saved, Merge, NamesInv,
     DocsOK
<1> QED
  BY <1>2, <1>4, <1>5, <1>6

\* A masked header keeps the value stored when the request writes, unless editors
\* met on the schedule, for any header names and spellings: where one request has
\* given several spellings of a name, that of the last of them.
THEOREM MaskKeepsValueAlways == Spec => MaskKeepsValue
<1>1. Init => Known
  BY InitChecked, InitHeaders, InitEdits DEF Known
<1>2. Known /\ [Next]_vars => Known'
  BY NextChecked, NextHeaders, NextEdits DEF Known
<1>3. Known /\ [Next]_vars =>
        [\A r \in Clients :
           Busy(r) => LET s == req[r].id IN
           (Write(r) \/ WriteReplyLost(r)) /\ "headers" \in Named(r) /\ s \notin crowded =>
               \A h \in Masked(r) : \E g \in DOMAIN doc[s].headers :
                   /\ HeaderKey[g] = HeaderKey[h]
                   /\ \A f \in DOMAIN doc[s].headers :
                         HeaderKey[f] = HeaderKey[h] => HeaderRank[f] <= HeaderRank[g]
                   /\ doc'[s].headers[h] = doc[s].headers[g]]_vars
  BY MaskStep
<1> QED
  BY <1>1, <1>2, <1>3, PTL DEF Spec, MaskKeepsValue

-----------------------------------------------------------------------------
(* Types. *)

\* What the other invariants do not say of types: a deleted document keeps its
\* owner and name, and the bounds of the model.
Typed ==
    /\ \A s \in Schedules :
          doc[s].status # "absent" => doc[s].owner \in Owners /\ doc[s].name \in Names
    /\ \A s \in Schedules : Armed(s) => DOMAIN job[s] = TriggerFields
    /\ faults \in 0..MaxFaults
    /\ made \in 0..MaxRequests

LEMMA DocsTyped ==
    ASSUME Known, Typed, NEW r \in Clients, RequestStep(r) \/ ReplyLost(r), NEW s \in Schedules,
           doc'[s].status # "absent"
    PROVE  doc'[s].owner \in Owners /\ doc'[s].name \in Names
<1>1. Busy(r) /\ RequestOK(r) /\ req[r].id \in Schedules /\ NamesInv
  BY KnownOf DEF RequestStep, NameFree, NameTaken, Refused, CreateAccepted, Insert,
         InsertClashes, ArmNew, Uncreate, NothingToDo, DisarmThenSave, SaveFirst, Write,
         WriteMissed, ArmEdited, Revert, DisarmThenDelete, Remove, Reaches, At, RequestOK,
         ReplyLost, InsertReplyLost, WriteReplyLost, ArmReplyLost, DisarmReplyLost
<1>2. /\ DOMAIN doc = Schedules /\ DOMAIN doc[s] = Fields
      /\ DOMAIN req[r].seen = Fields /\ Fair(req[r].changes)
  BY <1>1 DEF NamesInv, DocsOK, RequestOK
<1>3. CASE doc'[s] = doc[s]
  BY <1>3 DEF Typed
<1>4. CASE (Insert(r) \/ InsertReplyLost(r)) /\ s = req[r].id
  <2>1. Fresh(r)
    BY <1>1, <1>4 DEF Insert, InsertReplyLost, At, RequestOK, OnPath, Fresh, Creating
  <2>2. PICK owner \in Owners : req[r].seen = NewDoc(owner)
    BY <1>1, <2>1 DEF RequestOK
  <2>3. NewDoc(owner).owner = owner /\ "name" \in Named(r)
    BY <1>1, <2>1, FieldsNamed DEF NewDoc, NoDoc, RequestOK
  <2>4. doc'[s] = Merge(req[r].seen, Written(r))
    BY <1>2, <1>4 DEF Insert, InsertReplyLost, Store
  <2> QED
    BY <1>2, <2>2, <2>3, <2>4, WrittenFields, MergeFields DEF Fair, Named
<1>5. CASE (Write(r) \/ WriteReplyLost(r)) /\ s = req[r].id
  <2>1. doc'[s] = Merge(doc[s], Written(r)) /\ Exists(s)
    BY <1>2, <1>5 DEF Write, WriteReplyLost, Store, Saved
  <2>2. Fair(Written(r)) /\ doc[s].owner \in Owners /\ doc[s].name \in Names
    BY <1>2, <2>1, WrittenFields DEF Typed, Exists
  <2> QED
    BY <1>2, <2>1, <2>2, MergeFields DEF Fair
<1>6. CASE Revert(r) /\ s = req[r].id /\ Exists(s)
  <2>1. doc'[s] = Merge(doc[s], Before(r))
    BY <1>2, <1>6 DEF Revert, Reverted
  <2>2. DOMAIN Before(r) \subseteq EditableFields /\ ("name" \in Named(r) => Before(r).name \in Names)
    BY <1>1, <1>2, <1>6 DEF Before, Fair, Named, RequestOK, Revert, At, OnPath, Editing
  <2>3. doc[s].owner \in Owners /\ doc[s].name \in Names
    BY <1>6 DEF Typed, Exists
  <2>4. DOMAIN Before(r) = Named(r)
    BY DEF Before
  <2> QED
    BY <1>2, <2>1, <2>2, <2>3, <2>4, MergeFields
<1>7. CASE (Uncreate(r) \/ Remove(r)) /\ s = req[r].id
  <2>1. doc[s].status # "absent"
    BY <1>1, <1>7 DEF Uncreate, Remove, At, RequestOK, OnPath, Fresh, Creating
  <2>2. doc' = [doc EXCEPT ![s].status = "deleted"]
    BY <1>7 DEF Uncreate, Remove
  <2>3. doc'[s].owner = doc[s].owner /\ doc'[s].name = doc[s].name
    BY <1>2, <2>2, FieldsNamed
  <2> QED
    BY <2>1, <2>3 DEF Typed
<1>8. doc'[s] # doc[s] => /\ s = req[r].id
                          /\ \/ Insert(r) \/ InsertReplyLost(r) \/ Write(r) \/ WriteReplyLost(r)
                             \/ Uncreate(r) \/ Remove(r)
                             \/ Revert(r) /\ Exists(s)
  BY <1>2 DEF RequestStep, NameFree, NameTaken, Refused, CreateAccepted, Insert, Store,
         InsertClashes, ArmNew, Uncreate, NothingToDo, DisarmThenSave, SaveFirst, Write,
         WriteMissed, ArmEdited, Revert, DisarmThenDelete, Remove, storeVars, docVars,
         ReplyLost, InsertReplyLost, WriteReplyLost, ArmReplyLost, DisarmReplyLost
<1> QED
  BY <1>3, <1>4, <1>5, <1>6, <1>7, <1>8

LEMMA JobsTyped ==
    ASSUME Known, Typed, [Next]_vars, NEW s \in Schedules, Armed(s)'
    PROVE  DOMAIN job'[s] = TriggerFields
<1>1. DOMAIN job = Schedules
  BY KnownOf DEF Shape
<1>2. job'[s] \in {job[s], None} \/ \E d : job'[s] = Trigger(d)
  BY <1>1 DEF Next, Call, Lookup, BeginCreate, Begin, Serve, Clash, RequestFault, RequestStep,
         NameFree, NameTaken, Refused, CreateAccepted, Insert,
         InsertClashes, ArmNew, Uncreate, NothingToDo, DisarmThenSave, SaveFirst, Write,
         WriteMissed, ArmEdited, Revert, DisarmThenDelete, Remove, StepFails,
         WriteClashes, RevertClashes, WorkerStarts, Skip, FindMissing, Restore, RestoreFails,
         ReplyFault, ReplyLost, InsertReplyLost, WriteReplyLost, ArmReplyLost, DisarmReplyLost,
         vars, storeVars, Arm, Disarm
<1> QED
  BY <1>2 DEF Typed, Armed, Trigger

LEMMA NextTyped == Known /\ Typed /\ [Next]_vars => Typed'
<1> SUFFICES ASSUME Known, Typed, [Next]_vars PROVE Typed'
  OBVIOUS
<1>1. ASSUME NEW s \in Schedules, doc'[s].status # "absent"
      PROVE  doc'[s].owner \in Owners /\ doc'[s].name \in Names
  <2>1. doc' = doc \/ \E r \in Clients : RequestStep(r) \/ ReplyLost(r)
    BY DEF Next, ReplyFault, Call, Lookup, BeginCreate, Begin, Serve, Clash, WriteClashes, RevertClashes,
           RequestFault, StepFails, WorkerStarts, Skip, FindMissing, Restore, RestoreFails,
           vars, storeVars, docVars
  <2> QED
    BY <1>1, <2>1, DocsTyped DEF Typed
<1>2. /\ faults' = faults \/ (faults < MaxFaults /\ faults' = faults + 1)
      /\ made' = made \/ (made < MaxRequests /\ made' = made + 1)
  BY DEF Next, Call, Lookup, BeginCreate, Begin, Serve, Uneventful, Clash, RequestFault, ReplyFault, Fault,
         WorkerStarts, Skip, FindMissing, Restore, RestoreFails, vars
<1>3. faults' \in 0..MaxFaults /\ made' \in 0..MaxRequests
  BY <1>2, EditsAssumption DEF Typed
<1> QED
  BY <1>1, <1>3, JobsTyped DEF Typed

\* Types, for any instance: a document has an owner and a name that a caller
\* sent, and keeps them when it is deleted; a job has the five fields of a
\* trigger; a request in flight holds a whole document and edits editable fields.
THEOREM EditsTypeAlways == Spec => []EditsTypeOK
<1>1. Init => Known /\ Typed
  <2>1. Init => Known
    BY InitChecked, InitHeaders, InitEdits DEF Known
  <2>2. Init => Typed
    BY EditsAssumption, FieldsNamed DEF Init, NoDoc, Typed, Armed
  <2> QED
    BY <2>1, <2>2
<1>2. Known /\ Typed /\ [Next]_vars => Known' /\ Typed'
  BY NextChecked, NextHeaders, NextEdits, NextTyped DEF Known
<1>3. Known /\ Typed => EditsTypeOK
  <2> SUFFICES ASSUME Known, Typed PROVE EditsTypeOK
    OBVIOUS
  <2>1. \A r \in Clients : Busy(r) =>
           /\ req[r].op \in Ops /\ req[r].id \in Schedules
           /\ DOMAIN req[r].seen = Fields /\ Named(r) \subseteq EditableFields
    BY KnownOf DEF RequestOK, OnPath, Ops, Fair, Named
  <2> QED
    BY <2>1, KnownOf DEF EditsTypeOK, Typed, NamesInv, DocsOK, Statuses, Shape
<1> QED
  BY <1>1, <1>2, <1>3, PTL DEF Spec

\* Whatever specifications the rules are checked on, the hours looked at are
\* enough: they tell of each whether it ever fires again.
THEOREM ArmableMeansFiresAlways == Spec => []ArmableMeansFires
<1>1. ASSUME NEW spec \in Specifications
      PROVE  Armable(spec) <=> Promised(spec, Now, Hours)
  BY HoursAssumption, EditsAssumption, CoveredIsEnough DEF Armable
<1>2. ArmableMeansFires
  BY <1>1 DEF ArmableMeansFires
<1> QED
  BY <1>2, PTL

-----------------------------------------------------------------------------
(* ScheduleEdits follows Lifecycle.  A request is at the same step in both, *)
(* and what Lifecycle computes from the call it sees is what is computed   *)
(* here from the fields: the status to come, whether the job is rebuilt.   *)

Usual(r) ==
    /\ req[r].op = "create" => TriggerChanged(r)
    /\ req[r].op \in {"pause", "resume"} => "status" \in Named(r)

SeenInv == Known /\ \A r \in Clients : Busy(r) => Usual(r)

LEMMA RequestsGoOn ==
    ASSUME Known, [Next]_vars, NEW q \in Clients, Busy(q)'
    PROVE  \/ Busy(q) /\ req'[q].op = req[q].op /\ req'[q].changes = req[q].changes
           \/ \E c \in Calls : req'[q].op = c.op /\ req'[q].changes = c.changes
<1>1. DOMAIN req = Clients /\ \A r \in Clients : Busy(r) => DOMAIN req[r] = RequestFields
  BY KnownOf DEF Shape, Formed
<1>2. ASSUME NEW r \in Clients, Call(r)
      PROVE  req'[q] = req[q] \/ \E c \in Calls : req'[q].op = c.op /\ req'[q].changes = c.changes
  BY <1>1, <1>2 DEF Call, Lookup, BeginCreate, Begin
<1>3. ASSUME NEW r \in Clients, Serve(r) \/ Clash(r) \/ RequestFault(r) \/ ReplyFault(r)
      PROVE  Busy(r) /\ (Return(r) \/ (\E step : Goto(r, step)))
  BY <1>3 DEF Serve, Clash, RequestFault, StepFails, RequestStep,
         NameFree, NameTaken, Refused, CreateAccepted, Insert,
         InsertClashes, ArmNew, Uncreate, NothingToDo, DisarmThenSave, SaveFirst, Write,
         WriteMissed, ArmEdited, Revert, DisarmThenDelete, Remove,
         WriteClashes, RevertClashes, Reaches, At,
         ReplyFault, ReplyLost, InsertReplyLost, WriteReplyLost, ArmReplyLost, DisarmReplyLost
<1>4. ASSUME NEW r \in Clients, Serve(r) \/ Clash(r) \/ RequestFault(r) \/ ReplyFault(r)
      PROVE  req'[q] = req[q] \/ (req'[q].op = req[q].op /\ req'[q].changes = req[q].changes /\ Busy(q))
  BY <1>1, <1>3, <1>4 DEF Return, Goto, Busy, RequestFields
<1>5. CASE req' = req
  BY <1>5 DEF Busy
<1>6. req' = req \/ \E r \in Clients : Call(r) \/ Serve(r) \/ Clash(r) \/ RequestFault(r) \/ ReplyFault(r)
  BY DEF Next, WorkerStarts, Skip, FindMissing, Restore, RestoreFails, vars
<1> QED
  BY <1>2, <1>4, <1>5, <1>6 DEF Busy

LEMMA CallsUsual ==
    ASSUME NEW c \in Calls
    PROVE  /\ c.op = "create" => DOMAIN c.changes \cap TriggerFields # {}
           /\ c.op \in {"pause", "resume"} => "status" \in DOMAIN c.changes
  BY EditsAssumption, TriggersEditable DEF TriggerFields

LEMMA NextSeen == SeenInv /\ [Next]_vars => SeenInv'
<1> SUFFICES ASSUME SeenInv, [Next]_vars PROVE SeenInv'
  OBVIOUS
<1>1. Known'
  BY NextChecked, NextHeaders, NextEdits DEF SeenInv, Known
<1>2. ASSUME NEW q \in Clients, Busy(q)' PROVE Usual(q)'
  BY <1>2, RequestsGoOn, CallsUsual DEF SeenInv, Usual, TriggerChanged, Named
<1> QED
  BY <1>1, <1>2 DEF SeenInv

LEMMA InitSeen == Init => SeenInv
<1> SUFFICES ASSUME Init PROVE SeenInv
  OBVIOUS
<1>1. Known
  BY InitChecked, InitHeaders, InitEdits DEF Known
<1>2. \A r \in Clients : ~Busy(r)
  BY DEF Init, Busy
<1> QED
  BY <1>1, <1>2 DEF SeenInv

-----------------------------------------------------------------------------
(* Requests as Lifecycle sees them. *)

LEMMA SeenOf ==
    ASSUME SeenInv, NEW r \in Clients
    PROVE  /\ Busy(r) => RequestsSeen[r] = RequestSeen(r) /\ RequestsSeen[r] # Idle
           /\ ~Busy(r) => RequestsSeen[r] = Idle
<1>1. Busy(r) => RequestOK(r)
  BY KnownOf DEF SeenInv
<1>2. Busy(r) => RequestSeen(r).at # "idle"
  BY <1>1 DEF RequestOK, OnPath, RequestSeen
<1> QED
  BY <1>2 DEF RequestsSeen, Idle

LEMMA AtSeen ==
    ASSUME SeenInv, NEW r \in Clients, Busy(r)
    PROVE  /\ \A step : Coarse!At(r, step) <=>
                 step = IF req[r].at = "name" THEN "decide" ELSE req[r].at
           /\ Coarse!Busy(r)
           /\ RequestsSeen[r].id = req[r].id /\ RequestsSeen[r].call = CallSeen(r)
           /\ RequestsSeen[r].call.op = req[r].op
           /\ Editing(r) => RequestsSeen[r].seen.status = req[r].seen.status
           /\ RequestsSeen[r].seen.trigger = "t" /\ RequestsSeen[r].seen.errors = 0
<1>1. RequestsSeen[r] = RequestSeen(r) /\ RequestsSeen[r] # Idle
  BY SeenOf
<1>2. RequestsSeen[r] # Coarse!Idle
  BY <1>1 DEF Coarse!Idle, Idle
<1> QED
  BY <1>1, <1>2 DEF RequestSeen, CallSeen, Editing, Coarse!At, Coarse!Busy

LEMMA EndSeen ==
    ASSUME SeenInv, NEW r \in Clients, Return(r)
    PROVE  Coarse!Return(r)
<1>1. /\ DOMAIN req = Clients /\ req'[r] = Idle
      /\ \A q \in Clients \ {r} : req'[q] = req[q]
  BY KnownOf DEF SeenInv, Shape, Return
<1>2. \A q \in Clients : RequestsSeen'[q] = IF q = r THEN Idle ELSE RequestsSeen[q]
  BY <1>1 DEF RequestsSeen, Busy, RequestSeen, CallSeen, Named, TriggerChanged
<1>3. RequestsSeen' = [RequestsSeen EXCEPT ![r] = Idle]
  BY <1>2 DEF RequestsSeen
<1> QED
  BY <1>3 DEF Coarse!Return, Coarse!Idle, Idle

LEMMA MoveSeen ==
    ASSUME SeenInv, NEW r \in Clients, Busy(r), NEW step, step # "idle", Goto(r, step)
    PROVE  RequestsSeen' = [RequestsSeen EXCEPT ![r].at = IF step = "name" THEN "decide" ELSE step]
<1>1. /\ DOMAIN req = Clients /\ DOMAIN req[r] = RequestFields
      /\ \A q \in Clients \ {r} : req'[q] = req[q]
  BY KnownOf DEF SeenInv, Shape, Formed, Goto
<1>2. /\ req'[r].at = step /\ req'[r].op = req[r].op /\ req'[r].id = req[r].id
      /\ req'[r].seen = req[r].seen /\ req'[r].changes = req[r].changes
  BY <1>1 DEF Goto, RequestFields
<1>3. Busy(r)'
  BY <1>2 DEF Busy, Idle
<1>4. \A q \in Clients \ {r} : RequestsSeen'[q] = RequestsSeen[q]
  BY <1>1 DEF RequestsSeen, Busy, RequestSeen, CallSeen, Named, TriggerChanged
<1>5. RequestsSeen[r] = RequestSeen(r) /\ RequestsSeen'[r] = RequestSeen(r)'
  BY <1>3 DEF RequestsSeen
<1>6. RequestsSeen'[r] = [RequestsSeen[r] EXCEPT !.at = IF step = "name" THEN "decide" ELSE step]
  BY <1>2, <1>5 DEF RequestSeen, CallSeen, Named, TriggerChanged
<1> QED
  BY <1>4, <1>6 DEF RequestsSeen

LEMMA GotoSeen ==
    ASSUME SeenInv, NEW r \in Clients, Busy(r), NEW step, step \notin {"idle", "name"},
           Goto(r, step)
    PROVE  Coarse!Goto(r, step)
  BY MoveSeen DEF Coarse!Goto

\* What Lifecycle computes of an edit.
LEMMA EditSeen ==
    ASSUME SeenInv, NEW r \in Clients, Busy(r), Editing(r)
    PROVE  /\ Coarse!EditedStatus(r) = Edited(r).status
           /\ (Coarse!Resuming(r) <=> Resuming(r)) /\ (Coarse!Rearms(r) <=> Rearms(r))
           /\ (Coarse!TriggerChanged(r) <=> TriggerChanged(r))
           /\ Coarse!EditedTrigger(r) = "t"
           /\ (Coarse!Reaches(r) <=> req[r].at \in {"name", "decide"} /\ ~Settled(r))
<1>1. RequestOK(r) /\ Usual(r)
  BY KnownOf DEF SeenInv
<1>2. Edited(r).status = IF "status" \in Named(r) THEN req[r].changes.status ELSE req[r].seen.status
  BY <1>1, MergeFields DEF RequestOK, Fair, Edited, Named
<1>3. /\ RequestsSeen[r].call = CallSeen(r) /\ RequestsSeen[r].seen.status = req[r].seen.status
      /\ RequestsSeen[r].seen.trigger = "t"
  BY AtSeen
<1>4. "status" \in Named(r) => req[r].changes.status \in {"active", "paused"}
  BY <1>1 DEF RequestOK, Fair, Named
<1>5. Coarse!EditedStatus(r) = Edited(r).status
  BY <1>2, <1>3, <1>4 DEF Coarse!EditedStatus, CallSeen
<1>6. Coarse!Resuming(r) <=> Resuming(r)
  BY <1>2, <1>3, <1>4 DEF Coarse!Resuming, Resuming, CallSeen
<1>7. (Coarse!TriggerChanged(r) <=> TriggerChanged(r)) /\ Coarse!EditedTrigger(r) = "t"
  BY <1>3 DEF Coarse!TriggerChanged, Coarse!EditedTrigger, CallSeen
<1>8. Coarse!Rearms(r) <=> Rearms(r)
  BY <1>5, <1>6, <1>7 DEF Coarse!Rearms, Rearms
<1>9. Coarse!Reaches(r) <=> req[r].at \in {"name", "decide"} /\ ~Settled(r)
  <2>1. Coarse!At(r, "decide") <=> req[r].at \in {"name", "decide"}
    BY AtSeen
  <2>2. Settled(r) <=> CallSeen(r).op \in {"pause", "resume"} /\ CallSeen(r).status = req[r].seen.status
    BY <1>1 DEF Settled, CallSeen, Usual
  <2>3. CallSeen(r).op \in {"patch", "pause", "resume"}
    BY DEF Editing, CallSeen
  <2> QED
    BY <1>3, <2>1, <2>2, <2>3 DEF Coarse!Reaches
<1> QED
  BY <1>5, <1>6, <1>7, <1>8, <1>9

-----------------------------------------------------------------------------
(* The stores as Lifecycle sees them. *)

LEMMA StoresSame ==
    /\ doc' = doc => DocsSeen' = DocsSeen
    /\ job' = job => JobsSeen' = JobsSeen
    /\ req' = req => RequestsSeen' = RequestsSeen
    /\ UNCHANGED storeVars => UNCHANGED Coarse!storeVars
  BY DEF DocsSeen, JobsSeen, RequestsSeen, RequestSeen, CallSeen, Armed, Busy, Named,
         TriggerChanged, storeVars, docVars, Coarse!storeVars

LEMMA DisarmSeen ==
    ASSUME SeenInv, NEW s \in Schedules, Disarm(s)
    PROVE  Coarse!Disarm(s)
<1>1. DOMAIN job = Schedules
  BY KnownOf DEF SeenInv, Shape
<1>2. JobsSeen' = [JobsSeen EXCEPT ![s] = "none"]
  BY <1>1 DEF Disarm, JobsSeen, Armed
<1> QED
  BY <1>2 DEF Coarse!Disarm

LEMMA ArmSeen ==
    ASSUME SeenInv, NEW s \in Schedules, NEW d, Arm(s, d)
    PROVE  JobsSeen' = [JobsSeen EXCEPT ![s] = "t"]
<1>1. DOMAIN job = Schedules
  BY KnownOf DEF SeenInv, Shape
<1>2. Trigger(d) # None
  BY DEF Trigger, TriggerFields, None
<1> QED
  BY <1>1, <1>2 DEF Arm, JobsSeen, Armed

LEMMA DocSeen ==
    ASSUME SeenInv, NEW s \in Schedules, NEW d, doc' = [doc EXCEPT ![s] = d]
    PROVE  DocsSeen' = [DocsSeen EXCEPT ![s] = [status |-> d.status, trigger |-> "t", errors |-> 0]]
<1>1. DOMAIN doc = Schedules
  BY KnownOf DEF SeenInv, NamesInv, DocsOK
<1> QED
  BY <1>1 DEF DocsSeen

LEMMA DeletedSeen ==
    ASSUME SeenInv, NEW s \in Schedules, doc' = [doc EXCEPT ![s].status = "deleted"]
    PROVE  DocsSeen' = [DocsSeen EXCEPT ![s].status = "deleted"]
<1>1. DOMAIN doc = Schedules /\ DOMAIN doc[s] = Fields /\ "status" \in Fields
  BY KnownOf, FieldsNamed DEF SeenInv, NamesInv, DocsOK
<1>2. doc'[s].status = "deleted" /\ \A q \in Schedules \ {s} : doc'[q] = doc[q]
  BY <1>1
<1> QED
  BY <1>2 DEF DocsSeen

LEMMA ExistsSeen ==
    ASSUME NEW s \in Schedules
    PROVE  (Coarse!Exists(s) <=> Exists(s)) /\ DocsSeen[s].status = doc[s].status
  BY DEF Coarse!Exists, Exists, DocsSeen

-----------------------------------------------------------------------------
(* Steps of requests, as steps of Lifecycle. *)

LEMMA CallFollows ==
    ASSUME SeenInv, SeenInv', NEW r \in Clients, Call(r)
    PROVE  Asks(r)
<1> PICK s \in Schedules, c \in Calls : Lookup(r, s, c) \/ BeginCreate(r, s, c)
  BY DEF Call
<1>1. PICK seen, step : Begin(r, s, c, seen, step) /\ step \in {"name", "decide"}
                        /\ \/ c.op # "create" /\ Exists(s) /\ seen = doc[s]
                           \/ /\ c.op = "create" /\ doc[s].status = "absent"
                              /\ \A q \in Clients : ~On(q, s)
  BY DEF Lookup, BeginCreate
<1>2. /\ DOMAIN req = Clients /\ \A q \in Clients \ {r} : req'[q] = req[q]
      /\ req'[r] = [at |-> step, op |-> c.op, id |-> s, seen |-> seen, changes |-> c.changes]
      /\ ~Busy(r) /\ UNCHANGED storeVars
  BY <1>1, KnownOf DEF Begin, SeenInv, Shape
<1>3. Busy(r)'
  BY <1>1, <1>2 DEF Busy, Idle
<1> DEFINE call == CallSeen(r)'
<1>4. call.op = c.op /\ call \in Coarse!CallShapes
  <2>1. req'[r].op = c.op /\ req'[r].changes = c.changes
    BY <1>2
  <2>2. "status" \in DOMAIN c.changes => c.changes.status \in {"active", "paused"}
    BY EditsAssumption
  <2>3. c.op \in Ops
    BY EditsAssumption
  <2> QED
    BY <2>1, <2>2, <2>3 DEF CallSeen, Named, Coarse!CallShapes, Coarse!Ops, Ops
<1>5. RequestsSeen'[r] = [at |-> "decide", call |-> call, id |-> s, seen |-> DocsSeen[s]]
  <2>1. RequestsSeen'[r] = RequestSeen(r)'
    BY <1>3 DEF RequestsSeen
  <2>2. RequestSeen(r)'.seen = DocsSeen[s]
    BY <1>1, <1>2 DEF RequestSeen, DocsSeen
  <2>3. RequestSeen(r)'.at = "decide" /\ RequestSeen(r)'.id = s
    BY <1>1, <1>2 DEF RequestSeen
  <2> QED
    BY <2>1, <2>2, <2>3 DEF RequestSeen
<1>6. \A q \in Clients \ {r} : RequestsSeen'[q] = RequestsSeen[q]
  BY <1>2 DEF RequestsSeen, Busy, RequestSeen, CallSeen, Named, TriggerChanged
<1> HIDE DEF call
<1>7. RequestsSeen' = [RequestsSeen EXCEPT ![r] =
                         [at |-> "decide", call |-> call, id |-> s, seen |-> DocsSeen[s]]]
  BY <1>5, <1>6 DEF RequestsSeen
<1>8. ~Coarse!Busy(r) /\ UNCHANGED Coarse!storeVars
  BY <1>2, SeenOf, StoresSame DEF Coarse!Busy, Coarse!Idle, Idle
<1>9. c.op # "create" /\ Exists(s) => Coarse!Lookup(r, s, call)
  BY <1>4, <1>7, <1>8, ExistsSeen DEF Coarse!Lookup
<1>10. ASSUME c.op = "create" /\ doc[s].status = "absent" /\ \A q \in Clients : ~On(q, s)
       PROVE  Coarse!LookupName(r, s, call)
  <2>1. \A q \in Clients : ~Coarse!On(q, s)
    BY <1>10, SeenOf, AtSeen DEF On, Coarse!On, Coarse!Busy, Coarse!Idle, Idle
  <2> QED
    BY <1>4, <1>7, <1>8, <1>10, <2>1, ExistsSeen DEF Coarse!LookupName
<1> QED
  BY <1>1, <1>2, <1>3, <1>4, <1>9, <1>10 DEF Asks, call

\* A request that ends before it has touched a store.
LEMMA AnswerFollows ==
    ASSUME SeenInv, NEW r \in Clients, Busy(r), req[r].at \in {"name", "decide"}, Return(r),
           UNCHANGED storeVars
    PROVE  TurnedAway(r)
  BY AtSeen, EndSeen, StoresSame DEF TurnedAway

\* A failure, or a clash of names, later on.
LEMMA FailFollows ==
    ASSUME SeenInv, NEW r \in Clients, Busy(r), UNCHANGED storeVars,
           \/ req[r].at \notin {"name", "decide", "armNew", "arm"} /\ Return(r)
           \/ req[r].at = "armNew" /\ Goto(r, "uncreate")
           \/ req[r].at = "arm" /\ Goto(r, "revert")
    PROVE  Coarse!StepFails(r)
<1>1. UNCHANGED Coarse!storeVars /\ Coarse!Busy(r)
  BY StoresSame, AtSeen
<1>2. /\ Coarse!At(r, "armNew") <=> req[r].at = "armNew"
      /\ Coarse!At(r, "arm") <=> req[r].at = "arm"
      /\ Coarse!At(r, "decide") <=> req[r].at \in {"name", "decide"}
  BY AtSeen
<1>3. Coarse!Uses(r)
  BY <1>1, <1>2 DEF Coarse!Uses, Coarse!At, Coarse!Busy
<1> QED
  BY <1>1, <1>2, <1>3, EndSeen, GotoSeen DEF Coarse!StepFails

\* The document a create inserts is the one Lifecycle inserts.
LEMMA InsertSeen ==
    ASSUME SeenInv, NEW r \in Clients, At(r, "insert"), Store(r, Merge(req[r].seen, Written(r)))
    PROVE  DocsSeen' = Coarse!Inserted(r)
<1>1. Busy(r) /\ RequestOK(r) /\ Usual(r) /\ req[r].id \in Schedules /\ req[r].op = "create"
  BY KnownOf DEF SeenInv, At, RequestOK, OnPath
<1>2. RequestsSeen[r].call.trigger = "t" /\ RequestsSeen[r].id = req[r].id
  <2>1. RequestsSeen[r].call = CallSeen(r) /\ RequestsSeen[r].id = req[r].id
    BY <1>1, AtSeen
  <2> QED
    BY <1>1, <2>1 DEF Usual, CallSeen
<1> DEFINE d == Merge(req[r].seen, Written(r))
<1>3. d.status = "active"
  <2>1. Fresh(r)
    BY <1>1 DEF At, Fresh, Creating
  <2>2. PICK owner \in Owners : req[r].seen = NewDoc(owner)
    BY <1>1, <2>1 DEF RequestOK
  <2>3. NewDoc(owner).status = "active" /\ "status" \notin Named(r)
    BY <1>1, <2>1, FieldsNamed DEF NewDoc, NoDoc, RequestOK
  <2> QED
    BY <1>1, <2>2, <2>3, WrittenFields, MergeFields DEF RequestOK, Fair
<1>4. doc' = [doc EXCEPT ![req[r].id] = d]
  BY DEF Store
<1> HIDE DEF d
<1>5. DocsSeen' = [DocsSeen EXCEPT ![req[r].id] =
                     [status |-> "active", trigger |-> "t", errors |-> 0]]
  BY <1>1, <1>3, <1>4, DocSeen
<1> QED
  BY <1>2, <1>5 DEF Coarse!Inserted

LEMMA CreateFollows ==
    ASSUME SeenInv, NEW r \in Clients, CreateAccepted(r) \/ Insert(r) \/ ArmNew(r) \/ Uncreate(r)
    PROVE  Coarse!RequestStep(r)
<1>1. Busy(r) /\ RequestOK(r) /\ Usual(r) /\ req[r].id \in Schedules /\ req[r].op = "create"
  BY KnownOf DEF SeenInv, CreateAccepted, Insert, ArmNew, Uncreate, At, RequestOK, OnPath
<1>2. /\ RequestsSeen[r].call.op = "create" /\ RequestsSeen[r].call.trigger = "t"
      /\ RequestsSeen[r].id = req[r].id
  <2>1. RequestsSeen[r].call = CallSeen(r) /\ RequestsSeen[r].id = req[r].id
    BY <1>1, AtSeen
  <2> QED
    BY <1>1, <2>1 DEF Usual, CallSeen
<1>3. CASE CreateAccepted(r)
  <2>1. Coarse!Goto(r, "insert") /\ Coarse!At(r, "decide") /\ UNCHANGED Coarse!storeVars
    BY <1>1, <1>3, AtSeen, GotoSeen, StoresSame DEF CreateAccepted, At
  <2>2. Coarse!CreateAccepted(r)
    BY <1>2, <2>1 DEF Coarse!CreateAccepted, Coarse!Armable
  <2> QED
    BY <2>2 DEF Coarse!RequestStep
<1>4. CASE Insert(r)
  <2>1. Coarse!Goto(r, "armNew") /\ Coarse!At(r, "insert") /\ JobsSeen' = JobsSeen
    BY <1>1, <1>4, AtSeen, GotoSeen, StoresSame DEF Insert, At
  <2>2. DocsSeen' = Coarse!Inserted(r)
    BY <1>4, InsertSeen DEF Insert
  <2>3. Coarse!Insert(r)
    BY <2>1, <2>2 DEF Coarse!Insert
  <2> QED
    BY <2>3 DEF Coarse!RequestStep
<1>5. CASE ArmNew(r)
  <2>1. Coarse!Return(r) /\ Coarse!At(r, "armNew") /\ DocsSeen' = DocsSeen
    BY <1>1, <1>5, AtSeen, EndSeen, StoresSame DEF ArmNew, At, docVars
  <2>2. JobsSeen' = [JobsSeen EXCEPT ![req[r].id] = "t"]
    BY <1>1, <1>5, ArmSeen DEF ArmNew
  <2>3. Coarse!ArmNew(r)
    BY <1>2, <2>1, <2>2 DEF Coarse!ArmNew, Coarse!Arm, Coarse!ArmedWith
  <2> QED
    BY <2>3 DEF Coarse!RequestStep
<1>6. CASE Uncreate(r)
  <2>1. Coarse!Return(r) /\ Coarse!At(r, "uncreate") /\ JobsSeen' = JobsSeen
    BY <1>1, <1>6, AtSeen, EndSeen, StoresSame DEF Uncreate, At
  <2>2. DocsSeen' = [DocsSeen EXCEPT ![req[r].id].status = "deleted"]
    BY <1>1, <1>6, DeletedSeen DEF Uncreate
  <2>3. Coarse!Uncreate(r)
    BY <1>2, <2>1, <2>2 DEF Coarse!Uncreate
  <2> QED
    BY <2>3 DEF Coarse!RequestStep
<1> QED
  BY <1>3, <1>4, <1>5, <1>6

LEMMA DeleteFollows ==
    ASSUME SeenInv, NEW r \in Clients, DisarmThenDelete(r) \/ Remove(r)
    PROVE  Coarse!RequestStep(r)
<1>1. Busy(r) /\ req[r].id \in Schedules
  BY KnownOf DEF SeenInv, DisarmThenDelete, Remove, At, RequestOK
<1>2. RequestsSeen[r].call.op = req[r].op /\ RequestsSeen[r].id = req[r].id
  BY <1>1, AtSeen
<1>3. CASE DisarmThenDelete(r)
  <2>1. Coarse!Goto(r, "remove") /\ Coarse!At(r, "decide") /\ DocsSeen' = DocsSeen
    BY <1>1, <1>3, AtSeen, GotoSeen, StoresSame DEF DisarmThenDelete, At, docVars
  <2>2. Coarse!Disarm(req[r].id)
    BY <1>1, <1>3, DisarmSeen DEF DisarmThenDelete
  <2>3. Coarse!DisarmThenDelete(r)
    BY <1>2, <1>3, <2>1, <2>2 DEF Coarse!DisarmThenDelete, DisarmThenDelete
  <2> QED
    BY <2>3 DEF Coarse!RequestStep
<1>4. CASE Remove(r)
  <2>1. Coarse!Return(r) /\ Coarse!At(r, "remove") /\ JobsSeen' = JobsSeen
    BY <1>1, <1>4, AtSeen, EndSeen, StoresSame DEF Remove, At
  <2>2. DocsSeen' = [DocsSeen EXCEPT ![req[r].id].status = "deleted"]
    BY <1>1, <1>4, DeletedSeen DEF Remove
  <2>3. Coarse!Remove(r)
    BY <1>2, <2>1, <2>2 DEF Coarse!Remove
  <2> QED
    BY <2>3 DEF Coarse!RequestStep
<1> QED
  BY <1>3, <1>4

LEMMA DecideFollows ==
    ASSUME SeenInv, NEW r \in Clients, DisarmThenSave(r) \/ SaveFirst(r)
    PROVE  Coarse!RequestStep(r)
<1>1. /\ Busy(r) /\ req[r].id \in Schedules /\ Editing(r) /\ ~Settled(r)
      /\ req[r].at = "decide" /\ Goto(r, "write")
  BY KnownOf DEF SeenInv, DisarmThenSave, SaveFirst, Reaches, At, RequestOK
<1>2. /\ RequestsSeen[r].id = req[r].id /\ Coarse!Goto(r, "write") /\ Coarse!Reaches(r)
      /\ Coarse!EditedStatus(r) = Edited(r).status /\ Coarse!EditedTrigger(r) = "t"
      /\ Coarse!Rearms(r) <=> Rearms(r)
  BY <1>1, AtSeen, GotoSeen, EditSeen
<1>3. CASE DisarmThenSave(r)
  <2>1. Coarse!Disarm(req[r].id) /\ DocsSeen' = DocsSeen
    BY <1>1, <1>3, DisarmSeen, StoresSame DEF DisarmThenSave, docVars
  <2>2. Coarse!DisarmThenSave(r)
    BY <1>2, <1>3, <2>1 DEF Coarse!DisarmThenSave, DisarmThenSave
  <2> QED
    BY <2>2 DEF Coarse!RequestStep
<1>4. CASE SaveFirst(r)
  <2>1. UNCHANGED Coarse!storeVars /\ Edited(r).status = "active"
    BY <1>4, StoresSame DEF SaveFirst
  <2>2. Coarse!SaveOnly(r) \/ Coarse!SaveThenArm(r)
    BY <1>2, <2>1 DEF Coarse!SaveOnly, Coarse!SaveThenArm, Coarse!Armable
  <2> QED
    BY <2>2 DEF Coarse!RequestStep
<1> QED
  BY <1>3, <1>4

\* What Lifecycle sets of a document, and what of it is set here.
LEMMA SetSeen ==
    ASSUME SeenInv, NEW r \in Clients, Busy(r), NEW s \in Schedules,
           NEW changes, DOMAIN changes = Named(r),
           NEW status, "status" \in Named(r) => changes.status = status,
           NEW trigger, TriggerChanged(r) => trigger = "t"
    PROVE  Coarse!SetFields(r, DocsSeen[s], status, trigger, 0)
             = [status |-> Merge(doc[s], changes).status, trigger |-> "t", errors |-> 0]
<1>1. RequestOK(r) /\ RequestsSeen[r].call = CallSeen(r) /\ DOMAIN doc[s] = Fields
  BY AtSeen, KnownOf DEF SeenInv, NamesInv, DocsOK
<1>2. DOMAIN changes \subseteq EditableFields
  BY <1>1 DEF RequestOK, Fair, Named
<1>3. Merge(doc[s], changes).status = IF "status" \in Named(r) THEN status ELSE doc[s].status
  BY <1>1, <1>2, MergeFields
<1>4. RequestsSeen[r].call.status = "keep" <=> "status" \notin Named(r)
  BY <1>1 DEF CallSeen, RequestOK, Fair, Named
<1>5. Coarse!TriggerChanged(r) <=> TriggerChanged(r)
  BY <1>1 DEF CallSeen, Coarse!TriggerChanged
<1>6. DocsSeen[s] = [status |-> doc[s].status, trigger |-> "t", errors |-> 0]
  BY DEF DocsSeen
<1> QED
  BY <1>3, <1>4, <1>5, <1>6 DEF Coarse!SetFields

\* The $set of an edit is Lifecycle's.
LEMMA SavedSeen ==
    ASSUME SeenInv, NEW r \in Clients, At(r, "write"), Store(r, Saved(r))
    PROVE  DocsSeen' = Coarse!Saved(r)
<1> DEFINE s == req[r].id
<1>1. Busy(r) /\ s \in Schedules /\ RequestsSeen[r].id = s /\ RequestsSeen[r].call = CallSeen(r)
  BY AtSeen, KnownOf DEF SeenInv, At, RequestOK
<1>2. doc' = [doc EXCEPT ![s] = Merge(doc[s], Written(r))]
  BY DEF Store, Saved
<1>3. DOMAIN Written(r) = Named(r)
  BY WrittenValues
<1>4. "status" \in Named(r) => Written(r).status = CallSeen(r).status
  BY WrittenValues DEF CallSeen, Bounds
<1>5. TriggerChanged(r) => CallSeen(r).trigger = "t"
  BY DEF CallSeen
<1>6. Coarse!SetFields(r, DocsSeen[s], CallSeen(r).status, CallSeen(r).trigger, 0)
        = [status |-> Merge(doc[s], Written(r)).status, trigger |-> "t", errors |-> 0]
  BY <1>1, <1>3, <1>4, <1>5, SetSeen
<1>7. DocsSeen' = [DocsSeen EXCEPT ![s] =
           Coarse!SetFields(r, DocsSeen[s], CallSeen(r).status, CallSeen(r).trigger, 0)]
  BY <1>1, <1>2, <1>6, DocSeen
<1> QED
  BY <1>1, <1>7 DEF Coarse!Saved

LEMMA SaveFollows ==
    ASSUME SeenInv, NEW r \in Clients, Write(r) \/ WriteMissed(r)
    PROVE  Coarse!RequestStep(r)
<1> DEFINE s == req[r].id
<1>1. Busy(r) /\ RequestOK(r) /\ s \in Schedules /\ req[r].at = "write" /\ Editing(r)
  BY KnownOf DEF SeenInv, Write, WriteMissed, At, RequestOK, OnPath, Editing
<1>2. /\ RequestsSeen[r].id = s /\ RequestsSeen[r].call = CallSeen(r) /\ Coarse!At(r, "write")
      /\ Coarse!Rearms(r) <=> Rearms(r)
      /\ Coarse!Exists(s) <=> Exists(s)
  BY <1>1, AtSeen, EditSeen, ExistsSeen
<1>3. /\ Return(r) => Coarse!Return(r)
      /\ Goto(r, "arm") => Coarse!Goto(r, "arm")
  BY <1>1, EndSeen, GotoSeen
<1>4. CASE Write(r)
  <2>1. JobsSeen' = JobsSeen /\ DocsSeen' = Coarse!Saved(r)
    BY <1>4, StoresSame, SavedSeen DEF Write
  <2>2. Coarse!Write(r)
    BY <1>2, <1>3, <1>4, <2>1 DEF Coarse!Write, Write
  <2> QED
    BY <2>2 DEF Coarse!RequestStep
<1>5. CASE WriteMissed(r)
  <2>1. UNCHANGED Coarse!storeVars
    BY <1>5, StoresSame DEF WriteMissed
  <2>2. Coarse!WriteMissed(r)
    BY <1>2, <1>3, <1>5, <2>1 DEF Coarse!WriteMissed, WriteMissed
  <2> QED
    BY <2>2 DEF Coarse!RequestStep
<1> QED
  BY <1>4, <1>5

LEMMA ArmEditedFollows ==
    ASSUME SeenInv, NEW r \in Clients, ArmEdited(r)
    PROVE  Coarse!RequestStep(r)
<1>1. Busy(r) /\ req[r].id \in Schedules /\ req[r].at = "arm" /\ Editing(r)
  BY KnownOf DEF SeenInv, ArmEdited, At, RequestOK, OnPath, Editing
<1>2. /\ RequestsSeen[r].id = req[r].id /\ Coarse!At(r, "arm") /\ Coarse!EditedTrigger(r) = "t"
      /\ Coarse!Return(r) /\ DocsSeen' = DocsSeen
  BY <1>1, AtSeen, EditSeen, EndSeen, StoresSame DEF ArmEdited, docVars
<1>3. JobsSeen' = [JobsSeen EXCEPT ![req[r].id] = "t"]
  BY <1>1, ArmSeen DEF ArmEdited
<1>4. Coarse!ArmEdited(r)
  BY <1>2, <1>3 DEF Coarse!ArmEdited, Coarse!Arm, Coarse!ArmedWith
<1> QED
  BY <1>4 DEF Coarse!RequestStep

LEMMA RevertFollows ==
    ASSUME SeenInv, NEW r \in Clients, Revert(r)
    PROVE  Coarse!RequestStep(r)
<1> DEFINE s == req[r].id
           seen == RequestsSeen[r].seen
<1>1. Busy(r) /\ s \in Schedules /\ req[r].at = "revert" /\ Editing(r)
  BY KnownOf DEF SeenInv, Revert, At, RequestOK, OnPath, Editing
<1>2. /\ RequestsSeen[r].id = s /\ Coarse!At(r, "revert") /\ Coarse!Return(r) /\ JobsSeen' = JobsSeen
      /\ seen.status = req[r].seen.status /\ seen.trigger = "t" /\ seen.errors = 0
      /\ Coarse!Exists(s) <=> Exists(s)
  BY <1>1, AtSeen, EndSeen, ExistsSeen, StoresSame DEF Revert
<1>3. CASE Exists(s)
  <2>1. doc' = [doc EXCEPT ![s] = Merge(doc[s], Before(r))]
    BY <1>3 DEF Revert, Reverted
  <2>2. DOMAIN Before(r) = Named(r) /\ ("status" \in Named(r) => Before(r).status = seen.status)
    BY <1>2 DEF Before
  <2>3. Coarse!SetFields(r, DocsSeen[s], seen.status, seen.trigger, seen.errors)
          = [status |-> Merge(doc[s], Before(r)).status, trigger |-> "t", errors |-> 0]
    BY <1>1, <1>2, <2>2, SetSeen
  <2>4. DocsSeen' = [DocsSeen EXCEPT ![s] =
             Coarse!SetFields(r, DocsSeen[s], seen.status, seen.trigger, seen.errors)]
    BY <1>1, <2>1, <2>3, DocSeen
  <2> QED
    BY <1>2, <1>3, <2>4 DEF Coarse!Revert, Coarse!RequestStep
<1>4. CASE ~Exists(s)
  <2>1. DocsSeen' = DocsSeen
    BY <1>4, StoresSame DEF Revert
  <2> QED
    BY <1>2, <1>4, <2>1 DEF Coarse!Revert, Coarse!RequestStep
<1> QED
  BY <1>3, <1>4

-----------------------------------------------------------------------------
LEMMA ServeFollows ==
    ASSUME SeenInv, NEW r \in Clients, RequestStep(r)
    PROVE  \/ TurnedAway(r) \/ Coarse!RequestStep(r) \/ Coarse!StepFails(r)
           \/ UNCHANGED <<RequestsSeen, Coarse!storeVars>>
<1>1. CASE NameFree(r)
  <2>1. Busy(r) /\ req[r].at = "name" /\ Goto(r, "decide") /\ UNCHANGED storeVars
    BY <1>1 DEF NameFree, At
  <2>2. RequestsSeen' = [RequestsSeen EXCEPT ![r].at = "decide"]
    BY <2>1, MoveSeen
  <2>3. [RequestSeen(r) EXCEPT !.at = "decide"] = RequestSeen(r)
    BY <2>1 DEF RequestSeen
  <2>4. [RequestsSeen[r] EXCEPT !.at = "decide"] = RequestsSeen[r]
    BY <2>1, <2>3, SeenOf
  <2>5. RequestsSeen = [q \in Clients |-> RequestsSeen[q]]
    BY DEF RequestsSeen
  <2>6. RequestsSeen' = RequestsSeen
    BY <2>2, <2>4, <2>5
  <2> QED
    BY <2>1, <2>6, StoresSame
<1>2. CASE NameTaken(r) \/ Refused(r) \/ NothingToDo(r)
  <2>1. /\ Busy(r) /\ req[r].at \in {"name", "decide"}
        /\ Return(r) /\ UNCHANGED storeVars
    BY <1>2 DEF NameTaken, Refused, NothingToDo, Reaches, At
  <2> QED
    BY <2>1, AnswerFollows
<1>3. CASE InsertClashes(r)
  <2>1. Busy(r) /\ req[r].at = "insert" /\ Return(r) /\ UNCHANGED storeVars
    BY <1>3 DEF InsertClashes, At
  <2> QED
    BY <2>1, FailFollows
<1> QED
  BY <1>1, <1>2, <1>3, CreateFollows, DecideFollows, SaveFollows, ArmEditedFollows, RevertFollows,
     DeleteFollows DEF RequestStep

LEMMA FaultFollows ==
    ASSUME SeenInv, NEW r \in Clients, Clash(r) \/ RequestFault(r)
    PROVE  TurnedAway(r) \/ Coarse!StepFails(r)
<1>1. CASE Clash(r)
  <2>1. Busy(r) /\ req[r].at \in {"write", "revert"} /\ Return(r) /\ UNCHANGED storeVars
    BY <1>1 DEF Clash, WriteClashes, RevertClashes, At
  <2> QED
    BY <2>1, FailFollows
<1>2. CASE RequestFault(r)
  <2>1. /\ Busy(r) /\ UNCHANGED storeVars
        /\ \/ req[r].at = "armNew" /\ Goto(r, "uncreate")
           \/ req[r].at = "arm" /\ Goto(r, "revert")
           \/ req[r].at \notin {"armNew", "arm"} /\ Return(r)
    BY <1>2 DEF RequestFault, StepFails, At
  <2> QED
    BY <2>1, AnswerFollows, FailFollows
<1> QED
  BY <1>1, <1>2

\* A call that took effect and raised is one to Lifecycle.
LEMMA ReplyLostFollows ==
    ASSUME SeenInv, NEW r \in Clients, ReplyLost(r)
    PROVE  Coarse!ReplyLost(r)
<1>1. Busy(r) /\ RequestOK(r) /\ Usual(r) /\ req[r].id \in Schedules
  BY KnownOf DEF SeenInv, ReplyLost, InsertReplyLost, WriteReplyLost, ArmReplyLost,
         DisarmReplyLost, Reaches, At, RequestOK
<1>2. /\ RequestsSeen[r].id = req[r].id /\ RequestsSeen[r].call = CallSeen(r)
      /\ RequestsSeen[r].call.op = req[r].op
      /\ \A step \in {"insert", "armNew", "write", "arm"} : At(r, step) => Coarse!At(r, step)
      /\ Coarse!Exists(req[r].id) <=> Exists(req[r].id)
  BY <1>1, AtSeen, ExistsSeen DEF At
<1>3. CASE InsertReplyLost(r)
  <2>1. Coarse!Return(r) /\ JobsSeen' = JobsSeen /\ DocsSeen' = Coarse!Inserted(r)
    BY <1>3, EndSeen, StoresSame, InsertSeen DEF InsertReplyLost
  <2>2. Coarse!WriteReplyLost(r)
    BY <1>2, <1>3, <2>1 DEF Coarse!WriteReplyLost, InsertReplyLost
  <2> QED
    BY <2>2 DEF Coarse!ReplyLost
<1>4. CASE WriteReplyLost(r)
  <2>1. Coarse!Return(r) /\ JobsSeen' = JobsSeen /\ DocsSeen' = Coarse!Saved(r)
    BY <1>4, EndSeen, StoresSame, SavedSeen DEF WriteReplyLost
  <2>2. Coarse!WriteReplyLost(r)
    BY <1>2, <1>4, <2>1 DEF Coarse!WriteReplyLost, WriteReplyLost
  <2> QED
    BY <2>2 DEF Coarse!ReplyLost
<1>5. CASE ArmReplyLost(r)
  <2>1. DocsSeen' = DocsSeen
    BY <1>5, StoresSame DEF ArmReplyLost, docVars
  <2>2. JobsSeen' = [JobsSeen EXCEPT ![req[r].id] = "t"]
    BY <1>1, <1>5, ArmSeen DEF ArmReplyLost
  <2>3. CASE At(r, "armNew") /\ Goto(r, "uncreate")
    <3>1. req[r].op = "create"
      BY <1>1, <2>3 DEF At, RequestOK, OnPath
    <3>2. RequestsSeen[r].call.trigger = "t"
      BY <1>1, <1>2, <3>1 DEF Usual, CallSeen
    <3>3. Coarse!At(r, "armNew") /\ Coarse!Goto(r, "uncreate")
      BY <1>1, <1>2, <2>3, GotoSeen
    <3> QED
      BY <1>2, <2>1, <2>2, <3>2, <3>3
         DEF Coarse!ReplyLost, Coarse!ArmReplyLost, Coarse!Arm, Coarse!ArmedWith
  <2>4. CASE At(r, "arm") /\ Goto(r, "revert")
    <3>1. Editing(r)
      BY <1>1, <2>4 DEF At, RequestOK, OnPath, Editing
    <3>2. Coarse!EditedTrigger(r) = "t"
      BY <1>1, <3>1, EditSeen
    <3>3. Coarse!At(r, "arm") /\ Coarse!Goto(r, "revert")
      BY <1>1, <1>2, <2>4, GotoSeen
    <3> QED
      BY <1>2, <2>1, <2>2, <3>2, <3>3
         DEF Coarse!ReplyLost, Coarse!ArmReplyLost, Coarse!Arm, Coarse!ArmedWith
  <2> QED
    BY <1>5, <2>3, <2>4 DEF ArmReplyLost
<1>6. CASE DisarmReplyLost(r)
  <2>1. Coarse!Return(r) /\ Coarse!Disarm(req[r].id) /\ DocsSeen' = DocsSeen
    BY <1>1, <1>6, EndSeen, DisarmSeen, StoresSame DEF DisarmReplyLost, docVars
  <2>2. Coarse!Disarms(r)
    <3>1. CASE At(r, "decide") /\ req[r].op = "delete"
      <4>1. Coarse!At(r, "decide")
        BY <1>1, <3>1, AtSeen DEF At
      <4> QED
        BY <1>2, <3>1, <4>1 DEF Coarse!Disarms
    <3>2. CASE Reaches(r) /\ Edited(r).status # "active"
      <4>1. Editing(r) /\ ~Settled(r) /\ req[r].at = "decide"
        BY <3>2 DEF Reaches, At
      <4>2. Coarse!Reaches(r) /\ Coarse!EditedStatus(r) # "active"
        BY <1>1, <3>2, <4>1, EditSeen
      <4> QED
        BY <4>2 DEF Coarse!Disarms
    <3> QED
      BY <1>6, <3>1, <3>2 DEF DisarmReplyLost
  <2>3. Coarse!DisarmReplyLost(r)
    BY <1>2, <2>1, <2>2 DEF Coarse!DisarmReplyLost
  <2> QED
    BY <2>3 DEF Coarse!ReplyLost
<1> QED
  BY <1>3, <1>4, <1>5, <1>6 DEF ReplyLost

LEMMA WorkerFollows ==
    ASSUME SeenInv,
           \/ WorkerStarts
           \/ \E s \in Schedules : Skip(s) \/ FindMissing(s) \/ Restore(s) \/ RestoreFails(s)
    PROVE  JobsLost \/ JobRestored \/ UNCHANGED <<RequestsSeen, Coarse!storeVars>>
<1>1. doc' = doc /\ req' = req
  BY DEF WorkerStarts, Skip, FindMissing, Restore, RestoreFails, storeVars, docVars
<1>2. UNCHANGED <<DocsSeen, RequestsSeen>>
  BY <1>1, StoresSame
<1>3. CASE WorkerStarts
  <2>1. \A s \in Schedules : job'[s] \in {job[s], None}
    BY <1>3 DEF WorkerStarts
  <2>2. \A s \in Schedules : JobsSeen'[s] \in {JobsSeen[s], "none"}
    BY <2>1 DEF JobsSeen, Armed
  <2> QED
    BY <1>2, <2>2 DEF JobsLost
<1>4. ASSUME NEW s \in Schedules, Restore(s)
      PROVE  JobRestored
  <2>1. s \in DOMAIN listed
    BY <1>4, KnownOf DEF SeenInv, Restore, Shape
  <2>2. JobsSeen' = [JobsSeen EXCEPT ![s] = "t"]
    BY <1>4, ArmSeen DEF Restore
  <2> QED
    BY <1>2, <2>1, <2>2 DEF JobRestored
<1>5. ASSUME NEW s \in Schedules, Skip(s) \/ FindMissing(s) \/ RestoreFails(s)
      PROVE  UNCHANGED <<RequestsSeen, Coarse!storeVars>>
  <2>1. UNCHANGED storeVars
    BY <1>5 DEF Skip, FindMissing, RestoreFails
  <2> QED
    BY <1>2, <2>1, StoresSame
<1> QED
  BY <1>3, <1>4, <1>5

\* Every step of ScheduleEdits is one of Lifecycle's, a job lost or restored, or
\* nothing to it.
LEMMA NextFollows ==
    ASSUME SeenInv, SeenInv', [Next]_vars
    PROVE  [LifecycleMoves]_<<RequestsSeen, Coarse!storeVars>>
<1>1. ASSUME NEW r \in Clients,
             Call(r) \/ Serve(r) \/ Clash(r) \/ RequestFault(r) \/ ReplyFault(r)
      PROVE  [LifecycleMoves]_<<RequestsSeen, Coarse!storeVars>>
  BY <1>1, CallFollows, ServeFollows, FaultFollows, ReplyLostFollows
     DEF Serve, ReplyFault, LifecycleMoves
<1>2. CASE \/ WorkerStarts
           \/ \E s \in Schedules : Skip(s) \/ FindMissing(s) \/ Restore(s) \/ RestoreFails(s)
  BY <1>2, WorkerFollows DEF LifecycleMoves
<1>3. CASE UNCHANGED vars
  <2>1. UNCHANGED storeVars /\ req' = req
    BY <1>3 DEF vars
  <2> QED
    BY <2>1, StoresSame
<1> QED
  BY <1>1, <1>2, <1>3 DEF Next

\* ScheduleEdits implements Lifecycle: for any schedules, callers and requests,
\* however many edit one schedule and whatever fails, partial edits do with the
\* status and the job what Lifecycle says, in its order.
THEOREM FollowsLifecycleAlways == Spec => FollowsLifecycle
<1>1. Spec => []SeenInv
  BY InitSeen, NextSeen, PTL DEF Spec
<1>2. SeenInv /\ SeenInv' /\ [Next]_vars => [LifecycleMoves]_<<RequestsSeen, Coarse!storeVars>>
  BY NextFollows
<1> QED
  BY <1>1, <1>2, PTL DEF Spec, FollowsLifecycle
==============================================================================
