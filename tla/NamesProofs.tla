------------------------------ MODULE NamesProofs ------------------------------
(***************************************************************************)
(* ScheduleEdits implements NameDirectory, for any schedules, owners,      *)
(* names, callers, requests and faults: every step of a request claims,    *)
(* moves or releases one name, or leaves all names alone.  On what that    *)
(* says of requests rests that no masked header is ever stored.            *)
(***************************************************************************)
EXTENDS ScheduleEdits, TLAPS

Statuses == {"absent", "active", "paused", "deleted"}

DocsOK ==
    /\ DOMAIN doc = Schedules
    /\ \A s \in Schedules :
          /\ DOMAIN doc[s] = Fields
          /\ doc[s].status \in Statuses
          /\ Exists(s) => doc[s].owner \in Owners /\ doc[s].name \in Names

\* Changes a request may make to the fields a name depends on.
Fair(changes) ==
    /\ DOMAIN changes \subseteq EditableFields
    /\ "name" \in DOMAIN changes => changes.name \in Names
    /\ "status" \in DOMAIN changes => changes.status \in {"active", "paused"}

\* A request that creates, and has not inserted the document yet.
Creating(op, step) == op = "create" /\ step \in {"name", "decide", "insert"}
Fresh(r) == Busy(r) /\ Creating(req[r].op, req[r].at)

\* Where a request may be, by its operation.
OnPath(op, step) ==
    \/ op = "create" /\ step \in {"name", "decide", "insert", "armNew", "uncreate"}
    \/ op \in {"patch", "pause", "resume"} /\ step \in {"name", "decide", "write", "arm", "revert"}
    \/ op = "delete" /\ step \in {"name", "decide", "remove"}

RequestOK(r) ==
    /\ DOMAIN req[r] = {"at", "op", "id", "seen", "changes"}
    /\ req[r].id \in Schedules
    /\ OnPath(req[r].op, req[r].at)
    /\ DOMAIN req[r].seen = Fields
    /\ Fair(req[r].changes)
    /\ Fresh(r) => /\ doc[req[r].id].status = "absent"
                   /\ \E owner \in Owners : req[r].seen = NewDoc(owner)
                   /\ "name" \in Named(r) /\ "status" \notin Named(r)
    /\ ~Fresh(r) => doc[req[r].id].status # "absent"
    /\ Editing(r) => req[r].seen.name \in Names /\ req[r].seen.status \in {"active", "paused"}

\* Nobody else works on a schedule that is being created.
Apart ==
    \A r, q \in Clients : Fresh(r) /\ Busy(q) /\ r # q => req[q].id # req[r].id

NamesInv ==
    /\ DocsOK
    /\ DOMAIN req = Clients
    /\ \A r \in Clients : Busy(r) => RequestOK(r)
    /\ Apart

-----------------------------------------------------------------------------
(* Names as fields of a document. *)

LEMMA FieldsNamed ==
    /\ {"owner", "name", "status"} \subseteq Fields
    /\ {"name", "status"} \subseteq EditableFields
    /\ "owner" \notin EditableFields
  BY DEF Fields, EditableFields, TriggerFields

LEMMA MergeFields ==
    ASSUME NEW d, DOMAIN d = Fields, NEW changes, DOMAIN changes \subseteq EditableFields
    PROVE  /\ DOMAIN Merge(d, changes) = Fields
           /\ Merge(d, changes).owner = d.owner
           /\ Merge(d, changes).name = IF "name" \in DOMAIN changes THEN changes.name ELSE d.name
           /\ Merge(d, changes).status =
                 IF "status" \in DOMAIN changes THEN changes.status ELSE d.status
  BY FieldsNamed DEF Merge

\* Masks and dates aside, a request stores what it names.
LEMMA WrittenFields ==
    ASSUME NEW r, Fair(req[r].changes)
    PROVE  /\ Fair(Written(r)) /\ DOMAIN Written(r) = Named(r)
           /\ "name" \in Named(r) => Written(r).name = req[r].changes.name
<1>1. /\ DOMAIN Unmasked(r) = Named(r)
      /\ "name" \in Named(r) => Unmasked(r).name = req[r].changes.name
      /\ "status" \in Named(r) => Unmasked(r).status = req[r].changes.status
  BY DEF Unmasked, Named
<1>2. /\ DOMAIN Written(r) = Named(r)
      /\ "name" \in Named(r) => Written(r).name = Unmasked(r).name
      /\ "status" \in Named(r) => Written(r).status = Unmasked(r).status
  BY <1>1 DEF Written, Stored, Bounds
<1> QED
  BY <1>1, <1>2 DEF Fair, Named

-----------------------------------------------------------------------------
(* Steps on the documents, as steps of NameDirectory. *)

LEMMA SameNames ==
    ASSUME DocsOK, doc' = doc PROVE DocsOK' /\ Held' = Held
  BY DEF DocsOK, Held, Exists

LEMMA EditNames ==
    ASSUME DocsOK, NEW s \in Schedules, Exists(s), NEW changes, Fair(changes),
           ~NameInUse(s, Merge(doc[s], changes)),
           doc' = [doc EXCEPT ![s] = Merge(doc[s], changes)]
    PROVE  /\ DocsOK' /\ [Directory!Next]_Held
           /\ \A q \in Schedules : doc'[q].status = "absent" <=> doc[q].status = "absent"
<1> DEFINE d == Merge(doc[s], changes)
<1>1. /\ DOMAIN d = Fields /\ d.owner = doc[s].owner /\ d.name \in Names
      /\ d.status \in {"active", "paused"} /\ d.owner \in Owners
  BY MergeFields DEF DocsOK, Fair, Exists
<1> HIDE DEF d
<1>2. doc'[s] = d /\ DOMAIN doc' = Schedules /\ \A q \in Schedules \ {s} : doc'[q] = doc[q]
  BY DEF DocsOK, d
<1>3. DocsOK'
  BY <1>1, <1>2 DEF DocsOK, Exists, Statuses
<1>4. /\ Held'[s] = <<d.owner, d.name>> /\ Held[s] = <<doc[s].owner, doc[s].name>>
      /\ \A q \in Schedules \ {s} : Held'[q] = Held[q]
  BY <1>1, <1>2 DEF Held, Exists
<1>5. Held' = [Held EXCEPT ![s] = <<doc[s].owner, d.name>>]
  BY <1>1, <1>4 DEF Held
<1>6. CASE d.name = doc[s].name
  <2>1. Held' = Held
    BY <1>1, <1>4, <1>5, <1>6 DEF Held
  <2> QED
    BY <1>1, <1>2, <1>3, <2>1 DEF Exists
<1>7. CASE d.name # doc[s].name
  <2>1. \A q \in Schedules : Held[q] # <<doc[s].owner, d.name>>
    <3>1. \A q \in Schedules \ {s} : ~(Exists(q) /\ doc[q].owner = d.owner /\ doc[q].name = d.name)
      BY DEF NameInUse, d
    <3> QED
      BY <1>1, <1>4, <1>7, <3>1 DEF Held
  <2>2. Directory!Holder(s) /\ Held[s][1] = doc[s].owner
    BY <1>4 DEF Directory!Holder, Directory!Free, Directory!Gone
  <2>3. Directory!Move(s, d.name)
    BY <1>5, <2>1, <2>2 DEF Directory!Move, Directory!Taken
  <2> QED
    BY <1>1, <1>2, <1>3, <2>3 DEF Directory!Next, Exists
<1> QED
  BY <1>6, <1>7

LEMMA DeleteNames ==
    ASSUME DocsOK, NEW s \in Schedules, doc[s].status # "absent",
           doc' = [doc EXCEPT ![s].status = "deleted"]
    PROVE  /\ DocsOK' /\ [Directory!Next]_Held
           /\ \A q \in Schedules : doc'[q].status = "absent" <=> doc[q].status = "absent"
<1>1. /\ DOMAIN doc' = Schedules /\ DOMAIN doc'[s] = Fields /\ doc'[s].status = "deleted"
      /\ \A q \in Schedules \ {s} : doc'[q] = doc[q]
  BY FieldsNamed DEF DocsOK
<1>2. DocsOK'
  BY <1>1 DEF DocsOK, Exists, Statuses
<1>3. Held'[s] = <<"gone">> /\ \A q \in Schedules \ {s} : Held'[q] = Held[q]
  BY <1>1 DEF Held, Exists
<1>4. Held' = [Held EXCEPT ![s] = <<"gone">>]
  BY <1>3 DEF Held
<1>5. CASE Exists(s)
  <2>1. Held[s] = <<doc[s].owner, doc[s].name>>
    BY <1>5 DEF Held
  <2>2. Directory!Release(s)
    BY <1>4, <2>1 DEF Directory!Release, Directory!Holder, Directory!Free, Directory!Gone
  <2> QED
    BY <1>1, <1>2, <2>2 DEF Directory!Next
<1>6. CASE ~Exists(s)
  <2>1. Held[s] = <<"gone">>
    BY <1>6 DEF Held
  <2>2. Held' = Held
    BY <1>4, <2>1 DEF Held
  <2> QED
    BY <1>1, <1>2, <2>2
<1> QED
  BY <1>5, <1>6

LEMMA InsertNames ==
    ASSUME DocsOK, NEW s \in Schedules, doc[s].status = "absent", NEW d, DOMAIN d = Fields,
           d.owner \in Owners, d.name \in Names, d.status = "active", ~NameInUse(s, d),
           doc' = [doc EXCEPT ![s] = d]
    PROVE  DocsOK' /\ [Directory!Next]_Held
<1>1. doc'[s] = d /\ DOMAIN doc' = Schedules /\ \A q \in Schedules \ {s} : doc'[q] = doc[q]
  BY DEF DocsOK
<1>2. DocsOK'
  BY <1>1 DEF DocsOK, Exists, Statuses
<1>3. /\ Held'[s] = <<d.owner, d.name>> /\ Held[s] = <<>>
      /\ \A q \in Schedules \ {s} : Held'[q] = Held[q]
  BY <1>1 DEF Held, Exists
<1>4. Held' = [Held EXCEPT ![s] = <<d.owner, d.name>>]
  BY <1>3 DEF Held
<1>5. \A q \in Schedules : Held[q] # <<d.owner, d.name>>
  <2>1. \A q \in Schedules \ {s} : ~(Exists(q) /\ doc[q].owner = d.owner /\ doc[q].name = d.name)
    BY DEF NameInUse
  <2> QED
    BY <1>3, <2>1 DEF Held
<1>6. Directory!Claim(s, d.owner, d.name)
  BY <1>3, <1>4, <1>5 DEF Directory!Claim, Directory!Taken, Directory!Free
<1> QED
  BY <1>2, <1>6 DEF Directory!Next

-----------------------------------------------------------------------------
(* Steps on the requests. *)

SameStatus == \A q \in Schedules : doc'[q].status = "absent" <=> doc[q].status = "absent"

LEMMA EndKeeps ==
    ASSUME NamesInv, NEW r \in Clients, Return(r), DocsOK', SameStatus PROVE NamesInv'
<1>1. DOMAIN req' = Clients /\ ~Busy(r)' /\ \A q \in Clients \ {r} : req'[q] = req[q]
  BY DEF NamesInv, Return, Busy
<1>2. \A q \in Clients : Busy(q)' => RequestOK(q)' /\ Busy(q) /\ (Fresh(q)' => Fresh(q))
  BY <1>1 DEF NamesInv, RequestOK, Fresh, Busy, Named, Editing, SameStatus
<1>3. Apart'
  BY <1>1, <1>2 DEF NamesInv, Apart, Fresh, Busy
<1> QED
  BY <1>1, <1>2, <1>3 DEF NamesInv

LEMMA MoveKeeps ==
    ASSUME NamesInv, NEW r \in Clients, Busy(r), NEW step, Goto(r, step),
           OnPath(req[r].op, step),
           Creating(req[r].op, step) <=> Creating(req[r].op, req[r].at),
           DocsOK', SameStatus
    PROVE  NamesInv'
<1>1. /\ DOMAIN req' = Clients /\ \A q \in Clients \ {r} : req'[q] = req[q]
      /\ DOMAIN req'[r] = DOMAIN req[r] /\ req'[r].at = step
      /\ req'[r].op = req[r].op /\ req'[r].id = req[r].id
      /\ req'[r].seen = req[r].seen /\ req'[r].changes = req[r].changes
  BY DEF NamesInv, Goto, RequestOK
<1>2. \A q \in Clients : Busy(q)' => Busy(q) /\ (Fresh(q)' <=> Fresh(q))
  BY <1>1 DEF Fresh, Busy
<1>3. \A q \in Clients : Busy(q)' => RequestOK(q)'
  <2>1. Busy(r)' => RequestOK(r)'
    BY <1>1, <1>2 DEF NamesInv, RequestOK, Named, Editing, SameStatus
  <2>2. \A q \in Clients \ {r} : Busy(q)' => RequestOK(q)'
    BY <1>1, <1>2 DEF NamesInv, RequestOK, Named, Editing, SameStatus, Busy
  <2> QED
    BY <2>1, <2>2
<1>4. Apart'
  <2>1. \A q \in Clients : (Fresh(q)' => Fresh(q)) /\ req'[q].id = req[q].id
    BY <1>1, <1>2 DEF Fresh
  <2> QED
    BY <1>2, <2>1 DEF NamesInv, Apart
<1> QED
  BY <1>1, <1>3, <1>4 DEF NamesInv

\* The documents, and so the names, stay as they are.
LEMMA AlonePassive == ASSUME NamesInv, doc' = doc PROVE DocsOK' /\ SameStatus /\ Held' = Held
  BY SameNames DEF NamesInv, SameStatus

LEMMA BeginNames ==
    ASSUME NamesInv, NEW r \in Clients, Call(r) PROVE NamesInv' /\ Held' = Held
<1> PICK s \in Schedules, c \in Calls : Lookup(r, s, c) \/ BeginCreate(r, s, c)
  BY DEF Call
<1> DEFINE new(seen, step) ==
               [at |-> step, op |-> c.op, id |-> s, seen |-> seen, changes |-> c.changes]
<1>1. /\ c.op \in Ops /\ c.owner \in Owners /\ Fair(c.changes)
      /\ c.op = "create" => "name" \in DOMAIN c.changes /\ "status" \notin DOMAIN c.changes
  BY EditsAssumption, FieldsNamed DEF Fair
<1>2. PICK seen, step : Begin(r, s, c, seen, step) /\ step \in {"name", "decide"}
                        /\ \/ /\ c.op # "create" /\ Exists(s) /\ seen = doc[s]
                           \/ /\ c.op = "create" /\ doc[s].status = "absent"
                              /\ \A q \in Clients : ~On(q, s)
                              /\ seen = NewDoc(c.owner)
  BY DEF Lookup, BeginCreate
<1>3. /\ DOMAIN req' = Clients /\ \A q \in Clients \ {r} : req'[q] = req[q]
      /\ req'[r] = new(seen, step) /\ doc' = doc /\ ~Busy(r)
  BY <1>2 DEF Begin, NamesInv, storeVars, docVars
<1>4. DocsOK' /\ SameStatus /\ Held' = Held
  BY <1>3, AlonePassive
<1>5. \A q \in Clients \ {r} : /\ Busy(q)' <=> Busy(q)
                               /\ Busy(q) => RequestOK(q)' /\ (Fresh(q)' <=> Fresh(q))
  BY <1>3 DEF NamesInv, RequestOK, Named, Editing, Fresh, Busy
<1>6. RequestOK(r)'
  <2>1. /\ req'[r].at \in {"name", "decide"} /\ req'[r].op = c.op /\ req'[r].id = s
        /\ req'[r].seen = seen /\ req'[r].changes = c.changes
        /\ DOMAIN req'[r] = {"at", "op", "id", "seen", "changes"}
    BY <1>2, <1>3
  <2>2. DOMAIN seen = Fields
    BY <1>2 DEF NewDoc, NoDoc, NamesInv, DocsOK
  <2>3. OnPath(req[r].op, req[r].at)'
    BY <1>1, <2>1 DEF OnPath, Ops
  <2>4. Fresh(r)' <=> c.op = "create"
    BY <2>1 DEF Fresh, Creating, Busy, Idle
  <2>5. Editing(r)' => seen.name \in Names /\ seen.status \in {"active", "paused"}
    BY <1>2, <2>1 DEF Editing, NamesInv, DocsOK, Exists
  <2> QED
    BY <1>1, <1>2, <1>3, <2>1, <2>2, <2>3, <2>4, <2>5 DEF RequestOK, Named, Exists
<1>7. Apart'
  <2>1. Fresh(r)' => \A q \in Clients : ~On(q, s)
    BY <1>2, <1>3 DEF Fresh, Creating
  <2>2. ~Fresh(r)' => \A q \in Clients : Fresh(q) => req[q].id # s
    BY <1>2, <1>3 DEF NamesInv, RequestOK, Exists, Fresh, Creating, Busy, Idle
  <2>3. req'[r].id = s
    BY <1>3
  <2> QED
    BY <1>3, <1>5, <2>1, <2>2, <2>3 DEF NamesInv, Apart, On, Fresh, Busy
<1> QED
  BY <1>3, <1>4, <1>5, <1>6, <1>7 DEF NamesInv

\* The document is created: the only step that takes a status of "absent" away.
LEMMA InsertKeeps ==
    ASSUME NamesInv, NEW r \in Clients, Insert(r) \/ InsertReplyLost(r)
    PROVE  NamesInv' /\ [Directory!Next]_Held
<1> DEFINE s == req[r].id
           d == Merge(req[r].seen, Written(r))
<1>1. RequestOK(r) /\ Busy(r) /\ Fresh(r)
  BY DEF NamesInv, Insert, InsertReplyLost, At, Fresh, RequestOK, OnPath, Creating
<1>2. PICK owner \in Owners : req[r].seen = NewDoc(owner)
  BY <1>1 DEF RequestOK
<1>3. /\ s \in Schedules /\ doc[s].status = "absent" /\ Fair(req[r].changes)
      /\ "name" \in Named(r) /\ "status" \notin Named(r)
  BY <1>1 DEF RequestOK
<1>4. /\ DOMAIN NewDoc(owner) = Fields /\ NewDoc(owner).owner = owner
      /\ NewDoc(owner).status = "active"
  BY FieldsNamed DEF NewDoc, NoDoc
<1>5. /\ DOMAIN Written(r) \subseteq EditableFields /\ DOMAIN Written(r) = Named(r)
      /\ Written(r).name = req[r].changes.name /\ req[r].changes.name \in Names
  BY <1>3, WrittenFields DEF Fair, Named
<1>6. /\ DOMAIN d = Fields /\ d.owner = owner /\ d.name = req[r].changes.name
      /\ d.status = "active"
  BY <1>2, <1>3, <1>4, <1>5, MergeFields
<1>7. Edited(r).owner = owner /\ Edited(r).name = req[r].changes.name
  BY <1>2, <1>3, <1>4, MergeFields DEF Edited, Fair, Named
<1>8. ~NameInUse(s, d) /\ doc' = [doc EXCEPT ![s] = d] /\ (Goto(r, "armNew") \/ Return(r))
  BY <1>6, <1>7 DEF Insert, InsertReplyLost, NameInUse, Store
<1> HIDE DEF d
<1>9. DocsOK' /\ [Directory!Next]_Held
  BY <1>3, <1>5, <1>6, <1>8, InsertNames DEF NamesInv
<1>10. /\ doc'[s].status = "active" /\ \A q \in Schedules \ {s} : doc'[q] = doc[q]
  BY <1>3, <1>6, <1>8 DEF NamesInv, DocsOK
<1>11. /\ DOMAIN req' = Clients /\ \A q \in Clients \ {r} : req'[q] = req[q]
       /\ Busy(r)' => /\ DOMAIN req'[r] = DOMAIN req[r] /\ req'[r].at = "armNew"
                      /\ req'[r].op = req[r].op /\ req'[r].id = req[r].id
                      /\ req'[r].seen = req[r].seen /\ req'[r].changes = req[r].changes
  <2>1. CASE Goto(r, "armNew")
    BY <1>1, <2>1 DEF NamesInv, Goto, RequestOK
  <2>2. CASE Return(r)
    BY <2>2 DEF NamesInv, Return, Busy
  <2> QED
    BY <1>8, <2>1, <2>2
<1>12. /\ ~Fresh(r)'
       /\ \A q \in Clients \ {r} : Busy(q)' <=> Busy(q)
       /\ \A q \in Clients \ {r} : Fresh(q)' <=> Fresh(q)
       /\ \A q \in Clients \ {r} : Busy(q) => req[q].id # s
  BY <1>1, <1>11 DEF Fresh, Creating, Busy, NamesInv, Apart
<1>13. Busy(r)' => RequestOK(r)'
  <2>1. req[r].op = "create"
    BY <1>1 DEF Fresh, Creating
  <2> QED
    BY <1>1, <1>10, <1>11, <1>12, <2>1 DEF RequestOK, OnPath, Editing, Named
<1>14. ASSUME NEW q \in Clients \ {r}, Busy(q)' PROVE RequestOK(q)'
  <2>1. Busy(q) /\ RequestOK(q) /\ req'[q] = req[q] /\ (Fresh(q)' <=> Fresh(q))
    BY <1>11, <1>12, <1>14 DEF NamesInv
  <2>2. doc'[req[q].id] = doc[req[q].id]
    BY <1>10, <1>12, <2>1 DEF RequestOK
  <2> QED
    BY <2>1, <2>2 DEF RequestOK, Editing, Named
<1>15. Apart'
  <2>1. \A q \in Clients : Fresh(q)' => Busy(q)' /\ Fresh(q)
    BY <1>12 DEF Fresh
  <2>2. \A q \in Clients : Busy(q)' => Busy(q) /\ req'[q].id = req[q].id
    BY <1>1, <1>11, <1>12
  <2> QED
    BY <2>1, <2>2 DEF NamesInv, Apart
<1> QED
  BY <1>9, <1>11, <1>13, <1>14, <1>15 DEF NamesInv

\* The $set of an edit, or of taking it back.
LEMMA EditKeeps ==
    ASSUME NamesInv, NEW r \in Clients, Write(r) \/ WriteReplyLost(r) \/ Revert(r)
    PROVE  NamesInv' /\ [Directory!Next]_Held
<1> DEFINE s == req[r].id
<1>1. /\ RequestOK(r) /\ Busy(r) /\ Editing(r) /\ s \in Schedules /\ Fair(req[r].changes)
      /\ req[r].op # "create" /\ DocsOK
  BY DEF NamesInv, Write, WriteReplyLost, Revert, At, RequestOK, OnPath, Editing
<1>2. CASE Write(r) \/ WriteReplyLost(r)
  <2>1. DocsOK' /\ [Directory!Next]_Held /\ SameStatus
    BY <1>1, <1>2, WrittenFields, EditNames DEF Write, WriteReplyLost, Store, Saved, SameStatus
  <2>2. Return(r) \/ Goto(r, "arm")
    BY <1>2 DEF Write, WriteReplyLost
  <2> QED
    BY <1>1, <2>1, <2>2, EndKeeps, MoveKeeps DEF OnPath, Creating, Editing
<1>3. CASE Revert(r)
  <2>1. Return(r)
    BY <1>3 DEF Revert
  <2>2. CASE Exists(s)
    <3>1. Fair(Before(r))
      BY <1>1 DEF Before, Fair, Named, RequestOK
    <3>2. DocsOK' /\ [Directory!Next]_Held /\ SameStatus
      BY <1>1, <1>3, <2>2, <3>1, EditNames DEF Revert, Reverted, SameStatus
    <3> QED
      BY <2>1, <3>2, EndKeeps
  <2>3. CASE ~Exists(s)
    <3>1. doc' = doc
      BY <1>3, <2>3 DEF Revert
    <3> QED
      BY <2>1, <3>1, AlonePassive, EndKeeps
  <2> QED
    BY <2>2, <2>3
<1> QED
  BY <1>2, <1>3

LEMMA DeleteKeeps ==
    ASSUME NamesInv, NEW r \in Clients, Uncreate(r) \/ Remove(r)
    PROVE  NamesInv' /\ [Directory!Next]_Held
<1>1. RequestOK(r) /\ ~Fresh(r) /\ DocsOK
  BY DEF NamesInv, Uncreate, Remove, At, RequestOK, OnPath, Fresh, Creating
<1>2. /\ req[r].id \in Schedules /\ doc[req[r].id].status # "absent" /\ Return(r)
      /\ doc' = [doc EXCEPT ![req[r].id].status = "deleted"]
  BY <1>1 DEF RequestOK, Uncreate, Remove
<1>3. DocsOK' /\ [Directory!Next]_Held /\ SameStatus
  BY <1>1, <1>2, DeleteNames DEF SameStatus
<1> QED
  BY <1>2, <1>3, EndKeeps

\* Every other step of a request leaves the documents alone.
LEMMA ServeKeeps ==
    ASSUME NamesInv, NEW r \in Clients, RequestStep(r)
    PROVE  NamesInv' /\ [Directory!Next]_Held
<1>1. CASE Insert(r)
  BY <1>1, InsertKeeps
<1>2. CASE Write(r) \/ Revert(r)
  BY <1>2, EditKeeps
<1>3. CASE Uncreate(r) \/ Remove(r)
  BY <1>3, DeleteKeeps
<1>4. CASE \/ NameTaken(r) \/ Refused(r) \/ InsertClashes(r) \/ ArmNew(r)
           \/ NothingToDo(r) \/ ArmEdited(r)
  <2>1. Return(r) /\ doc' = doc
    BY <1>4 DEF NameTaken, Refused, InsertClashes, ArmNew, NothingToDo, ArmEdited,
                storeVars, docVars
  <2> QED
    BY <2>1, AlonePassive, EndKeeps
<1>5. CASE \/ NameFree(r) \/ CreateAccepted(r) \/ DisarmThenSave(r) \/ SaveFirst(r)
           \/ DisarmThenDelete(r)
  <2>1. Busy(r) /\ RequestOK(r) /\ doc' = doc
    BY <1>5 DEF NamesInv, NameFree, CreateAccepted, DisarmThenSave, SaveFirst, DisarmThenDelete,
                Reaches, At, storeVars, docVars
  <2>2. PICK step : Goto(r, step) /\ OnPath(req[r].op, step)
                    /\ (Creating(req[r].op, step) <=> Creating(req[r].op, req[r].at))
    BY <1>5, <2>1 DEF NameFree, CreateAccepted, DisarmThenSave, SaveFirst, DisarmThenDelete,
                      Reaches, At, RequestOK, OnPath, Creating, Editing
  <2> QED
    BY <2>1, <2>2, AlonePassive, MoveKeeps
<1>6. CASE WriteMissed(r)
  <2>1. /\ Busy(r) /\ RequestOK(r) /\ doc' = doc /\ (Return(r) \/ Goto(r, "arm"))
        /\ req[r].at = "write"
    BY <1>6 DEF NamesInv, WriteMissed, At, storeVars, docVars
  <2>2. OnPath(req[r].op, "arm") /\ req[r].op # "create"
    BY <2>1 DEF RequestOK, OnPath
  <2> QED
    BY <2>1, <2>2, AlonePassive, EndKeeps, MoveKeeps DEF Creating
<1> QED
  BY <1>1, <1>2, <1>3, <1>4, <1>5, <1>6 DEF RequestStep

LEMMA FailsKeep ==
    ASSUME NamesInv, NEW r \in Clients, Clash(r) \/ StepFails(r)
    PROVE  NamesInv' /\ Held' = Held
<1>1. doc' = doc
  BY DEF Clash, WriteClashes, RevertClashes, StepFails, storeVars, docVars
<1>2. CASE Return(r)
  BY <1>1, <1>2, AlonePassive, EndKeeps
<1>3. CASE ~Return(r)
  <2>1. StepFails(r) /\ Busy(r) /\ RequestOK(r)
    BY <1>3 DEF Clash, WriteClashes, RevertClashes, StepFails, NamesInv
  <2>2. \/ req[r].at = "armNew" /\ Goto(r, "uncreate")
        \/ req[r].at = "arm" /\ Goto(r, "revert")
    BY <1>3, <2>1 DEF StepFails, At
  <2>3. PICK step : Goto(r, step) /\ OnPath(req[r].op, step)
                    /\ (Creating(req[r].op, step) <=> Creating(req[r].op, req[r].at))
    BY <2>1, <2>2 DEF RequestOK, OnPath, Creating
  <2> QED
    BY <1>1, <2>1, <2>3, AlonePassive, MoveKeeps
<1> QED
  BY <1>2, <1>3

\* A lost reply writes what the step would have, or leaves the documents alone.
LEMMA ReplyLostNames ==
    ASSUME NamesInv, NEW r \in Clients, ReplyLost(r)
    PROVE  NamesInv' /\ [Directory!Next]_Held
<1>1. CASE InsertReplyLost(r)
  BY <1>1, InsertKeeps
<1>2. CASE WriteReplyLost(r)
  BY <1>2, EditKeeps
<1>3. CASE DisarmReplyLost(r)
  <2>1. Return(r) /\ doc' = doc
    BY <1>3 DEF DisarmReplyLost, docVars
  <2> QED
    BY <2>1, AlonePassive, EndKeeps
<1>4. CASE ArmReplyLost(r)
  <2>1. Busy(r) /\ RequestOK(r) /\ doc' = doc
    BY <1>4 DEF NamesInv, ArmReplyLost, At, docVars
  <2>2. PICK step : Goto(r, step) /\ OnPath(req[r].op, step)
                    /\ (Creating(req[r].op, step) <=> Creating(req[r].op, req[r].at))
    BY <1>4, <2>1 DEF ArmReplyLost, At, RequestOK, OnPath, Creating
  <2> QED
    BY <2>1, <2>2, AlonePassive, MoveKeeps
<1> QED
  BY <1>1, <1>2, <1>3, <1>4 DEF ReplyLost

-----------------------------------------------------------------------------
LEMMA InitNames == Init => NamesInv /\ Directory!Init
<1> SUFFICES ASSUME Init PROVE NamesInv /\ Directory!Init
  OBVIOUS
<1>1. /\ DOMAIN doc = Schedules /\ \A s \in Schedules : doc[s] = NoDoc
      /\ DOMAIN req = Clients /\ \A r \in Clients : ~Busy(r)
  BY DEF Init, Busy
<1>2. DOMAIN NoDoc = Fields /\ NoDoc.status = "absent"
  BY FieldsNamed DEF NoDoc
<1>3. NamesInv
  BY <1>1, <1>2 DEF NamesInv, DocsOK, Statuses, Exists, Apart
<1>4. Directory!Init
  BY <1>1, <1>2 DEF Directory!Init, Directory!Free, Held, Exists
<1> QED
  BY <1>3, <1>4

LEMMA NextNames == NamesInv /\ [Next]_vars => NamesInv' /\ [Directory!Next]_Held
<1> SUFFICES ASSUME NamesInv, [Next]_vars PROVE NamesInv' /\ [Directory!Next]_Held
  OBVIOUS
<1>1. ASSUME NEW r \in Clients, Call(r) PROVE NamesInv' /\ [Directory!Next]_Held
  BY <1>1, BeginNames
<1>2. ASSUME NEW r \in Clients, Serve(r) PROVE NamesInv' /\ [Directory!Next]_Held
  BY <1>2, ServeKeeps DEF Serve
<1>3. ASSUME NEW r \in Clients, Clash(r) \/ RequestFault(r) \/ ReplyFault(r)
      PROVE  NamesInv' /\ [Directory!Next]_Held
  BY <1>3, FailsKeep, ReplyLostNames DEF RequestFault, ReplyFault
<1>4. CASE \/ WorkerStarts \/ UNCHANGED vars
           \/ \E s \in Schedules : Skip(s) \/ FindMissing(s) \/ Restore(s) \/ RestoreFails(s)
  <2>1. doc' = doc /\ req' = req
    BY <1>4 DEF WorkerStarts, Skip, FindMissing, Restore, RestoreFails, vars, storeVars, docVars
  <2>2. DocsOK' /\ Held' = Held
    BY <2>1, AlonePassive
  <2> QED
    BY <2>1, <2>2 DEF NamesInv, RequestOK, Fresh, Busy, Named, Editing, Apart
<1> QED
  BY <1>1, <1>2, <1>3, <1>4 DEF Next

\* What requests do to names, with all their races and faults, is what
\* NameDirectory does in single steps, for any callers and requests.
THEOREM KeepsDirectoryAlways == Spec => KeepsDirectory
  BY InitNames, NextNames, PTL DEF Spec, KeepsDirectory, Directory!Spec

-----------------------------------------------------------------------------
(* Which fields a step may change. *)

FieldsKept ==
    \A s \in Schedules : \A f \in Fields :
        Exists(s) /\ doc'[s][f] # doc[s][f] =>
            \E r \in Clients : On(r, s) /\ (f \in Named(r) \/ doc'[s].status = "deleted")

LEMMA MergeKeeps ==
    ASSUME NamesInv, NEW r \in Clients, Busy(r), NEW changes, DOMAIN changes = Named(r),
           doc' = [doc EXCEPT ![req[r].id] = Merge(doc[req[r].id], changes)]
    PROVE  FieldsKept
<1> SUFFICES ASSUME NEW s \in Schedules, NEW f \in Fields, doc'[s][f] # doc[s][f]
             PROVE  On(r, s) /\ f \in Named(r)
  BY DEF FieldsKept
<1>1. s = req[r].id
  BY DEF NamesInv, DocsOK
<1>2. doc'[s][f] = Merge(doc[s], changes)[f] /\ f \in DOMAIN doc[s]
  BY <1>1 DEF NamesInv, DocsOK
<1> QED
  BY <1>1, <1>2 DEF Merge, On

LEMMA StepKeepsFields ==
    ASSUME NamesInv, NEW r \in Clients, RequestStep(r) \/ ReplyLost(r), doc' # doc
    PROVE  FieldsKept
<1>1. RequestOK(r) /\ Busy(r)
  BY DEF NamesInv, RequestStep, NameFree, NameTaken, Refused, CreateAccepted, Insert,
         InsertClashes, ArmNew, Uncreate, NothingToDo, DisarmThenSave, SaveFirst, Write,
         WriteMissed, ArmEdited, Revert, DisarmThenDelete, Remove, Reaches, At,
         ReplyLost, InsertReplyLost, WriteReplyLost, ArmReplyLost, DisarmReplyLost
<1>2. \/ Insert(r) \/ Write(r) \/ Revert(r) \/ Uncreate(r) \/ Remove(r)
      \/ InsertReplyLost(r) \/ WriteReplyLost(r)
  BY DEF RequestStep, NameFree, NameTaken, Refused, CreateAccepted,
         InsertClashes, ArmNew, NothingToDo, DisarmThenSave, SaveFirst,
         WriteMissed, ArmEdited, DisarmThenDelete, storeVars, docVars,
         ReplyLost, ArmReplyLost, DisarmReplyLost
<1>3. CASE Insert(r) \/ InsertReplyLost(r)
  <2>1. ~Exists(req[r].id)
    BY <1>1, <1>3 DEF RequestOK, Insert, InsertReplyLost, At, OnPath, Fresh, Creating, Exists
  <2>2. \A s \in Schedules : Exists(s) => doc'[s] = doc[s]
    BY <1>3, <2>1 DEF Insert, InsertReplyLost, Store, NamesInv, DocsOK
  <2> QED
    BY <2>2 DEF FieldsKept
<1>4. CASE Write(r) \/ WriteReplyLost(r)
  <2>1. DOMAIN Written(r) = Named(r)
    BY <1>1, WrittenFields DEF RequestOK
  <2> QED
    BY <1>1, <1>4, <2>1, MergeKeeps DEF Write, WriteReplyLost, Store, Saved
<1>5. CASE Revert(r)
  <2>1. DOMAIN Before(r) = Named(r)
    BY DEF Before
  <2>2. doc' = [doc EXCEPT ![req[r].id] = Merge(doc[req[r].id], Before(r))]
    BY <1>5 DEF Revert, Reverted
  <2> QED
    BY <1>1, <2>1, <2>2, MergeKeeps
<1>6. CASE Uncreate(r) \/ Remove(r)
  <2>1. doc' = [doc EXCEPT ![req[r].id].status = "deleted"] /\ req[r].id \in Schedules
    BY <1>1, <1>6 DEF Uncreate, Remove, RequestOK
  <2>2. doc'[req[r].id].status = "deleted" /\ On(r, req[r].id)
    BY <1>1, <2>1, FieldsNamed DEF NamesInv, DocsOK, On
  <2>3. \A s \in Schedules \ {req[r].id} : doc'[s] = doc[s]
    BY <2>1 DEF NamesInv, DocsOK
  <2> QED
    BY <2>2, <2>3 DEF FieldsKept
<1> QED
  BY <1>2, <1>3, <1>4, <1>5, <1>6

LEMMA NextKeepsFields == NamesInv /\ [Next]_vars => FieldsKept
<1> SUFFICES ASSUME NamesInv, [Next]_vars PROVE FieldsKept
  OBVIOUS
<1>1. CASE doc' = doc
  BY <1>1 DEF FieldsKept
<1>2. CASE doc' # doc
  <2>1. PICK r \in Clients : RequestStep(r) \/ ReplyLost(r)
    BY <1>2 DEF Next, ReplyFault, Call, Lookup, BeginCreate, Begin, Serve, Clash, WriteClashes, RevertClashes,
                RequestFault, StepFails, WorkerStarts, Skip, FindMissing, Restore, RestoreFails,
                vars, storeVars, docVars
  <2> QED
    BY <1>2, <2>1, StepKeepsFields
<1> QED
  BY <1>1, <1>2

\* A field of a schedule changes only when a request that names it writes: no
\* edit is lost, however many callers edit the same schedule at the same time.
THEOREM OnlyNamedFieldsChangeAlways == Spec => OnlyNamedFieldsChange
<1>1. NamesInv /\ [Next]_vars =>
        [\A s \in Schedules : \A f \in Fields :
           Exists(s) /\ doc'[s][f] # doc[s][f] =>
               \E r \in Clients : On(r, s) /\ (f \in Named(r) \/ doc'[s].status = "deleted")]_vars
  BY NextKeepsFields DEF FieldsKept
<1> QED
  BY <1>1, InitNames, NextNames, PTL DEF Spec, OnlyNamedFieldsChange

-----------------------------------------------------------------------------
(* The mask a read shows in place of a header's value is never stored as   *)
(* one, whatever requests meet on a schedule.  A request that gets past    *)
(* the decision has a stored value for every mask it sends, and keeps it.  *)

Plain(headers) == DOMAIN headers \subseteq HeaderNames /\ \A h \in DOMAIN headers : headers[h] # Mask

HeadersPlain == \A s \in Schedules : Exists(s) => Plain(doc[s].headers)

\* Where a request has still to write what the decision accepted.
Writing(step) == step \in {"insert", "write"}

HeadersRead(r) ==
    /\ req[r].op = "create" => "headers" \in Named(r)
    /\ "headers" \in Named(r) => DOMAIN req[r].changes.headers \subseteq HeaderNames
    /\ Editing(r) => Plain(req[r].seen.headers)
    /\ Writing(req[r].at) => CanUnmask(r)

HeadersInv ==
    /\ NamesInv
    /\ HeadersPlain
    /\ \A r \in Clients : Busy(r) => HeadersRead(r)

LEMMA HeadersNamed == "headers" \in Fields /\ "headers" \in EditableFields
  BY DEF Fields, EditableFields

\* Of the spellings of a name, one comes last.
LEMMA LastSpelling ==
    ASSUME NEW r, NEW h, KeptBy(r, h) # {}, StoredHeaders(r) \subseteq HeaderNames
    PROVE  /\ KeptSpelling(r, h) \in KeptBy(r, h)
           /\ \A g \in KeptBy(r, h) : HeaderRank[g] <= HeaderRank[KeptSpelling(r, h)]
<1>1. KeptBy(r, h) \in SUBSET HeaderNames
  BY DEF KeptBy
<1>2. \E last \in KeptBy(r, h) : \A g \in KeptBy(r, h) : HeaderRank[g] <= HeaderRank[last]
  BY <1>1, HeaderAssumption
<1> QED
  BY <1>2 DEF KeptSpelling

\* What a request that passed the decision stores has no mask in it.
LEMMA UnmaskedHeaders ==
    ASSUME NEW r, CanUnmask(r), "headers" \in Named(r),
           DOMAIN req[r].changes.headers \subseteq HeaderNames,
           req[r].op # "create" => Plain(req[r].seen.headers)
    PROVE  Plain(Written(r).headers)
<1> DEFINE given == req[r].changes.headers
<1>1. /\ "headers" \in DOMAIN Unmasked(r)
      /\ Unmasked(r).headers =
            [h \in DOMAIN given |-> IF h \in Masked(r) THEN req[r].seen.headers[KeptSpelling(r, h)]
                                              ELSE given[h]]
  BY DEF Unmasked, Named
<1>2. Written(r).headers = Unmasked(r).headers
  BY <1>1 DEF Written, Stored, Bounds
<1>3. ASSUME NEW h \in DOMAIN given, h \in Masked(r)
      PROVE  req[r].seen.headers[KeptSpelling(r, h)] # Mask
  <2>1. KeptBy(r, h) # {}
    BY <1>3 DEF CanUnmask
  <2>2. req[r].op # "create" /\ KeptSpelling(r, h) \in DOMAIN req[r].seen.headers
    <3>1. req[r].op # "create"
      BY <2>1 DEF KeptBy, StoredHeaders
    <3>2. StoredHeaders(r) = DOMAIN req[r].seen.headers /\ StoredHeaders(r) \subseteq HeaderNames
      BY <3>1 DEF StoredHeaders, Plain
    <3>3. KeptSpelling(r, h) \in KeptBy(r, h)
      BY <2>1, <3>2, LastSpelling
    <3> QED
      BY <3>1, <3>2, <3>3 DEF KeptBy
  <2> QED
    BY <2>2 DEF Plain
<1>4. \A h \in DOMAIN given : h \notin Masked(r) => given[h] # Mask
  BY DEF Masked
<1> QED
  BY <1>1, <1>2, <1>3, <1>4 DEF Plain

-----------------------------------------------------------------------------
(* Steps that leave the documents alone. *)

LEMMA OthersRead ==
    ASSUME HeadersInv, NEW q \in Clients, req'[q] = req[q]
    PROVE  Busy(q)' => HeadersRead(q)'
  BY DEF HeadersInv, HeadersRead, Busy, Named, Editing, CanUnmask, Masked, KeptBy, StoredHeaders

LEMMA EndReads ==
    ASSUME HeadersInv, NEW r \in Clients, Return(r)
    PROVE  \A q \in Clients : Busy(q)' => HeadersRead(q)'
<1>1. ~Busy(r)' /\ \A q \in Clients \ {r} : req'[q] = req[q]
  BY DEF HeadersInv, NamesInv, Return, Busy
<1> QED
  BY <1>1, OthersRead

LEMMA MoveReads ==
    ASSUME HeadersInv, NEW r \in Clients, Busy(r), NEW step, Goto(r, step),
           Writing(step) => CanUnmask(r)
    PROVE  \A q \in Clients : Busy(q)' => HeadersRead(q)'
<1>1. /\ \A q \in Clients \ {r} : req'[q] = req[q]
      /\ req'[r].at = step /\ req'[r].op = req[r].op
      /\ req'[r].seen = req[r].seen /\ req'[r].changes = req[r].changes
  BY DEF HeadersInv, NamesInv, Goto, RequestOK
<1>2. HeadersRead(r)'
  BY <1>1 DEF HeadersInv, HeadersRead, Named, Editing, CanUnmask, Masked, KeptBy, StoredHeaders
<1> QED
  BY <1>1, <1>2, OthersRead

LEMMA SameHeaders ==
    ASSUME HeadersPlain, doc' = doc PROVE HeadersPlain'
  BY DEF HeadersPlain, Exists

-----------------------------------------------------------------------------
LEMMA BeginHeaders ==
    ASSUME HeadersInv, NEW r \in Clients, Call(r)
    PROVE  HeadersPlain' /\ \A q \in Clients : Busy(q)' => HeadersRead(q)'
<1> PICK s \in Schedules, c \in Calls : Lookup(r, s, c) \/ BeginCreate(r, s, c)
  BY DEF Call
<1>1. PICK seen, step : /\ Begin(r, s, c, seen, step) /\ step \in {"name", "decide"}
                        /\ c.op # "create" => Exists(s) /\ seen = doc[s]
  BY DEF Lookup, BeginCreate
<1>2. /\ \A q \in Clients \ {r} : req'[q] = req[q]
      /\ req'[r].at = step /\ req'[r].op = c.op
      /\ req'[r].seen = seen /\ req'[r].changes = c.changes /\ doc' = doc
  BY <1>1 DEF Begin, HeadersInv, NamesInv, storeVars, docVars
<1>3. /\ c.op = "create" => "headers" \in DOMAIN c.changes
      /\ "headers" \in DOMAIN c.changes => DOMAIN c.changes.headers \subseteq HeaderNames
  BY EditsAssumption, HeadersNamed
<1>4. c.op # "create" => Plain(seen.headers)
  BY <1>1 DEF HeadersInv, HeadersPlain, Plain
<1>5. HeadersRead(r)'
  BY <1>1, <1>2, <1>3, <1>4 DEF HeadersRead, Named, Editing, Writing
<1> QED
  BY <1>2, <1>5, OthersRead, SameHeaders DEF HeadersInv

LEMMA WriteHeaders ==
    ASSUME HeadersInv, NEW r \in Clients, \/ Insert(r) \/ Write(r) \/ Revert(r)
           \/ InsertReplyLost(r) \/ WriteReplyLost(r)
    PROVE  HeadersPlain'
<1> DEFINE s == req[r].id
<1>1. /\ RequestOK(r) /\ HeadersRead(r) /\ s \in Schedules /\ DOMAIN doc = Schedules
      /\ \A q \in Schedules : Exists(q) => DOMAIN doc[q] = Fields /\ Plain(doc[q].headers)
  BY DEF HeadersInv, NamesInv, DocsOK, RequestOK, HeadersPlain, Plain, Insert, Write, Revert, At,
         InsertReplyLost, WriteReplyLost
<1>2. ASSUME NEW d, DOMAIN d = Fields, NEW changes, DOMAIN changes = Named(r),
             "headers" \in Named(r) => Plain(changes.headers),
             "headers" \notin Named(r) => Plain(d.headers),
             doc' = [doc EXCEPT ![s] = Merge(d, changes)]
      PROVE  HeadersPlain'
  <2>1. Plain(Merge(d, changes).headers)
    BY <1>2, HeadersNamed DEF Merge
  <2>2. doc'[s] = Merge(d, changes) /\ \A q \in Schedules \ {s} : doc'[q] = doc[q]
    BY <1>1, <1>2
  <2> QED
    BY <1>1, <2>1, <2>2 DEF HeadersPlain, Plain, Exists
<1>3. DOMAIN Written(r) = Named(r)
  BY <1>1, WrittenFields DEF RequestOK
<1>4. CASE Insert(r) \/ InsertReplyLost(r)
  <2>1. CanUnmask(r) /\ req[r].op = "create" /\ "headers" \in Named(r)
    BY <1>1, <1>4 DEF HeadersRead, Writing, Insert, InsertReplyLost, At, RequestOK, OnPath
  <2>2. Plain(Written(r).headers)
    BY <1>1, <2>1, UnmaskedHeaders DEF HeadersRead
  <2> QED
    BY <1>1, <1>2, <1>3, <1>4, <2>1, <2>2 DEF Insert, InsertReplyLost, Store, RequestOK
<1>5. CASE Write(r) \/ WriteReplyLost(r)
  <2>1. CanUnmask(r) /\ Plain(req[r].seen.headers)
    BY <1>1, <1>5 DEF HeadersRead, Writing, Write, WriteReplyLost, At, RequestOK, OnPath, Editing
  <2>2. "headers" \in Named(r) => Plain(Written(r).headers)
    BY <1>1, <2>1, UnmaskedHeaders DEF HeadersRead
  <2> QED
    BY <1>1, <1>2, <1>3, <1>5, <2>2 DEF Write, WriteReplyLost, Store, Saved
<1>6. CASE Revert(r)
  <2>1. Plain(req[r].seen.headers)
    BY <1>1, <1>6 DEF HeadersRead, Revert, At, RequestOK, OnPath, Editing
  <2>2. DOMAIN Before(r) = Named(r) /\ ("headers" \in Named(r) => Plain(Before(r).headers))
    BY <2>1 DEF Before
  <2>3. CASE Exists(s)
    BY <1>1, <1>2, <1>6, <2>2, <2>3 DEF Revert, Reverted
  <2>4. CASE ~Exists(s)
    BY <1>6, <2>4, SameHeaders DEF Revert, HeadersInv
  <2> QED
    BY <2>3, <2>4
<1> QED
  BY <1>4, <1>5, <1>6

LEMMA DeleteHeaders ==
    ASSUME HeadersInv, NEW r \in Clients, Uncreate(r) \/ Remove(r) PROVE HeadersPlain'
<1>1. req[r].id \in Schedules /\ doc' = [doc EXCEPT ![req[r].id].status = "deleted"]
  BY DEF HeadersInv, NamesInv, RequestOK, Uncreate, Remove, At
<1>2. /\ doc'[req[r].id].status = "deleted"
      /\ \A q \in Schedules \ {req[r].id} : doc'[q] = doc[q]
  BY <1>1, FieldsNamed DEF HeadersInv, NamesInv, DocsOK
<1> QED
  BY <1>1, <1>2 DEF HeadersInv, HeadersPlain, Exists

LEMMA ServeHeaders ==
    ASSUME HeadersInv, NEW r \in Clients, RequestStep(r)
    PROVE  HeadersPlain' /\ \A q \in Clients : Busy(q)' => HeadersRead(q)'
<1>1. CASE Insert(r) \/ Write(r) \/ Revert(r)
  <2>1. Busy(r) /\ (Return(r) \/ Goto(r, "armNew") \/ Goto(r, "arm"))
    BY <1>1 DEF Insert, Write, Revert, At
  <2> QED
    BY <1>1, <2>1, WriteHeaders, EndReads, MoveReads DEF Writing
<1>2. CASE Uncreate(r) \/ Remove(r)
  <2>1. Return(r)
    BY <1>2 DEF Uncreate, Remove
  <2> QED
    BY <1>2, <2>1, DeleteHeaders, EndReads
<1>3. CASE \/ NameTaken(r) \/ Refused(r) \/ InsertClashes(r) \/ ArmNew(r)
           \/ NothingToDo(r) \/ ArmEdited(r)
  <2>1. Return(r) /\ doc' = doc
    BY <1>3 DEF NameTaken, Refused, InsertClashes, ArmNew, NothingToDo, ArmEdited,
                storeVars, docVars
  <2> QED
    BY <2>1, SameHeaders, EndReads DEF HeadersInv
<1>4. CASE \/ NameFree(r) \/ CreateAccepted(r) \/ DisarmThenSave(r) \/ SaveFirst(r)
           \/ DisarmThenDelete(r) \/ WriteMissed(r)
  <2>1. Busy(r) /\ doc' = doc
    BY <1>4 DEF NameFree, CreateAccepted, DisarmThenSave, SaveFirst, DisarmThenDelete,
                WriteMissed, Reaches, At, storeVars, docVars
  <2>2. \/ Return(r)
        \/ \E step : Goto(r, step) /\ (Writing(step) => CanUnmask(r))
    BY <1>4 DEF NameFree, CreateAccepted, DisarmThenSave, SaveFirst, DisarmThenDelete,
                WriteMissed, Acceptable, Writing
  <2> QED
    BY <2>1, <2>2, SameHeaders, EndReads, MoveReads DEF HeadersInv
<1> QED
  BY <1>1, <1>2, <1>3, <1>4 DEF RequestStep

LEMMA FailsHeaders ==
    ASSUME HeadersInv, NEW r \in Clients, Clash(r) \/ StepFails(r)
    PROVE  HeadersPlain' /\ \A q \in Clients : Busy(q)' => HeadersRead(q)'
<1>1. doc' = doc
  BY DEF Clash, WriteClashes, RevertClashes, StepFails, storeVars, docVars
<1>2. Return(r) \/ (Busy(r) /\ (Goto(r, "uncreate") \/ Goto(r, "revert")))
  BY DEF Clash, WriteClashes, RevertClashes, StepFails
<1> QED
  BY <1>1, <1>2, SameHeaders, EndReads, MoveReads DEF HeadersInv, Writing

LEMMA ReplyLostHeaders ==
    ASSUME HeadersInv, NEW r \in Clients, ReplyLost(r)
    PROVE  HeadersPlain' /\ \A q \in Clients : Busy(q)' => HeadersRead(q)'
<1>1. CASE InsertReplyLost(r) \/ WriteReplyLost(r)
  <2>1. Return(r)
    BY <1>1 DEF InsertReplyLost, WriteReplyLost
  <2> QED
    BY <1>1, <2>1, WriteHeaders, EndReads
<1>2. CASE ArmReplyLost(r) \/ DisarmReplyLost(r)
  <2>1. doc' = doc
    BY <1>2 DEF ArmReplyLost, DisarmReplyLost, docVars
  <2>2. Return(r) \/ (Busy(r) /\ (Goto(r, "uncreate") \/ Goto(r, "revert")))
    BY <1>2 DEF ArmReplyLost, DisarmReplyLost, At
  <2> QED
    BY <2>1, <2>2, SameHeaders, EndReads, MoveReads DEF HeadersInv, Writing
<1> QED
  BY <1>1, <1>2 DEF ReplyLost

-----------------------------------------------------------------------------
LEMMA InitHeaders == Init => HeadersInv
<1> SUFFICES ASSUME Init PROVE HeadersInv
  OBVIOUS
<1>1. \A s \in Schedules : ~Exists(s)
  BY FieldsNamed DEF Init, NoDoc, Exists
<1>2. \A r \in Clients : ~Busy(r)
  BY DEF Init, Busy
<1> QED
  BY <1>1, <1>2, InitNames DEF HeadersInv, HeadersPlain

LEMMA NextHeaders == HeadersInv /\ [Next]_vars => HeadersInv'
<1> SUFFICES ASSUME HeadersInv, [Next]_vars
             PROVE  HeadersPlain' /\ \A q \in Clients : Busy(q)' => HeadersRead(q)'
  BY NextNames DEF HeadersInv
<1>1. ASSUME NEW r \in Clients, Call(r) \/ Serve(r) \/ Clash(r) \/ RequestFault(r) \/ ReplyFault(r)
      PROVE  HeadersPlain' /\ \A q \in Clients : Busy(q)' => HeadersRead(q)'
  BY <1>1, BeginHeaders, ServeHeaders, FailsHeaders, ReplyLostHeaders DEF Serve, RequestFault, ReplyFault
<1>2. CASE \/ WorkerStarts \/ UNCHANGED vars
           \/ \E s \in Schedules : Skip(s) \/ FindMissing(s) \/ Restore(s) \/ RestoreFails(s)
  <2>1. doc' = doc /\ req' = req
    BY <1>2 DEF WorkerStarts, Skip, FindMissing, Restore, RestoreFails, vars, storeVars, docVars
  <2> QED
    BY <2>1, OthersRead, SameHeaders DEF HeadersInv
<1> QED
  BY <1>1, <1>2 DEF Next

\* No mask is ever stored as a header's value, for any header names, spellings,
\* callers and requests, and whatever fails.
THEOREM MaskNeverStoredAlways == Spec => []MaskNeverStored
<1>1. HeadersInv => MaskNeverStored
  BY DEF HeadersInv, HeadersPlain, Plain, MaskNeverStored
<1> QED
  BY <1>1, InitHeaders, NextHeaders, PTL DEF Spec
==============================================================================
