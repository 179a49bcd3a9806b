----------------------------- MODULE NameDirectory -----------------------------
(***************************************************************************)
(* What the owners of schedules may rely on about names: a schedule holds  *)
(* one name of one owner from its creation on, moves to another free name  *)
(* of the same owner in one step, and lets go of it when it is deleted,    *)
(* for good.  ScheduleEdits, where a name is looked up first and written   *)
(* later, is shown to implement this.                                      *)
(***************************************************************************)
CONSTANTS Schedules, Owners, Names

VARIABLE holds     \* holds[s]: Free, Gone, or the <<owner, name>> of schedule s

Free == <<>>
Gone == <<"gone">>

Taken(key) == \E s \in Schedules : holds[s] = key

Holder(s) == holds[s] \notin {Free, Gone}

Claim(s, owner, name) ==
    /\ holds[s] = Free
    /\ ~Taken(<<owner, name>>)
    /\ holds' = [holds EXCEPT ![s] = <<owner, name>>]

Move(s, name) ==
    /\ Holder(s)
    /\ ~Taken(<<holds[s][1], name>>)
    /\ holds' = [holds EXCEPT ![s] = <<holds[s][1], name>>]

Release(s) ==
    /\ Holder(s)
    /\ holds' = [holds EXCEPT ![s] = Gone]

Init == holds = [s \in Schedules |-> Free]

Next ==
    \E s \in Schedules :
        \/ \E owner \in Owners, name \in Names : Claim(s, owner, name)
        \/ \E name \in Names : Move(s, name)
        \/ Release(s)

Spec == Init /\ [][Next]_holds
==============================================================================
