------------------------------ MODULE MCDelivery ------------------------------
(***************************************************************************)
(* Small instances of Delivery for TLC.                                    *)
(***************************************************************************)
EXTENDS Delivery, TLC

Plan(webhook, retries, callback) ==
    [webhook |-> webhook, retries |-> retries, callback |-> callback]

\* A call with a retry and a callback, or no action at all.
TwoPlans == { Plan(TRUE, 1, TRUE), Plan(FALSE, 0, FALSE) }

\* Every number of attempts, with and without a callback, and no action.
AllPlans == { Plan(TRUE, n, c) : n \in 0..MaxRetries, c \in BOOLEAN } \cup { Plan(FALSE, 0, TRUE) }
==============================================================================
