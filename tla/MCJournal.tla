----------------------------- MODULE MCJournal ------------------------------
(* The journal of mutations, one part at a time: callers that create and   *)
(* migrate the record of one plan, and the life of a record by the rules   *)
(* of version 1.  A behaviour is of one part; the variables of the other   *)
(* keep their first value.                                                 *)
EXTENDS JournalMigration

VARIABLES part, plan, uses

Lifecycle == INSTANCE JournalLifecycle WITH record <- plan

MCTimes == 0 .. 2

MCEarlyTimes == {0}

Canceled == [Pristine(1) EXCEPT !.revision = 2, !.state = "canceled", !.updated = 2]

MCHistorical == {Pristine(0), Pristine(1), Canceled}

MCInit ==
    /\ part \in {"migration", "lifecycle"}
    /\ Init /\ Lifecycle!Init
    /\ part = "migration" => plan.created = 0
    /\ part = "lifecycle" => record = Missing

MCNext ==
    /\ UNCHANGED part
    /\ \/ part = "migration" /\ Next /\ UNCHANGED <<plan, uses>>
       \/ part = "lifecycle" /\ Lifecycle!Next /\ UNCHANGED vars
       \/ part = "lifecycle" /\ UNCHANGED <<vars, plan, uses>>   \* a record's life may end

MCSpec == MCInit /\ [][MCNext]_<<part, vars, plan, uses>>

-----------------------------------------------------------------------------
(* One plan's life: a receipt is spent once, the transition rules keep     *)
(* records valid, and the frozen reader quarantines all of its history.    *)
LifecycleSound == part = "lifecycle" => Lifecycle!LifecycleInv
=============================================================================
