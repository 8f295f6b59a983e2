----------------------------- MODULE ConsumeOnce -----------------------------
(***************************************************************************)
(* What the permanent operator-write ledger promises for one plan          *)
(* (docs/operator-writes.md "Decision and threat model"): the right to     *)
(* send the mutation is granted at most once, only after the plan stopped  *)
(* being eligible, and a verdict is final.                                 *)
(***************************************************************************)
CONSTANTS Attempt,  \* those who may ask for the right to send
          Verdict   \* final outcomes

VARIABLES eligible, \* the plan can still be claimed
          granted,  \* attempts that were granted the right to send
          verdict   \* the final outcome, or "open"

pvars == <<eligible, granted, verdict>>

Init == eligible = TRUE /\ granted = {} /\ verdict = "open"

(* A marker of any kind withdraws the plan.                                *)
Withdraw ==
    /\ eligible
    /\ eligible' = FALSE
    /\ UNCHANGED <<granted, verdict>>

(* A marker that never granted anything may be lost with the power.        *)
Forget ==
    /\ ~eligible /\ granted = {} /\ verdict = "open"
    /\ eligible' = TRUE
    /\ UNCHANGED <<granted, verdict>>

Grant ==
    /\ ~eligible /\ granted = {}
    /\ \E a \in Attempt : granted' = {a}
    /\ UNCHANGED <<eligible, verdict>>

Settle ==
    /\ ~eligible /\ verdict = "open"
    /\ verdict' \in Verdict
    /\ UNCHANGED <<eligible, granted>>

Next == Withdraw \/ Forget \/ Grant \/ Settle

Spec == Init /\ [][Next]_pvars
=============================================================================
