-------------------------- MODULE JournalLifecycle --------------------------
(***************************************************************************)
(* The version 1 lifecycle of one mutation plan: every record that         *)
(* applyTransition can produce from a prepared one, and so every record a  *)
(* journal directory may hold when the frozen reader and the migration     *)
(* meet it.  CompareAndSwap refuses all of it in this release.             *)
(*                                                                         *)
(* The wall clock may be set at any time: each step reads any instant.     *)
(***************************************************************************)
EXTENDS JournalRecord, Sequences

VARIABLES record,
          uses    \* history: the instants at which a receipt was consumed

vars == <<record, uses>>

validateRecord(r) ==
    /\ r.version = 1 /\ r.revision # 0 /\ r.updated >= r.created
    /\ r.attempts <= 1 /\ r.evidence <= MaxEvidence
    /\ r.receipt # None => r.receipt.bound
    /\ r.outcome # None => validateOutcome(r.outcome)
    /\ Shape(r)

allowedTransition(from) ==
    CASE from = "prepared"  -> {"confirmed", "canceled", "expired"}
      [] from = "confirmed" -> {"in_flight", "canceled", "expired"}
      [] from = "in_flight" -> Dispatched
      [] from = "applied"   -> {"reconciled", "operator_resolution_required"}
      [] from = "ambiguous" -> {"reconciled", "resolved_not_applied",
                                "operator_resolution_required"}
      [] from = "operator_resolution_required" ->
                               {"resolved_applied", "resolved_not_applied"}
      [] OTHER -> {}

Moved(to, t) ==
    [record EXCEPT !.revision = @ + 1, !.state = to, !.updated = t]

Commit(next) ==
    /\ next.state \in allowedTransition(record.state)
    /\ validateRecord(next)
    /\ record' = next

-----------------------------------------------------------------------------
Confirm(t, receipt) ==
    /\ receipt.bound
    /\ Commit([Moved("confirmed", t) EXCEPT !.receipt = receipt])
    /\ UNCHANGED uses

(* Broken variant: a receipt is consumed after it expired.                 *)
ExpiryIgnored(t) == record.receipt # None /\ record.attempts = 0

(* The receipt is consumed before anything is sent.                        *)
MayConsume(t) ==
    /\ record.receipt # None /\ record.attempts = 0
    /\ t < record.receipt.expires

Consume(t) ==
    /\ MayConsume(t)
    /\ Commit([Moved("in_flight", t) EXCEPT !.attempts = 1])
    /\ uses' = Append(uses, t)

Conclude(t, outcome) ==
    /\ record.attempts = 1
    /\ validateOutcome(outcome)
    /\ Commit([Moved(outcome.code, t) EXCEPT !.outcome = outcome])
    /\ UNCHANGED uses

Resolve(t, to) ==
    /\ Commit([Moved(to, t) EXCEPT !.evidence = @ + 1])
    /\ UNCHANGED uses

Close(t, to) ==
    /\ Commit(Moved(to, t))
    /\ UNCHANGED uses

Init ==
    /\ record \in {Pristine(t) : t \in Times}
    /\ uses = <<>>

Next ==
    \E t \in Times :
        \/ \E receipt \in Receipts : Confirm(t, receipt)
        \/ Consume(t)
        \/ \E outcome \in Outcomes : Conclude(t, outcome)
        \/ \E to \in Resolved : Resolve(t, to)
        \/ \E to \in {"canceled", "expired"} : Close(t, to)

Spec == Init /\ [][Next]_vars

-----------------------------------------------------------------------------
(* A receipt of this plan is consumed at most once, before it expires, and *)
(* the record names it ever after: the consumption is never forgotten.     *)
ReceiptSpentOnce ==
    /\ Len(uses) <= 1
    /\ Len(uses) = record.attempts
    /\ \A i \in DOMAIN uses : record.receipt # None /\ uses[i] < record.receipt.expires

(* The transition rules alone keep records valid: what validateRecord      *)
(* refuses after a permitted transition is a clock set before the plan was *)
(* created, never a contradiction between the phases.                      *)
OnlyTheClockRefuses ==
    \A t \in Times, to \in allowedTransition(record.state) :
        LET next == CASE to = "confirmed" ->
                            {[Moved(to, t) EXCEPT !.receipt = r] :
                                 r \in {x \in Receipts : x.bound}}
                      [] to = "in_flight" ->
                            {[Moved(to, t) EXCEPT !.attempts = 1]}
                      [] to \in Dispatched ->
                            {[Moved(to, t) EXCEPT !.outcome = o] :
                                 o \in {x \in Outcomes :
                                            x.code = to /\ validateOutcome(x)}}
                      [] to \in Resolved ->
                            {[Moved(to, t) EXCEPT !.evidence = @ + 1]}
                      [] OTHER -> {Moved(to, t)}
        IN  \A r \in next : validateRecord(r) <=> t >= record.created

(* What the frozen reader makes of a record on disk: every record of the   *)
(* lifecycle is readable, and none that ever left its first revision, or   *)
(* that version 2 cannot spell, is offered to the migration.               *)
HistoryQuarantined ==
    ClassifyLegacyV1(record) =
        IF record.revision = 1 /\ record.created \notin EarlyTimes
        THEN "migratable" ELSE "quarantine"

(* Why these hold: the record is valid, prepared in its first revision and *)
(* never again, and evidence is added once or twice.                       *)
RecordLegal ==
    /\ record \in LegacyRecords /\ uses \in Seq(Times)
    /\ validateRecord(record)
    /\ record.revision = 1 <=> record.state = "prepared"
    /\ record.state = "prepared" => record.updated = record.created
    /\ record.state = "operator_resolution_required" => record.evidence = 1

(* One plan's life: its receipt is spent once, its rules suffice, and its  *)
(* history is quarantined.                                                 *)
LifecycleInv == RecordLegal /\ ReceiptSpentOnce /\ OnlyTheClockRefuses /\ HistoryQuarantined
=============================================================================
