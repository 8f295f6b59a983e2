---------------------------- MODULE JournalRecord ----------------------------
(***************************************************************************)
(* One mutation-journal record (internal/journal): the historical version 1*)
(* record with its whole lifecycle, the prepared version 2 record that     *)
(* replaces it, the frozen reader that classifies version 1 bytes and the  *)
(* marker that quarantines them.                                           *)
(*                                                                         *)
(* A plan, a digest and an evidence text are abstract: the digest of a     *)
(* record is the record, a receipt is its expiry and whether it binds this *)
(* plan, an outcome its code and whether it names a remote entity, evidence*)
(* how many bounded items there are.  Encoding is injective, so equal bytes*)
(* are equal records; Torn stands for bytes no decoder accepts.            *)
(***************************************************************************)
EXTENDS Naturals, LedgerFile

CONSTANTS None,          \* a nil pointer
          Times,         \* wall-clock instants
          EarlyTimes     \* those version 2 cannot spell, such as year 0000

ASSUME TimesAssumption == Times \subseteq Nat /\ EarlyTimes \subseteq Times

Dispatched == {"failed_before_mutation", "applied", "ambiguous"}

Resolved == {"reconciled", "operator_resolution_required",
             "resolved_applied", "resolved_not_applied"}

States == {"prepared", "confirmed", "canceled", "expired", "in_flight"}
              \cup Dispatched \cup Resolved

Receipts == [expires : Times, bound : BOOLEAN]

Outcomes == [code : Dispatched, remote : BOOLEAN]

MaxEvidence == 16

LegacyRecords ==
    [version : {1}, revision : Nat, state : States, receipt : Receipts \cup {None},
     attempts : Nat, outcome : Outcomes \cup {None}, evidence : Nat,
     created : Times, updated : Times]

ASSUME NoValueAssumption ==
    /\ None \notin Receipts /\ None \notin Outcomes
    /\ Absent \notin LegacyRecords /\ Torn \notin LegacyRecords

Pristine(t) ==
    [version |-> 1, revision |-> 1, state |-> "prepared", receipt |-> None,
     attempts |-> 0, outcome |-> None, evidence |-> 0,
     created |-> t, updated |-> t]

validateOutcome(o) == o.remote <=> o.code = "applied"

(* What each state says about the attempt.                                 *)
Shape(r) ==
    LET open == r.outcome = None /\ r.evidence = 0
    IN  \/ r.state = "prepared" /\ r.receipt = None /\ r.attempts = 0 /\ open
        \/ r.state = "confirmed" /\ r.receipt # None /\ r.attempts = 0 /\ open
        \/ r.state \in {"canceled", "expired"} /\ r.attempts = 0 /\ open
        \/ r.state = "in_flight" /\ r.receipt # None /\ r.attempts = 1 /\ open
        \/ /\ r.state \in Dispatched
           /\ r.receipt # None /\ r.attempts = 1 /\ r.evidence = 0
           /\ r.outcome # None /\ r.outcome.code = r.state
        \/ /\ r.state \in Resolved
           /\ r.receipt # None /\ r.attempts = 1 /\ r.evidence > 0
           /\ r.outcome # None /\ r.outcome.code \in {"applied", "ambiguous"}

(* The frozen reader of version 1 bytes.                                   *)
validateLegacyV1Record(r) ==
    /\ r.version = 1 /\ r.revision # 0 /\ r.updated >= r.created
    /\ r.attempts <= 1 /\ r.evidence <= MaxEvidence
    /\ r.receipt # None => r.receipt.bound
    /\ r.outcome # None => validateOutcome(r.outcome)
    /\ Shape(r)

(* Only the record no later phase ever touched, if version 2 can spell it. *)
ClassifyLegacyV1(r) ==
    IF r \in {Absent, Torn} \/ r.version # 1 \/ ~validateLegacyV1Record(r)
    THEN "malformed"
    ELSE IF /\ r.state = "prepared" /\ r.revision = 1 /\ r.attempts = 0
            /\ r.receipt = None /\ r.outcome = None /\ r.evidence = 0
            /\ r.created = r.updated /\ r.created \notin EarlyTimes
         THEN "migratable"
         ELSE "quarantine"

Fresh(t) ==
    [version |-> 2, revision |-> 1, source |-> None, created |-> t, updated |-> t]

Migrated(r, t) ==
    [version |-> 2, revision |-> 2, source |-> r,
     created |-> r.created, updated |-> t]

(* DecodePreparedV2 succeeds: only the prepared branch has a reader.       *)
PreparedV2(r) ==
    /\ r \notin {Absent, Torn} /\ r.version = 2
    /\ {r.created, r.updated} \cap EarlyTimes = {}
    /\ IF r.source = None THEN r.revision = 1 /\ r.created = r.updated
                          ELSE r.revision = 2 /\ r.updated >= r.created

Marker(r, t) == [source |-> r, state |-> r.state, detected |-> t]

(* valid in persistQuarantineMarker: canonical, and about this record.     *)
MarkerFor(m, r) == m \notin {Absent, Torn} /\ m.source = r /\ m.state = r.state
=============================================================================
