---------------------------- MODULE LedgerRecord ----------------------------
(***************************************************************************)
(* The rules of internal/operatorwrite/store.go over the contents of a     *)
(* plan's files: what state a reader decodes, and which result Finalize    *)
(* accepts over which record.                                              *)
(***************************************************************************)
EXTENDS LedgerFile

CONSTANTS PlanDoc,  \* the encoded plan
          Result    \* encoded results: records with a field state

ASSUME LedgerContents ==
    /\ PlanDoc \notin {Absent, Torn}
    /\ {Absent, Torn} \cap Result = {}

(* Finalize: outcomes an observation may still advance, the observations,  *)
(* and the outcomes that are final.                                        *)
Unsettled    == {"unknown", "operator_resolution_required"}
Observations == {"reconciled", "operator_resolution_required"}
Settled      == {"applied", "rejected", "reconciled"}

(* readRecord over the three contents a reader under the lock sees.  A     *)
(* result without its claim is never a prepared record.                    *)
DecodedState(plan, claim, result) ==
    IF plan # PlanDoc \/ claim = Torn \/ result = Torn
      THEN "invalid"
    ELSE IF claim = Absent
      THEN IF result = Absent THEN "prepared" ELSE "invalid"
    ELSE IF result = Absent THEN "in_flight" ELSE result.state

(* Record.NonReplayable, for a record that decodes.                        *)
Consumed(state) == state \notin {"invalid", "prepared"}

(* Broken variant: any observation replaces any outcome.                   *)
ReplacesSettled(state, r) == r.state \in Observations

(* Finalize over a record whose attempt is the caller's: the first result  *)
(* of the attempt, or an observation over an outcome still open.           *)
MayCreateResult(state)     == state = "in_flight"
MayReplaceResult(state, r) == state \in Unsettled /\ r.state \in Observations
=============================================================================
