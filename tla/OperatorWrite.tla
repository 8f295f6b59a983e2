---------------------------- MODULE OperatorWrite ----------------------------
(***************************************************************************)
(* Applying and reconciling one prepared operator-write plan               *)
(* (internal/application/operator_writes.go).  Every process is one        *)
(* invocation of the CLI; invocations share the plan's ledger, the lock    *)
(* files of the profile and of its project policy, the profile's           *)
(* credential generation and policy, and the YouTrack server, where other  *)
(* people and workflows change the target as well.                         *)
(*                                                                         *)
(* A ledger operation is one step: it runs under the plan's own lock file, *)
(* and OperatorLedger models what happens inside.  The server is external: *)
(* it applies or refuses a request at any time after it was sent, and any  *)
(* answer may be lost.                                                     *)
(***************************************************************************)
EXTENDS LedgerRecord, Naturals

CONSTANTS Apply,      \* operator-write apply invocations
          Reconcile,  \* operator-write reconcile invocations
          NoProc,     \* lock held by nobody
          Kinds,      \* the operation kinds the plan may have
          MaxFaults,  \* bound on I/O failures, kills and power losses
          MaxCancels, \* bound on invocations canceled or timed out
          MaxChanges  \* bound on changes of the profile and of its policy

Invocation == Apply \cup Reconcile

AllKinds == {"issue.create", "issue.update", "comment.add", "comment.delete"}

ASSUME WriteConstants ==
    /\ Apply \cap Reconcile = {}
    /\ {NoProc, Absent, Torn} \cap Invocation = {}
    /\ Kinds \subseteq AllKinds
    /\ MaxFaults \in Nat /\ MaxCancels \in Nat /\ MaxChanges \in Nat
    /\ Result = [state : Settled \cup Unsettled, rid : BOOLEAN]

VARIABLES
    \* the plan and its ledger
    kind,          \* Snapshot.Kind
    claim,         \* the file ID.claim: an attempt is named by its invocation
    result,        \* the file ID.result
    \* local authorization
    generation,    \* CredentialGeneration of the profile
    policy,        \* the project policy of the profile
    profileLock,   \* holder of the profile's lock
    policyLock,    \* holder of the policy's lock
    \* the server
    edited,        \* the target is no longer as the snapshot froze it
    request,       \* the mutation request each apply has sent
    \* the invocations
    pc,            \* where each invocation is
    outcome,       \* the result each invocation is about to record
    canceled,      \* invocations whose context is done
    \* bounds and history
    faults, cancels, changes,
    staleAtStart   \* applies that began when the target had changed

ledgerVars == <<kind, claim, result>>
localVars  == <<generation, policy, profileLock, policyLock>>
serverVars == <<edited, request>>
boundVars  == <<faults, cancels, changes>>
vars == <<ledgerVars, localVars, serverVars, pc, outcome, canceled, boundVars, staleAtStart>>

Policies == [revision : Nat, projects : {"none", "listed", "other"}]
NoPolicy == [revision |-> 0, projects |-> "none"]

(* The binding the snapshot froze (Binding, types.go).                     *)
BoundPolicy     == [revision |-> 1, projects |-> "listed"]
BoundGeneration == 0

ApplyAt     == {"idle", "client", "remote", "lock", "policy", "verify", "claim", "send", "wait", "record", "done"}
ReconcileAt == {"idle", "client", "observe", "save", "done"}
Requests    == {"none", "pending", "applied", "refused"}

TypeOK ==
    /\ kind \in Kinds
    /\ claim \in FileOf({Absent, Torn} \cup Apply)
    /\ result \in FileOf({Absent, Torn} \cup Result)
    /\ generation \in Nat
    /\ policy \in Policies
    /\ profileLock \in Apply \cup {NoProc}
    /\ policyLock \in Apply \cup {NoProc}
    /\ edited \in BOOLEAN
    /\ request \in [Apply -> Requests]
    /\ pc \in [Invocation -> ApplyAt \cup ReconcileAt]
    /\ outcome \in [Invocation -> Result]
    /\ canceled \subseteq Invocation
    /\ faults \in 0 .. MaxFaults /\ cancels \in 0 .. MaxCancels /\ changes \in 0 .. MaxChanges
    /\ staleAtStart \subseteq Apply

Outcome(state, rid) == [state |-> state, rid |-> rid]
NoOutcome == Outcome("unknown", FALSE)

Init ==
    /\ kind \in Kinds
    /\ claim = Missing /\ result = Missing
    /\ generation = BoundGeneration /\ policy = BoundPolicy
    /\ profileLock = NoProc /\ policyLock = NoProc
    /\ edited = FALSE
    /\ request = [a \in Apply |-> "none"]
    /\ pc = [p \in Invocation |-> "idle"]
    /\ outcome = [p \in Invocation |-> NoOutcome]
    /\ canceled = {}
    /\ faults = 0 /\ cancels = 0 /\ changes = 0
    /\ staleAtStart = {}

-----------------------------------------------------------------------------
(* Helpers.                                                                *)

State == DecodedState(PlanDoc, claim.seen, result.seen)

(* checkOperatorBinding: exact generation, policy and listed project.      *)
BindingHolds == generation = BoundGeneration /\ policy = BoundPolicy

Goto(p, l) == pc' = [pc EXCEPT ![p] = l]

Live(p, l) == pc[p] = l /\ p \notin canceled

Fault == faults < MaxFaults /\ faults' = faults + 1

Released(lock, p) == IF lock = p THEN NoProc ELSE lock

(* The callbacks of WithPolicyLock and WithProfileLock return.             *)
ReleaseLocks(p) ==
    /\ profileLock' = Released(profileLock, p)
    /\ policyLock' = Released(policyLock, p)

(* verifyOperatorRemote: every frozen value is read back unchanged.        *)
RemoteUnchanged == ~edited

(* A created issue or an added comment has an identity to look for.        *)
Observable == kind \in {"issue.create", "comment.add"}

-----------------------------------------------------------------------------
(* ApplyOperatorWrite.                                                     *)

(* Get, the refusals that need no credential, and the first binding check. *)
ApplyBegin(p) ==
    /\ Live(p, "idle")
    /\ State = "prepared"
    /\ BindingHolds
    /\ Goto(p, "client")
    /\ staleAtStart' = IF edited THEN staleAtStart \cup {p} ELSE staleAtStart
    /\ UNCHANGED <<ledgerVars, localVars, serverVars, outcome, canceled, boundVars>>

(* client: under the profile lock, released again before anything is sent. *)
(* loadBoundCredential refuses a credential of another generation only for *)
(* the profile as it is now, so a re-login does not stop this step.        *)
ApplyClient(p) ==
    /\ Live(p, "client")
    /\ profileLock = NoProc
    /\ Goto(p, IF kind = "comment.delete" THEN "lock" ELSE "remote")
    /\ UNCHANGED <<ledgerVars, localVars, serverVars, outcome, canceled, boundVars, staleAtStart>>

(* The fresh remote precondition of every kind but a deletion.             *)
ApplyRemote(p) ==
    /\ Live(p, "remote")
    /\ RemoteUnchanged
    /\ Goto(p, "lock")
    /\ UNCHANGED <<ledgerVars, localVars, serverVars, outcome, canceled, boundVars, staleAtStart>>

ApplyLock(p) ==
    /\ Live(p, "lock")
    /\ profileLock = NoProc
    /\ profileLock' = p
    /\ Goto(p, "policy")
    /\ UNCHANGED <<ledgerVars, generation, policy, policyLock, serverVars, outcome, canceled, boundVars, staleAtStart>>

(* Broken variant: the binding is not read again under the locks.          *)
PolicyNotRechecked(p) ==
    /\ Live(p, "policy")
    /\ policyLock = NoProc
    /\ policyLock' = p
    /\ Goto(p, IF kind = "comment.delete" THEN "verify" ELSE "claim")
    /\ UNCHANGED <<ledgerVars, generation, policy, profileLock, serverVars, outcome, canceled, boundVars, staleAtStart>>

(* The policy lock, then the binding once more under both locks.           *)
ApplyPolicy(p) ==
    /\ Live(p, "policy")
    /\ policyLock = NoProc
    /\ BindingHolds
    /\ policyLock' = p
    /\ Goto(p, IF kind = "comment.delete" THEN "verify" ELSE "claim")
    /\ UNCHANGED <<ledgerVars, generation, policy, profileLock, serverVars, outcome, canceled, boundVars, staleAtStart>>

(* A deletion verifies account, issue and comment inside the locks.        *)
ApplyVerify(p) ==
    /\ Live(p, "verify")
    /\ RemoteUnchanged
    /\ Goto(p, "claim")
    /\ UNCHANGED <<ledgerVars, localVars, serverVars, outcome, canceled, boundVars, staleAtStart>>

(* Broken variant: the claim is written over what the ledger holds.        *)
ClaimUnchecked(p) ==
    /\ Live(p, "claim")
    /\ claim' = CreateSuccess(claim, p)
    /\ Goto(p, "send")
    /\ UNCHANGED <<kind, result, localVars, serverVars, outcome, canceled, boundVars, staleAtStart>>

(* Claim returns an attempt: the marker is durable.                        *)
ApplyClaim(p) ==
    /\ Live(p, "claim")
    /\ State = "prepared"
    /\ claim' = CreateSuccess(claim, p)
    /\ Goto(p, "send")
    /\ UNCHANGED <<kind, result, localVars, serverVars, outcome, canceled, boundVars, staleAtStart>>

(* Claim fails in create: whatever is left of the marker stays.            *)
ApplyClaimFails(p) ==
    /\ Live(p, "claim")
    /\ State = "prepared"
    /\ Fault
    /\ claim' \in CreateFailures(claim, p)
    /\ Goto(p, "done")
    /\ ReleaseLocks(p)
    /\ UNCHANGED <<kind, result, generation, policy, serverVars, outcome, canceled, cancels, changes, staleAtStart>>

(* Any refusal or error before the claim, a lock timeout included, ends    *)
(* the invocation and releases what it holds.                              *)
ApplyRefused(p) ==
    /\ pc[p] \in {"client", "remote", "lock", "policy", "verify", "claim"}
    /\ Goto(p, "done")
    /\ ReleaseLocks(p)
    /\ UNCHANGED <<ledgerVars, generation, policy, serverVars, outcome, canceled, boundVars, staleAtStart>>

(* dispatchOperatorWrite: one POST or DELETE; a context that is already    *)
(* done sends nothing and its error is an unknown outcome.                 *)
ApplySend(p) ==
    /\ pc[p] = "send"
    /\ IF p \in canceled
         THEN /\ outcome' = [outcome EXCEPT ![p] = NoOutcome]
              /\ Goto(p, "record")
              /\ UNCHANGED request
         ELSE /\ request' = [request EXCEPT ![p] = "pending"]
              /\ Goto(p, "wait")
              /\ UNCHANGED outcome
    /\ UNCHANGED <<ledgerVars, localVars, edited, canceled, boundVars, staleAtStart>>

(* Broken variant: a request without an answer counts as rejected.         *)
TimeoutRejects(p, r) ==
    \/ r = Outcome("applied", TRUE)   /\ request[p] = "applied"
    \/ r = Outcome("rejected", FALSE) /\ request[p] # "applied"

(* What the invocation may conclude (translateWriteStatus, AddComment,     *)
(* CreateIssue, UpdateIssue, DeleteComment): success only of an applied    *)
(* and verified request, a rejection only of a typed refusal, otherwise    *)
(* unknown, with the identity when an answer named one that failed the     *)
(* verification.                                                           *)
Concludes(p, r) ==
    \/ r = Outcome("unknown", FALSE)
    \/ r = Outcome("unknown", TRUE)   /\ request[p] = "applied" /\ Observable
    \/ r = Outcome("applied", TRUE)   /\ request[p] = "applied"
    \/ r = Outcome("rejected", FALSE) /\ request[p] = "refused"

ApplyAnswer(p) ==
    /\ pc[p] = "wait"
    /\ \E r \in Result : Concludes(p, r) /\ outcome' = [outcome EXCEPT ![p] = r]
    /\ Goto(p, "record")
    /\ UNCHANGED <<ledgerVars, localVars, serverVars, canceled, boundVars, staleAtStart>>

(* Broken variant: a canceled invocation does not record its outcome.      *)
RecordUnlessCanceled(p) ==
    /\ pc[p] = "record"
    /\ IF p \notin canceled /\ claim.seen = p /\ MayCreateResult(State)
         THEN result' = CreateSuccess(result, outcome[p])
         ELSE UNCHANGED result
    /\ Goto(p, "done")
    /\ ReleaseLocks(p)
    /\ UNCHANGED <<kind, claim, generation, policy, serverVars, outcome, canceled, boundVars, staleAtStart>>

(* Finalize under context.WithoutCancel, then both locks are released.     *)
ApplyRecord(p) ==
    /\ pc[p] = "record"
    /\ IF claim.seen = p /\ MayCreateResult(State)
         THEN result' = CreateSuccess(result, outcome[p])
         ELSE UNCHANGED result
    /\ Goto(p, "done")
    /\ ReleaseLocks(p)
    /\ UNCHANGED <<kind, claim, generation, policy, serverVars, outcome, canceled, boundVars, staleAtStart>>

ApplyRecordFails(p) ==
    /\ pc[p] = "record"
    /\ Fault
    /\ IF claim.seen = p /\ MayCreateResult(State)
         THEN result' \in CreateFailures(result, outcome[p])
         ELSE UNCHANGED result
    /\ Goto(p, "done")
    /\ ReleaseLocks(p)
    /\ UNCHANGED <<kind, claim, generation, policy, serverVars, outcome, canceled, cancels, changes, staleAtStart>>

-----------------------------------------------------------------------------
(* ReconcileOperatorWrite.                                                 *)

(* Get before any lock: a terminal record is returned as it is, an open    *)
(* one is kept, with the identity its result named, for what follows.      *)
ReconcileBegin(p) ==
    /\ Live(p, "idle")
    /\ State \in Unsettled \cup {"in_flight"}
    /\ BindingHolds
    /\ outcome' = [outcome EXCEPT ![p] =
          Outcome("operator_resolution_required", State # "in_flight" /\ result.seen.rid)]
    /\ Goto(p, "client")
    /\ UNCHANGED <<ledgerVars, localVars, serverVars, canceled, boundVars, staleAtStart>>

(* client waits for the profile lock, which a running apply holds.         *)
ReconcileClient(p) ==
    /\ Live(p, "client")
    /\ profileLock = NoProc
    /\ Goto(p, "observe")
    /\ UNCHANGED <<ledgerVars, localVars, serverVars, outcome, canceled, boundVars, staleAtStart>>

(* A bounded read can find the marker, the author and the creation time of *)
(* this plan's own effect (observeCreatedIssue, operatorCommentMatches).   *)
Evidence == Observable /\ \E a \in Apply : request[a] = "applied"

(* One bounded observation: an exact or unique match proves the effect,    *)
(* anything else proves nothing.                                           *)
ReconcileObserve(p) ==
    /\ Live(p, "observe")
    /\ \/ Evidence /\ outcome' = [outcome EXCEPT ![p] = Outcome("reconciled", TRUE)]
       \/ UNCHANGED outcome
    /\ Goto(p, "save")
    /\ UNCHANGED <<ledgerVars, localVars, serverVars, canceled, boundVars, staleAtStart>>

(* Finalize with the attempt read at the beginning, over the record as it  *)
(* is now; an equal result is left alone, a settled one refuses.           *)
ReconcileSave(p) ==
    /\ Live(p, "save")
    /\ IF MayCreateResult(State) THEN result' = CreateSuccess(result, outcome[p])
       ELSE IF MayReplaceResult(State, outcome[p]) /\ result.seen # outcome[p]
         THEN result' = ReplaceSuccess(result, outcome[p])
       ELSE UNCHANGED result
    /\ Goto(p, "done")
    /\ UNCHANGED <<kind, claim, localVars, serverVars, outcome, canceled, boundVars, staleAtStart>>

ReconcileSaveFails(p) ==
    /\ Live(p, "save")
    /\ Fault
    /\ \/ MayCreateResult(State) /\ result' \in CreateFailures(result, outcome[p])
       \/ MayReplaceResult(State, outcome[p]) /\ result' \in ReplaceFailures(result, outcome[p])
       \/ UNCHANGED result
    /\ Goto(p, "done")
    /\ UNCHANGED <<kind, claim, localVars, serverVars, outcome, canceled, cancels, changes, staleAtStart>>

ReconcileGivesUp(p) ==
    /\ pc[p] \in {"client", "observe", "save"}
    /\ Goto(p, "done")
    /\ UNCHANGED <<ledgerVars, localVars, serverVars, outcome, canceled, boundVars, staleAtStart>>

-----------------------------------------------------------------------------
(* The environment.                                                        *)

(* The server acts on a request that reached it, before or after the       *)
(* client stopped waiting.  A mutation of an existing issue changes the    *)
(* target's own updated timestamp.                                         *)
ServerApplies(a) ==
    /\ request[a] = "pending"
    /\ request' = [request EXCEPT ![a] = "applied"]
    /\ edited' = (edited \/ kind # "issue.create")
    /\ UNCHANGED <<ledgerVars, localVars, pc, outcome, canceled, boundVars, staleAtStart>>

ServerRefuses(a) ==
    /\ request[a] = "pending"
    /\ request' = [request EXCEPT ![a] = "refused"]
    /\ UNCHANGED <<ledgerVars, localVars, edited, pc, outcome, canceled, boundVars, staleAtStart>>

(* Somebody else changes the target.                                       *)
ForeignEdit ==
    /\ ~edited
    /\ edited' = TRUE
    /\ UNCHANGED <<ledgerVars, localVars, request, pc, outcome, canceled, boundVars, staleAtStart>>

(* auth login under the profile lock: a new credential generation.         *)
Login ==
    /\ changes < MaxChanges /\ changes' = changes + 1
    /\ profileLock = NoProc
    /\ generation' = generation + 1
    /\ UNCHANGED <<ledgerVars, policy, profileLock, policyLock, serverVars, pc, outcome, canceled, faults, cancels, staleAtStart>>

(* SetPolicy under the profile lock and then the policy lock: the whole    *)
(* list is replaced and the revision counts from the stored policy.        *)
SetPolicy ==
    /\ changes < MaxChanges /\ changes' = changes + 1
    /\ profileLock = NoProc /\ policyLock = NoProc
    /\ \E projects \in {"listed", "other"} :
          policy' = [revision |-> policy.revision + 1, projects |-> projects]
    /\ UNCHANGED <<ledgerVars, generation, profileLock, policyLock, serverVars, pc, outcome, canceled, faults, cancels, staleAtStart>>

(* ClearPolicy under the same locks: the policy and its revision are gone. *)
ClearPolicy ==
    /\ changes < MaxChanges /\ changes' = changes + 1
    /\ profileLock = NoProc /\ policyLock = NoProc
    /\ policy # NoPolicy
    /\ policy' = NoPolicy
    /\ UNCHANGED <<ledgerVars, generation, profileLock, policyLock, serverVars, pc, outcome, canceled, faults, cancels, staleAtStart>>

(* An interrupt or the command's own timeout ends a context.               *)
Cancel(p) ==
    /\ cancels < MaxCancels /\ cancels' = cancels + 1
    /\ pc[p] \notin {"idle", "done"} /\ p \notin canceled
    /\ canceled' = canceled \cup {p}
    /\ UNCHANGED <<ledgerVars, localVars, serverVars, pc, outcome, faults, changes, staleAtStart>>

(* A process is killed: the kernel releases its locks.  A kill inside a    *)
(* ledger operation leaves what a failure of it leaves.                    *)
Kill(p) ==
    /\ Fault
    /\ pc[p] \notin {"idle", "done"}
    /\ Goto(p, "done")
    /\ ReleaseLocks(p)
    /\ UNCHANGED <<ledgerVars, generation, policy, serverVars, outcome, canceled, cancels, changes, staleAtStart>>

(* Every running invocation dies and unsynced files may be lost.           *)
PowerLoss ==
    /\ Fault
    /\ \E c \in claim.disk, r \in result.disk : claim' = Stored(c) /\ result' = Stored(r)
    /\ profileLock' = NoProc /\ policyLock' = NoProc
    /\ pc' = [p \in Invocation |-> IF pc[p] = "idle" THEN "idle" ELSE "done"]
    /\ UNCHANGED <<kind, generation, policy, serverVars, outcome, canceled, cancels, changes, staleAtStart>>

-----------------------------------------------------------------------------
ApplyStep(p) ==
    \/ ApplyClient(p) \/ ApplyRemote(p) \/ ApplyLock(p) \/ ApplyPolicy(p) \/ ApplyVerify(p)
    \/ ApplyClaim(p) \/ ApplyClaimFails(p) \/ ApplyRefused(p)
    \/ ApplySend(p) \/ ApplyAnswer(p) \/ ApplyRecord(p) \/ ApplyRecordFails(p)

ReconcileStep(p) ==
    \/ ReconcileClient(p) \/ ReconcileObserve(p)
    \/ ReconcileSave(p) \/ ReconcileSaveFails(p) \/ ReconcileGivesUp(p)

Environment ==
    \/ \E a \in Apply : ServerApplies(a) \/ ServerRefuses(a)
    \/ ForeignEdit \/ Login \/ SetPolicy \/ ClearPolicy
    \/ \E p \in Invocation : Cancel(p) \/ Kill(p)
    \/ PowerLoss

Next ==
    \/ \E p \in Apply : ApplyBegin(p) \/ ApplyStep(p)
    \/ \E p \in Reconcile : ReconcileBegin(p) \/ ReconcileStep(p)
    \/ Environment

Spec == Init /\ [][Next]_vars

(* A program that was started keeps running: every wait of it, for a lock  *)
(* or for an answer, has a timeout.  Operators, server and faults owe      *)
(* nothing.                                                                *)
Fairness ==
    /\ \A p \in Apply : WF_vars(ApplyStep(p))
    /\ \A p \in Reconcile : WF_vars(ReconcileStep(p))

FairSpec == Spec /\ Fairness

-----------------------------------------------------------------------------
(* One plan sends at most one mutation request, whichever invocations      *)
(* compete, fail or are killed, and whatever a power loss leaves of the    *)
(* claim (ApplyOperatorWrite claims durably before it dispatches).         *)
AtMostOneRequest ==
    \A a, b \in Apply : request[a] # "none" /\ request[b] # "none" => a = b

(* A request leaves only while its invocation holds both locks, the        *)
(* credential generation and policy are the ones the snapshot froze, and   *)
(* no power loss can undo its claim (checkOperatorBinding under the        *)
(* profile and policy locks, then Claim).                                  *)
DispatchAuthorized ==
    [][\A a \in Apply : request[a] = "none" /\ request'[a] # "none" =>
          /\ BindingHolds
          /\ profileLock = a /\ policyLock = a
          /\ claim.disk = {a}]_vars

(* What a result says of the server is so: applied and reconciled name a   *)
(* request that took effect, rejected one that did not and will not.       *)
Truthful(r) ==
    /\ r.state \in {"applied", "reconciled"} => \E a \in Apply : request[a] = "applied"
    /\ r.state = "rejected" => \A a \in Apply : request[a] \in {"none", "refused"}

(* No result that may survive on the disk lies about the server (the       *)
(* outcome classification of ApplyOperatorWrite and the evidence rules of  *)
(* ReconcileOperatorWrite).                                                *)
TruthfulOutcome == \A r \in result.disk \cap Result : Truthful(r)

(* Nobody records a result while an apply is between its claim and its own *)
(* Finalize: a reconcile has to pass the profile lock that the apply holds *)
(* (client in ReconcileOperatorWrite), although it read the record before. *)
NoEarlyVerdict ==
    \A a \in Apply : pc[a] \in {"send", "wait", "record"} => result = Missing

(* An apply that began when the target was no longer what the snapshot     *)
(* froze sends nothing (verifyOperatorRemote).                             *)
StaleRefused == \A a \in Apply : request[a] # "none" => a \notin staleAtStart

Locking     == {"policy", "verify", "claim", "send", "wait", "record"}
Dispatching == {"send", "wait", "record"}
Reconciling == {"client", "observe", "save"}

(* An apply holds its locks exactly where the callbacks of WithProfileLock *)
(* and WithPolicyLock run, and the binding holds from its second check on. *)
LocksFollowProgram ==
    \A a \in Apply :
       /\ profileLock = a <=> pc[a] \in Locking
       /\ policyLock = a <=> pc[a] \in Locking \ {"policy"}
       /\ pc[a] \in Locking \ {"policy"} => BindingHolds

(* What a reader sees may survive, and a name that was never made cannot   *)
(* turn up.                                                                *)
FilesVisible ==
    \A f \in {claim, result} : f.seen \in f.disk /\ (f.seen = Absent => f.disk = {Absent})

(* The claim is durable before the request leaves, and stays.              *)
ClaimBeforeRequest ==
    \A a \in Apply :
       /\ pc[a] \in Dispatching \/ request[a] # "none" => claim = Stored(a)
       /\ pc[a] \notin {"wait", "record", "done"} => request[a] = "none"

(* A reconcile runs over a claimed plan, and is past the profile lock only *)
(* when no apply is between its claim and its Finalize.                    *)
ReconcileAfterApply ==
    \A p \in Reconcile :
       /\ pc[p] \in Reconciling => claim.seen \in Apply
       /\ pc[p] \in {"observe", "save"} => \A a \in Apply : pc[a] \notin Dispatching

(* What is about to be recorded is true when it is concluded and until it  *)
(* is recorded.                                                            *)
ConcludedTruly ==
    /\ \A a \in Apply : pc[a] = "record" => Truthful(outcome[a])
    /\ \A p \in Reconcile : pc[p] \in Reconciling => outcome[p].state \in Observations /\ Truthful(outcome[p])

(* A stale apply gets no further than the first comparison with the        *)
(* server, which comes inside the locks for a deletion.                    *)
StaleStopped ==
    \A a \in staleAtStart :
       /\ edited
       /\ pc[a] \in {"client", "remote", "done"} \/ (kind = "comment.delete" /\ pc[a] \in {"lock", "policy", "verify"})

(* What holds of the request while invocations compete, and what it rests  *)
(* on: the invariant is inductive together with TruthfulOutcome.           *)
WriteInv ==
    /\ TypeOK
    /\ AtMostOneRequest /\ NoEarlyVerdict /\ StaleRefused
    /\ LocksFollowProgram /\ FilesVisible
    /\ ClaimBeforeRequest /\ ReconcileAfterApply
    /\ ConcludedTruly /\ StaleStopped

(* The claimed plan implements the abstract promise of ConsumeOnce with    *)
(* the request itself, not only the grant, as what happens once.           *)
Recorded(f) == f.disk = {f.seen} /\ f.seen \in Result /\ f.seen.state \in Settled
Promise == INSTANCE ConsumeOnce WITH
    eligible <- claim.seen = Absent /\ result.seen = Absent,
    granted  <- {a \in Apply : request[a] # "none"},
    verdict  <- IF Recorded(result) THEN result.seen.state ELSE "open",
    Attempt  <- Apply,
    Verdict  <- Settled
ImplementsConsumeOnce == Promise!Spec

(* A claimed plan ends with a recorded outcome even when the invocation is *)
(* canceled while its request is in flight, unless I/O fails or it is      *)
(* killed (Finalize runs under context.WithoutCancel).                     *)
OutcomeRecorded ==
    \A a \in Apply : claim.seen = a ~> result.disk # {} /\ result.disk \subseteq Result

(* docs/operator-writes.md "Outcome matrix": the local record keeps the    *)
(* identity that an unverified answer named, and reconcile reads exactly   *)
(* that one.                                                               *)
RemoteIdentityKept ==
    [][result.seen \in Result /\ result.seen.rid => result'.seen \in Result /\ result'.seen.rid]_vars

(* docs/operator-writes.md "Lifetime": changing the bound credential  *)
(* generation or project policy invalidates applicability, so a plan is    *)
(* dispatched only if neither changed since it was prepared.               *)
ChangeInvalidates ==
    [][\A a \in Apply : request[a] = "none" /\ request'[a] # "none" => changes = 0]_vars
=============================================================================
