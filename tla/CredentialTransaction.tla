------------------------ MODULE CredentialTransaction ------------------------
(***************************************************************************)
(* One profile name and its credential (internal/auth/transaction.go, the  *)
(* client and profile operations of internal/application/service.go).      *)
(* The profile is metadata in the registry file, the credential an item of *)
(* the Keychain; no single write changes both, so login and logout write   *)
(* one after the other under the profile's lock and undo the first when    *)
(* the second fails.  A login reads the profile and verifies the account   *)
(* before it takes the lock; readers hold the lock shared; a client whose  *)
(* access token is due refreshes it under the lock.                        *)
(*                                                                         *)
(* Every process is one invocation.  The Keychain and the OAuth server are *)
(* external: an item changes as a whole or not at all, and the server may  *)
(* rotate a refresh token although the answer is lost.                     *)
(***************************************************************************)
EXTENDS LedgerFile, Naturals

CONSTANTS Login,      \* auth login and auth import-token invocations
          Confirmed,  \* those that may replace a credential
          Logout,     \* auth logout invocations
          Client,     \* invocations that need an authenticated client
          NoProc,     \* lock held by nobody
          NoGen,      \* profile without a credential generation
          Topology,   \* profile metadata: endpoints and expected account
          MaxTokens,  \* bound on refresh tokens the server issues
          MaxEdits,   \* bound on profiles saved and removed
          MaxFaults   \* bound on failures, kills and power losses

Process == Login \cup Logout \cup Client

ASSUME TransactionConstants ==
    /\ Confirmed \subseteq Login
    /\ Login \cap Logout = {} /\ Login \cap Client = {} /\ Logout \cap Client = {}
    /\ NoProc \notin Process /\ NoGen \notin Login
    /\ MaxTokens \in Nat /\ MaxEdits \in Nat /\ MaxFaults \in Nat

(* A login's random generation is named by the login; refresh token 0 is   *)
(* that of a permanent token, which never expires.                         *)
Profile    == [topology : Topology, gen : Login \cup {NoGen}]
Credential == [topology : Topology, gen : Login, owner : Topology, token : 0 .. MaxTokens]

ASSUME ProfileValues == {Absent, Torn} \cap (Profile \cup Credential) = {}

VARIABLES
    profile,     \* the registry's entry, with what a power loss may leave of it
    keychain,    \* the Keychain item
    exclusive,   \* holder of the profile's lock
    shared,      \* readers that hold it shared
    issued,      \* refresh tokens issued so far
    valid,       \* refresh tokens the server still accepts
    due,         \* refresh tokens whose access token is about to expire
    presented,   \* how often each refresh token was sent to the server
    pc,          \* where each invocation is
    known,       \* the profile it has read
    held,        \* the credential it has read or made
    prior,       \* the credential it found or may have to restore
    outcome,     \* how each client ended
    edits, faults,
    interrupted, \* a transaction was cut off and nothing repaired it since
    failed       \* refresh tokens whose presentation did not end in a save

fileVars   == <<profile, keychain>>
lockVars   == <<exclusive, shared>>
serverVars == <<issued, valid, due, presented>>
memoryVars == <<known, held, prior>>
boundVars  == <<edits, faults>>
vars == <<fileVars, lockVars, serverVars, pc, memoryVars, outcome, boundVars, interrupted, failed>>

Places == {"idle", "verify", "save", "publish", "rollback", "remove", "restore",
           "load", "client", "refresh", "answer", "resave", "done"}

Tokens == 1 .. MaxTokens

TypeOK ==
    /\ profile \in FileOf(Profile \cup {Absent})
    /\ keychain \in Credential \cup {Absent}
    /\ exclusive \in Process \cup {NoProc}
    /\ shared \subseteq Client
    /\ exclusive # NoProc => shared = {}
    /\ issued \in 0 .. MaxTokens
    /\ valid \subseteq 1 .. issued
    /\ due \subseteq 1 .. issued
    /\ presented \in [Tokens -> Nat]
    /\ pc \in [Process -> Places]
    /\ known \in [Process -> Profile \cup {Absent}]
    /\ held \in [Process -> Credential \cup {Absent}]
    /\ prior \in [Process -> Credential \cup {Absent, Torn}]
    /\ outcome \in [Client -> {"none", "absent", "unbound", "built"}]
    /\ edits \in 0 .. MaxEdits /\ faults \in 0 .. MaxFaults
    /\ interrupted \in BOOLEAN
    /\ failed \subseteq Tokens

Init ==
    /\ profile = Missing /\ keychain = Absent
    /\ exclusive = NoProc /\ shared = {}
    /\ issued = 0 /\ valid = {} /\ due = {}
    /\ presented = [t \in Tokens |-> 0]
    /\ pc = [p \in Process |-> "idle"]
    /\ known = [p \in Process |-> Absent]
    /\ held = [p \in Process |-> Absent]
    /\ prior = [p \in Process |-> Absent]
    /\ outcome = [c \in Client |-> "none"]
    /\ edits = 0 /\ faults = 0
    /\ interrupted = FALSE
    /\ failed = {}

-----------------------------------------------------------------------------
(* Helpers.                                                                *)

Goto(p, l) == pc' = [pc EXCEPT ![p] = l]
Fault == faults < MaxFaults /\ faults' = faults + 1

(* WithProfileLock and WithExistingProfileLock.                            *)
LockFree == exclusive = NoProc /\ shared = {}
Release(p) == exclusive' = (IF exclusive = p THEN NoProc ELSE exclusive) /\ shared' = shared \ {p}

(* ValidateCredentialBinding: the same topology and the same generation.   *)
Bound(c, p) == c.topology = p.topology /\ c.gen = p.gen

(* LoginIntent: the topology without the old generation.                   *)
Intent(p) == [p EXCEPT !.gen = NoGen]

(* loginLocked: the profile under the lock is the one that was verified.   *)
SameIntent(l) == profile.seen # Absent /\ Intent(profile.seen) = known[l]

(* Broken variant: the early answer about an existing credential counts.   *)
OverwriteAssumed(l) == TRUE

(* An existing credential is replaced only with a confirmation.            *)
MayOverwrite(l) == keychain = Absent \/ l \in Confirmed

(* Registry.write: success, or a CommitError after the rename.             *)
Put(v)       == profile' = RenameSynced(Renamed(profile, v))
PutWarned(v) == profile' = Renamed(profile, v)

(* A cut-off of process p between the two writes of its transaction, or    *)
(* between the use of a refresh token and the save of the next.            *)
CutsPair(p) == pc[p] \in {"publish", "rollback", "remove", "restore"}
CutsRefresh(p) == IF pc[p] \in {"answer", "resave"} THEN {prior[p].token} ELSE {}

-----------------------------------------------------------------------------
(* Login and ImportPermanentToken.                                         *)

LoginBegin(l) ==
    /\ pc[l] = "idle"
    /\ profile.seen # Absent
    /\ known' = [known EXCEPT ![l] = Intent(profile.seen)]
    /\ Goto(l, "verify")
    /\ UNCHANGED <<fileVars, lockVars, serverVars, held, prior, outcome, boundVars, interrupted, failed>>

(* The tokens, permanent or from the code exchange, and the account they   *)
(* belong to, compared with the profile that was read.                     *)
LoginVerify(l) ==
    /\ pc[l] = "verify"
    /\ MayOverwrite(l)
    /\ \E owner \in Topology, token \in {0} \cup (Tokens \cap {issued + 1}) :
          /\ owner = known[l].topology
          /\ held' = [held EXCEPT ![l] =
                [topology |-> known[l].topology, gen |-> l, owner |-> owner, token |-> token]]
          /\ issued' = IF token = 0 THEN issued ELSE token
          /\ valid'  = IF token = 0 THEN valid ELSE valid \cup {token}
    /\ Goto(l, "save")
    /\ UNCHANGED <<fileVars, lockVars, due, presented, known, prior, outcome, boundVars, interrupted, failed>>

(* loginLocked up to Save: everything before it only reads.                *)
LoginSave(l) ==
    /\ pc[l] = "save"
    /\ LockFree
    /\ SameIntent(l)
    /\ MayOverwrite(l)
    /\ exclusive' = l
    /\ prior' = [prior EXCEPT ![l] = keychain]
    /\ keychain' = held[l]
    /\ Goto(l, "publish")
    /\ UNCHANGED <<profile, shared, serverVars, known, held, outcome, boundVars, interrupted, failed>>

(* A failed Save is not undone: the item may have been written or not.     *)
LoginSaveFails(l) ==
    /\ pc[l] = "save"
    /\ LockFree
    /\ SameIntent(l)
    /\ MayOverwrite(l)
    /\ Fault
    /\ keychain' \in {keychain, held[l]}
    /\ interrupted' = (interrupted \/ keychain' # keychain)
    /\ Goto(l, "done")
    /\ UNCHANGED <<profile, lockVars, serverVars, memoryVars, outcome, edits, failed>>

Published(l) == [known[l] EXCEPT !.gen = l]

(* Registry.Put; a failure after the rename counts as published.           *)
LoginPublish(l) ==
    /\ pc[l] = "publish"
    /\ \/ Put(Published(l)) /\ UNCHANGED faults
       \/ PutWarned(Published(l)) /\ Fault
    /\ interrupted' = FALSE
    /\ Release(l)
    /\ Goto(l, "done")
    /\ UNCHANGED <<keychain, serverVars, memoryVars, outcome, edits, failed>>

LoginPublishFails(l) ==
    /\ pc[l] = "publish"
    /\ Fault
    /\ Goto(l, "rollback")
    /\ UNCHANGED <<fileVars, lockVars, serverVars, memoryVars, outcome, edits, interrupted, failed>>

(* rollbackCredential: the credential found before, or none.               *)
LoginRollback(l) ==
    /\ pc[l] = "rollback"
    /\ keychain' = prior[l]
    /\ Release(l)
    /\ Goto(l, "done")
    /\ UNCHANGED <<profile, serverVars, memoryVars, outcome, boundVars, interrupted, failed>>

LoginRollbackFails(l) ==
    /\ pc[l] = "rollback"
    /\ Fault
    /\ interrupted' = TRUE
    /\ Release(l)
    /\ Goto(l, "done")
    /\ UNCHANGED <<fileVars, serverVars, memoryVars, outcome, edits, failed>>

-----------------------------------------------------------------------------
(* Logout.                                                                 *)

(* The item is deleted first, even when its value cannot be read (Torn).   *)
LogoutDelete(o) ==
    /\ pc[o] = "idle"
    /\ LockFree
    /\ \E found \in {keychain} \cup (IF keychain = Absent THEN {} ELSE {Torn}) :
          prior' = [prior EXCEPT ![o] = found]
    /\ exclusive' = o
    /\ keychain' = Absent
    /\ Goto(o, "remove")
    /\ UNCHANGED <<profile, shared, serverVars, known, held, outcome, boundVars, interrupted, failed>>

(* Registry.Remove; a profile that is not there is no error.               *)
LogoutRemove(o) ==
    /\ pc[o] = "remove"
    /\ IF profile.seen = Absent
         THEN UNCHANGED <<profile, faults>>
         ELSE \/ Put(Absent) /\ UNCHANGED faults
              \/ PutWarned(Absent) /\ Fault
    /\ interrupted' = FALSE
    /\ Release(o)
    /\ Goto(o, "done")
    /\ UNCHANGED <<keychain, serverVars, memoryVars, outcome, edits, failed>>

LogoutRemoveFails(o) ==
    /\ pc[o] = "remove"
    /\ Fault
    /\ Goto(o, "restore")
    /\ UNCHANGED <<fileVars, lockVars, serverVars, memoryVars, outcome, edits, interrupted, failed>>

(* The snapshot is saved back; without one the logout stays incomplete.    *)
LogoutRestore(o) ==
    /\ pc[o] = "restore"
    /\ IF prior[o] = Torn
         THEN UNCHANGED keychain /\ interrupted' = TRUE
         ELSE keychain' = prior[o] /\ UNCHANGED interrupted
    /\ Release(o)
    /\ Goto(o, "done")
    /\ UNCHANGED <<profile, serverVars, memoryVars, outcome, boundVars, failed>>

LogoutRestoreFails(o) ==
    /\ pc[o] = "restore"
    /\ Fault
    /\ interrupted' = TRUE
    /\ Release(o)
    /\ Goto(o, "done")
    /\ UNCHANGED <<fileVars, serverVars, memoryVars, outcome, edits, failed>>

-----------------------------------------------------------------------------
(* SaveProfile and RemoveProfile, each one write under the profile's lock. *)

Edit == edits < MaxEdits /\ edits' = edits + 1

Edited(v) ==
    /\ \/ Put(v) /\ UNCHANGED faults
       \/ PutWarned(v) /\ Fault
    /\ UNCHANGED <<keychain, lockVars, serverVars, pc, memoryVars, outcome, interrupted, failed>>

(* An existing profile is replaced only while it has no credential.        *)
SaveProfile ==
    /\ Edit
    /\ LockFree
    /\ profile.seen # Absent => keychain = Absent /\ profile.seen.gen = NoGen
    /\ \E t \in Topology : Edited([topology |-> t, gen |-> NoGen])

RemoveProfile ==
    /\ Edit
    /\ LockFree
    /\ keychain = Absent
    /\ profile.seen # Absent
    /\ Edited(Absent)

-----------------------------------------------------------------------------
(* client and readClient.                                                  *)

(* What a client makes of a profile and a credential: a refused one, one   *)
(* that is used, or one that has to be refreshed first.                    *)
Judged(p, c) ==
    IF c = Absent THEN "absent"
    ELSE IF ~Bound(c, p) THEN "unbound"
    ELSE IF c.token \in due THEN "due" ELSE "built"

(* Broken variant: a reader does not take the lock.                        *)
ReadUnlocked(c) ==
    /\ pc[c] = "idle"
    /\ profile.seen # Absent
    /\ known' = [known EXCEPT ![c] = profile.seen]
    /\ Goto(c, "load")
    /\ UNCHANGED <<fileVars, lockVars, serverVars, held, prior, outcome, boundVars, interrupted, failed>>

(* readClient: the profile, under the shared lock.                         *)
ReadBegin(c) ==
    /\ pc[c] = "idle"
    /\ exclusive = NoProc
    /\ profile.seen # Absent
    /\ shared' = shared \cup {c}
    /\ known' = [known EXCEPT ![c] = profile.seen]
    /\ Goto(c, "load")
    /\ UNCHANGED <<fileVars, exclusive, serverVars, held, prior, outcome, boundVars, interrupted, failed>>

(* Then the credential; one that is due is refreshed under the other lock. *)
ReadLoad(c) ==
    /\ pc[c] = "load"
    /\ held' = [held EXCEPT ![c] = keychain]
    /\ Release(c)
    /\ LET verdict == Judged(known[c], keychain)
       IN  IF verdict = "due"
             THEN Goto(c, "client") /\ UNCHANGED outcome
             ELSE Goto(c, "done") /\ outcome' = [outcome EXCEPT ![c] = verdict]
    /\ UNCHANGED <<fileVars, serverVars, known, prior, boundVars, interrupted, failed>>

(* Broken variant: the refresh does not keep the lock.                     *)
ClientLetsGo(c) ==
    /\ pc[c] \in {"idle", "client"}
    /\ LockFree
    /\ profile.seen # Absent
    /\ known' = [known EXCEPT ![c] = profile.seen]
    /\ held' = [held EXCEPT ![c] = keychain]
    /\ prior' = [prior EXCEPT ![c] = keychain]
    /\ LET verdict == Judged(profile.seen, keychain)
       IN  IF verdict = "due"
             THEN Goto(c, "refresh") /\ UNCHANGED <<exclusive, outcome>>
             ELSE Goto(c, "done") /\ outcome' = [outcome EXCEPT ![c] = verdict] /\ UNCHANGED exclusive
    /\ UNCHANGED <<fileVars, shared, serverVars, boundVars, interrupted, failed>>

(* client: both are read, and read again, under the exclusive lock, which  *)
(* is kept for a refresh.                                                  *)
ClientBegin(c) ==
    /\ pc[c] \in {"idle", "client"}
    /\ LockFree
    /\ profile.seen # Absent
    /\ known' = [known EXCEPT ![c] = profile.seen]
    /\ held' = [held EXCEPT ![c] = keychain]
    /\ prior' = [prior EXCEPT ![c] = keychain]
    /\ LET verdict == Judged(profile.seen, keychain)
       IN  IF verdict = "due"
             THEN Goto(c, "refresh") /\ exclusive' = c /\ UNCHANGED outcome
             ELSE Goto(c, "done") /\ outcome' = [outcome EXCEPT ![c] = verdict] /\ UNCHANGED exclusive
    /\ UNCHANGED <<fileVars, shared, serverVars, boundVars, interrupted, failed>>

(* refreshIfNeeded: the refresh token goes to the server.                  *)
RefreshSend(c) ==
    /\ pc[c] = "refresh"
    /\ presented' = [presented EXCEPT ![held[c].token] = @ + 1]
    /\ Goto(c, "answer")
    /\ UNCHANGED <<fileVars, lockVars, issued, valid, due, memoryVars, outcome, boundVars, interrupted, failed>>

(* The server rotates a token it accepts.                                  *)
Rotated(old) ==
    /\ old \in valid
    /\ issued < MaxTokens
    /\ issued' = issued + 1
    /\ valid' = (valid \ {old}) \cup {issued + 1}

RefreshAnswered(c) ==
    /\ pc[c] = "answer"
    /\ Rotated(held[c].token)
    /\ held' = [held EXCEPT ![c] = [@ EXCEPT !.token = issued + 1]]
    /\ Goto(c, "resave")
    /\ UNCHANGED <<fileVars, lockVars, due, presented, known, prior, outcome, boundVars, interrupted, failed>>

(* No usable answer: the token may have been rotated all the same.         *)
RefreshFails(c) ==
    /\ pc[c] = "answer"
    /\ \/ Rotated(held[c].token)
       \/ UNCHANGED <<issued, valid>>
    /\ failed' = failed \cup CutsRefresh(c)
    /\ Release(c)
    /\ Goto(c, "done")
    /\ UNCHANGED <<fileVars, due, presented, memoryVars, outcome, boundVars, interrupted>>

RefreshSave(c) ==
    /\ pc[c] = "resave"
    /\ keychain' = held[c]
    /\ outcome' = [outcome EXCEPT ![c] = "built"]
    /\ Release(c)
    /\ Goto(c, "done")
    /\ UNCHANGED <<profile, serverVars, memoryVars, boundVars, interrupted, failed>>

(* refreshPersistenceUncertain: the item may have been written or not.     *)
RefreshSaveFails(c) ==
    /\ pc[c] = "resave"
    /\ Fault
    /\ keychain' \in {keychain, held[c]}
    /\ failed' = failed \cup CutsRefresh(c)
    /\ Release(c)
    /\ Goto(c, "done")
    /\ UNCHANGED <<profile, serverVars, memoryVars, outcome, edits, interrupted>>

-----------------------------------------------------------------------------
(* The environment.                                                        *)

(* An access token comes close to its end.                                 *)
Expire(t) ==
    /\ t \in 1 .. issued
    /\ t \notin due
    /\ due' = due \cup {t}
    /\ UNCHANGED <<fileVars, lockVars, issued, valid, presented, pc, memoryVars, outcome, boundVars, interrupted, failed>>

(* A refusal, an error, a cancellation or a lock timeout where nothing was *)
(* changed yet ends the invocation.                                        *)
GiveUp(p) ==
    /\ pc[p] \in {"verify", "save", "load", "client", "refresh"}
    /\ Release(p)
    /\ Goto(p, "done")
    /\ UNCHANGED <<fileVars, serverVars, memoryVars, outcome, boundVars, interrupted, failed>>

(* A kill: the kernel releases the locks, nothing is undone.               *)
Kill(p) ==
    /\ Fault
    /\ pc[p] \notin {"idle", "done"}
    /\ interrupted' = (interrupted \/ CutsPair(p))
    /\ failed' = failed \cup CutsRefresh(p)
    /\ Release(p)
    /\ Goto(p, "done")
    /\ UNCHANGED <<fileVars, serverVars, memoryVars, outcome, edits>>

(* Every running invocation dies; a rename that was not synced may be      *)
(* lost.  The Keychain keeps what it has.                                  *)
PowerLoss ==
    /\ Fault
    /\ \E v \in profile.disk : profile' = Stored(v)
    /\ interrupted' = (interrupted \/ profile'.seen # profile.seen \/ \E p \in Process : CutsPair(p))
    /\ failed' = failed \cup UNION {CutsRefresh(p) : p \in Process}
    /\ exclusive' = NoProc /\ shared' = {}
    /\ pc' = [p \in Process |-> IF pc[p] = "idle" THEN "idle" ELSE "done"]
    /\ UNCHANGED <<keychain, serverVars, memoryVars, outcome, edits>>

LoginStep(l) ==
    \/ LoginBegin(l) \/ LoginVerify(l) \/ LoginSave(l) \/ LoginSaveFails(l)
    \/ LoginPublish(l) \/ LoginPublishFails(l) \/ LoginRollback(l) \/ LoginRollbackFails(l)

LogoutStep(o) ==
    \/ LogoutDelete(o) \/ LogoutRemove(o) \/ LogoutRemoveFails(o)
    \/ LogoutRestore(o) \/ LogoutRestoreFails(o)

ClientStep(c) ==
    \/ ReadBegin(c) \/ ReadLoad(c) \/ ClientBegin(c)
    \/ RefreshSend(c) \/ RefreshAnswered(c) \/ RefreshFails(c) \/ RefreshSave(c) \/ RefreshSaveFails(c)

Next ==
    \/ \E l \in Login : LoginStep(l)
    \/ \E o \in Logout : LogoutStep(o)
    \/ \E c \in Client : ClientStep(c)
    \/ SaveProfile \/ RemoveProfile
    \/ \E t \in Tokens : Expire(t)
    \/ \E p \in Process : GiveUp(p) \/ Kill(p)
    \/ PowerLoss

Spec == Init /\ [][Next]_vars

-----------------------------------------------------------------------------
(* Neither is there, or the profile has no generation and no credential,   *)
(* or the credential is bound to the profile.                              *)
Matches(c, p) ==
    IF c = Absent THEN p # Absent => p.gen = NoGen ELSE p # Absent /\ Bound(c, p)

(* Outside a transaction, and unless one was cut off between its writes    *)
(* and not repaired since, credential and profile belong together (the     *)
(* compensations of Login and Logout; a later login or logout repairs a    *)
(* cut-off).                                                               *)
PairMatches ==
    exclusive = NoProc /\ ~interrupted => Matches(keychain, profile.seen)

(* A client is only ever built with a credential whose account was         *)
(* verified for the topology it is used with, whatever was cut off or lost *)
(* before (ValidateCredentialBinding, verifyAccount).                      *)
UsableVerified ==
    \A c \in Client : outcome[c] = "built" =>
        held[c].owner = known[c].topology

(* What a login is about to publish replaces the generation of the profile *)
(* that is registered now, never a profile saved or removed since it was   *)
(* read (ErrProfileChangedDuringLogin in loginLocked).                     *)
PublishFenced ==
    \A l \in Login : pc[l] \in {"publish", "rollback"} =>
        profile.seen # Absent /\ Intent(profile.seen) = known[l]

(* Nobody's credential disappears or is replaced unless an operator logs   *)
(* out, a confirmed login replaces it, or its own login compensates        *)
(* (requireCredentialReplacementConfirmation, again under the lock).       *)
NoUnconfirmedOverwrite ==
    [][keychain # Absent /\ (keychain' = Absent \/ keychain'.gen # keychain.gen) =>
          \/ exclusive = keychain.gen
          \/ \E o \in Logout : pc'[o] # pc[o]
          \/ \E l \in Confirmed : pc[l] = "save" /\ pc'[l] # "save"]_vars

(* A refresh token is presented to the server a second time only after a   *)
(* refresh with it failed or was cut off (refreshIfNeeded reloads and      *)
(* saves under one lock; docs/oauth-errors.md).                            *)
PresentedOnce ==
    \A t \in Tokens : presented[t] > 1 => t \in failed

(* A client finds credential and profile at odds only if they are: a login *)
(* or logout in progress is never half seen (WithExistingProfileLock).     *)
ReadersSeePairs ==
    [][\A c \in Client : outcome[c] # "unbound" /\ outcome'[c] = "unbound" => interrupted]_vars

-----------------------------------------------------------------------------
(* The inductive invariant behind the safety properties.                   *)

Roles ==
    /\ \A l \in Login : pc[l] \in {"idle", "verify", "save", "publish", "rollback", "done"}
    /\ \A o \in Logout : pc[o] \in {"idle", "remove", "restore", "done"}
    /\ \A c \in Client : pc[c] \in {"idle", "load", "client", "refresh", "answer", "resave", "done"}

(* Who holds the profile's lock follows from where the invocations are.    *)
Holding == {"publish", "rollback", "remove", "restore", "refresh", "answer", "resave"}
Locked ==
    /\ \A p \in Process : IF pc[p] \in Holding THEN exclusive = p ELSE exclusive # p
    /\ \A c \in Client : IF pc[c] = "load" THEN c \in shared ELSE c \notin shared

(* Every credential that is stored or held in a memory belongs to the      *)
(* account of the topology it is bound to.                                 *)
Verified(c) == c \in Credential => c.owner = c.topology
AllVerified ==
    /\ Verified(keychain)
    /\ \A p \in Process : Verified(held[p]) /\ Verified(prior[p])

(* The credential and the profile would match if credential c were stored. *)
Whole(c) == ~interrupted => Matches(c, profile.seen)

(* What a login holds, would publish and would restore.                    *)
LoginHolds(l) ==
    /\ pc[l] \in {"verify", "save", "publish", "rollback"} =>
          known[l] \in Profile /\ known[l].gen = NoGen
    /\ pc[l] \in {"save", "publish", "rollback"} =>
          /\ held[l] \in Credential
          /\ held[l].gen = l
          /\ held[l].topology = known[l].topology
    /\ pc[l] \in {"publish", "rollback"} =>
          /\ SameIntent(l)
          /\ keychain = held[l]
          /\ prior[l] # Torn
          /\ Whole(prior[l])

(* What a logout has deleted and would restore.                            *)
LogoutHolds(o) ==
    pc[o] \in {"remove", "restore"} =>
        keychain = Absent /\ (prior[o] = Torn \/ Whole(prior[o]))

(* What a client reads does not change under it.                           *)
ClientHolds(c) ==
    /\ pc[c] \in {"load", "refresh", "answer", "resave"} =>
          profile.seen # Absent /\ known[c] = profile.seen /\ Whole(keychain)
    /\ pc[c] \in {"refresh", "answer", "resave"} =>
          /\ keychain \in Credential /\ keychain.token \in Tokens
          /\ prior[c] = keychain
          /\ Bound(keychain, profile.seen)
          /\ held[c] \in Credential /\ held[c].token \in Tokens
          /\ Bound(held[c], profile.seen)
    /\ outcome[c] # "none" => pc[c] = "done"

(* Credential, profile and lock: every write of the pair happens under the *)
(* exclusive lock, and every reader of both excludes it.                   *)
PairInv ==
    /\ TypeOK
    /\ Roles
    /\ Locked
    /\ AllVerified
    /\ PairMatches
    /\ UsableVerified
    /\ \A l \in Login : LoginHolds(l)
    /\ \A o \in Logout : LogoutHolds(o)
    /\ \A c \in Client : ClientHolds(c)

TokenOf(c) == IF c \in Credential THEN c.token ELSE 0

(* No token is stored, remembered or presented before it is issued.        *)
TokensIssued ==
    /\ TokenOf(keychain) <= issued
    /\ \A p \in Process : TokenOf(held[p]) <= issued /\ TokenOf(prior[p]) <= issued
    /\ \A t \in Tokens : presented[t] > 0 => t <= issued

(* A token that a login has not saved yet is nowhere else; a client goes   *)
(* to the server with the credential it found, and comes back with another.*)
FreshTokens ==
    /\ \A l \in Login : pc[l] = "save" /\ TokenOf(held[l]) \in Tokens =>
          /\ presented[TokenOf(held[l])] = 0
          /\ TokenOf(keychain) # TokenOf(held[l])
          /\ \A p \in Process \ {l} :
                TokenOf(held[p]) # TokenOf(held[l]) /\ TokenOf(prior[p]) # TokenOf(held[l])
    /\ \A c \in Client :
          /\ pc[c] \in {"refresh", "answer"} => held[c] = prior[c]
          /\ pc[c] = "resave" => presented[held[c].token] = 0

(* Somebody waits for what a token brings, or the token is neither stored  *)
(* nor about to be restored.                                               *)
Pending(t) == \E c \in Client : pc[c] \in {"answer", "resave"} /\ TokenOf(prior[c]) = t
Gone(t) ==
    /\ TokenOf(keychain) # t
    /\ \A p \in Process : CutsPair(p) => TokenOf(prior[p]) # t

TokensSpent ==
    \A t \in Tokens : presented[t] > 0 /\ t \notin failed =>
        presented[t] = 1 /\ (Pending(t) \/ Gone(t))

(* Why the safety properties hold: the conjunction the proofs show to be   *)
(* inductive.                                                              *)
TransactionInv == PairInv /\ TokensIssued /\ FreshTokens /\ TokensSpent
=============================================================================
