-------------------- MODULE CredentialTransaction_proofs --------------------
(***************************************************************************)
(* The safety properties of CredentialTransaction for every set of         *)
(* invocations and topologies and every bound on tokens, edits and faults. *)
(***************************************************************************)
EXTENDS CredentialTransaction, TLAPS

-----------------------------------------------------------------------------
(* Values.                                                                 *)

(* A profile without and with a generation (LoginIntent,                   *)
(* WithNewCredentialGeneration).                                           *)
LEMMA ProfileForms ==
    ASSUME NEW p \in Profile, NEW g \in Login
    PROVE  /\ Intent(p) \in Profile /\ Intent(p).gen = NoGen /\ Intent(p).topology = p.topology
           /\ [p EXCEPT !.gen = g] \in Profile
           /\ [p EXCEPT !.gen = g].gen = g /\ [p EXCEPT !.gen = g].topology = p.topology
           /\ p # Absent
  BY ProfileValues DEF Intent, Profile

(* A stored credential has the parts that are compared.                    *)
LEMMA CredentialForm ==
    ASSUME NEW c \in Credential
    PROVE  /\ c.topology \in Topology /\ c.gen \in Login /\ c.token \in 0 .. MaxTokens
           /\ c # Absent /\ c # Torn
  BY ProfileValues DEF Credential

(* A write of the registry leaves a registry that shows what was written.  *)
LEMMA ProfileWritten ==
    ASSUME TypeOK, NEW v \in Profile \cup {Absent}, Put(v) \/ PutWarned(v)
    PROVE  profile' \in FileOf(Profile \cup {Absent}) /\ profile'.seen = v
  BY DEF TypeOK, Put, PutWarned, Renamed, RenameSynced, Stored, FileOf

(* A counted fault stays within the bound.                                 *)
LEMMA FaultCounted ==
    ASSUME TypeOK, Fault \/ UNCHANGED faults
    PROVE  faults' \in 0 .. MaxFaults
  BY TransactionConstants DEF TypeOK, Fault

-----------------------------------------------------------------------------
(* The lock.                                                               *)

(* What a step of one invocation leaves to the others.                     *)
Same(q) == pc'[q] = pc[q] /\ known'[q] = known[q] /\ held'[q] = held[q] /\ prior'[q] = prior[q]
Alone(p) == \A q \in Process \ {p} : pc[q] \notin Holding /\ pc[q] # "load"

(* The lock and the places of the invocations, and how they belong         *)
(* together.                                                               *)
LockState ==
    /\ Locked
    /\ exclusive \in Process \cup {NoProc} /\ shared \subseteq Client
    /\ exclusive # NoProc => shared = {}
    /\ pc \in [Process -> Places]
USE DEF LockState

(* Whoever has the exclusive lock, or could take it, is alone.             *)
LEMMA ExclusiveAlone ==
    ASSUME TypeOK, Roles, Locked, NEW p \in Process, LockFree \/ exclusive = p
    PROVE  Alone(p)
  BY TransactionConstants DEF TypeOK, Roles, Locked, LockFree, Alone, Process

(* A step that takes the free lock exclusively (WithProfileLock).           *)
LEMMA Acquire ==
    ASSUME TypeOK, Roles, Locked, NEW p \in Process, LockFree,
           exclusive' = p, shared' = shared, NEW to \in Holding, Goto(p, to)
    PROVE  /\ LockState' /\ pc'[p] = to /\ \A q \in Process \ {p} : pc'[q] = pc[q]
  BY TransactionConstants DEF TypeOK, Roles, Locked, LockFree, Goto, Holding, Places, Process

(* A step that ends a critical section or a read.                          *)
LEMMA ReleaseLock ==
    ASSUME TypeOK, Locked, NEW p \in Process, Release(p),
           NEW to \in Places \ (Holding \cup {"load"}), Goto(p, to)
    PROVE  /\ LockState' /\ pc'[p] = to /\ \A q \in Process \ {p} : pc'[q] = pc[q]
  BY TransactionConstants DEF TypeOK, Locked, Release, Goto, Holding, Places, Process

(* A step inside a critical section, or outside of any.                    *)
LEMMA KeepLock ==
    ASSUME TypeOK, Locked, NEW p \in Process, UNCHANGED lockVars,
           NEW to \in Places, Goto(p, to), to # "load", pc[p] # "load",
           to \in Holding <=> pc[p] \in Holding
    PROVE  /\ LockState' /\ pc'[p] = to /\ \A q \in Process \ {p} : pc'[q] = pc[q]
  BY TransactionConstants DEF TypeOK, Locked, lockVars, Goto, Holding, Places, Process

-----------------------------------------------------------------------------
(* The invariant, seen from one invocation.                                *)

Own(p) ==
    /\ Verified(held[p]) /\ Verified(prior[p])
    /\ p \in Login => LoginHolds(p) /\ pc[p] \in {"idle", "verify", "save", "publish", "rollback", "done"}
    /\ p \in Logout => LogoutHolds(p) /\ pc[p] \in {"idle", "remove", "restore", "done"}
    /\ p \in Client =>
          /\ ClientHolds(p)
          /\ pc[p] \in {"idle", "load", "client", "refresh", "answer", "resave", "done"}
          /\ outcome[p] = "built" => held[p].owner = known[p].topology

(* The invariant is that of the pair, the lock and each invocation.        *)
LEMMA OwnParts ==
    PairInv <=> /\ TypeOK /\ Locked /\ PairMatches /\ Verified(keychain)
                       /\ \A p \in Process : Own(p)
  BY DEF PairInv, Roles, AllVerified, UsableVerified, Own, Process

(* A step of p disturbs nobody else when it does not change what they      *)
(* rely on, or when nobody else relies on anything.                        *)
LEMMA OthersKeep ==
    ASSUME NEW p \in Process, NEW q \in Process \ {p}, Own(q), Same(q),
           q \in Client => outcome'[q] = outcome[q],
           \/ Alone(p)
           \/ UNCHANGED fileVars /\ (interrupted => interrupted')
    PROVE  Own(q)'
  <1>1. CASE Alone(p)
    BY <1>1 DEF Own, Same, Alone, Holding, LoginHolds, LogoutHolds, ClientHolds, Verified
  <1>2. CASE UNCHANGED fileVars /\ (interrupted => interrupted')
    BY <1>2
       DEF Own, Same, LoginHolds, LogoutHolds, ClientHolds, Verified, fileVars, Whole, SameIntent
  <1> QED
    BY <1>1, <1>2

(* So it is enough to look at the one that makes the step.                 *)
LEMMA OwnStep ==
    ASSUME PairInv, NEW p \in Process,
           \A q \in Process \ {p} : Same(q),
           \A c \in Client \ {p} : outcome'[c] = outcome[c],
           \/ LockFree \/ exclusive = p
           \/ UNCHANGED fileVars /\ (interrupted => interrupted'),
           TypeOK', Locked', PairMatches', Verified(keychain)', Own(p)'
    PROVE  PairInv'
  <1>1. Alone(p) \/ (UNCHANGED fileVars /\ (interrupted => interrupted'))
    BY ExclusiveAlone DEF PairInv
  <1>2. ASSUME NEW q \in Process \ {p} PROVE Own(q)'
    <2>1. Own(q) /\ Same(q) /\ (q \in Client => outcome'[q] = outcome[q])
      BY <1>2, OwnParts
    <2> QED
      BY <1>1, <1>2, <2>1, OthersKeep
  <1> QED
    BY <1>2 DEF PairInv, Roles, AllVerified, UsableVerified, Own, Process

-----------------------------------------------------------------------------
(* Login.                                                                  *)

(* The steps of a login before the lock keep the invariant.                *)
LEMMA LoginReads ==
    ASSUME PairInv, NEW l \in Login, LoginBegin(l) \/ LoginVerify(l)
    PROVE  PairInv'
  <1> USE DEF Goto
  <1>0. /\ l \in Process /\ l \notin Client /\ l \notin Logout /\ TypeOK /\ Locked /\ Own(l)
        /\ PairMatches /\ Verified(keychain)
    BY OwnParts, TransactionConstants DEF Process
  <1>1. CASE LoginBegin(l)
    <2>1. profile.seen \in Profile
      BY <1>0, <1>1 DEF LoginBegin, TypeOK, FileOf
    <2>2. Locked' /\ pc' \in [Process -> Places] /\ UNCHANGED lockVars
      BY <1>0, <1>1, KeepLock DEF LoginBegin, Places, Holding
    <2>3. known' \in [Process -> Profile \cup {Absent}] /\ known'[l] = Intent(profile.seen)
      BY <1>0, <1>1, <2>1, ProfileForms DEF LoginBegin, TypeOK
    <2>4. TypeOK'
      BY <1>0, <1>1, <2>2, <2>3 DEF LoginBegin, TypeOK, fileVars, lockVars, serverVars, boundVars
    <2>5. Own(l)'
      BY <1>0, <1>1, <2>1, <2>3, ProfileForms DEF LoginBegin, Own, LoginHolds, TypeOK
    <2> QED
      BY <1>0, <1>1, <2>2, <2>4, <2>5, OwnStep
         DEF LoginBegin, Same, PairMatches, Verified, fileVars, lockVars, TypeOK
  <1>2. CASE LoginVerify(l)
    <2>1. PICK owner \in Topology, token \in {0} \cup (Tokens \cap {issued + 1}) :
            /\ owner = known[l].topology
            /\ held' = [held EXCEPT ![l] =
                  [topology |-> known[l].topology, gen |-> l, owner |-> owner, token |-> token]]
            /\ issued' = IF token = 0 THEN issued ELSE token
            /\ valid'  = IF token = 0 THEN valid ELSE valid \cup {token}
      BY <1>2 DEF LoginVerify
    <2>2. Locked' /\ pc' \in [Process -> Places] /\ UNCHANGED lockVars
      BY <1>0, <1>2, KeepLock DEF LoginVerify, Places, Holding
    <2>3. /\ held'[l] \in Credential /\ held'[l].gen = l
          /\ held'[l].topology = known[l].topology /\ held'[l].owner = known[l].topology
      BY <1>0, <2>1, TransactionConstants DEF TypeOK, Credential, Tokens
    <2>4. held' \in [Process -> Credential \cup {Absent}]
      BY <1>0, <2>1, <2>3 DEF TypeOK
    <2>5. issued' \in 0 .. MaxTokens /\ valid' \subseteq 1 .. issued' /\ due' \subseteq 1 .. issued'
      BY <1>0, <1>2, <2>1, TransactionConstants DEF LoginVerify, TypeOK, Tokens
    <2>6. TypeOK'
      BY <1>0, <1>2, <2>2, <2>4, <2>5 DEF LoginVerify, TypeOK, fileVars, lockVars, boundVars
    <2>7. Own(l)'
      BY <1>0, <1>2, <2>3 DEF LoginVerify, Own, LoginHolds, TypeOK, Verified
    <2> QED
      BY <1>0, <1>2, <2>1, <2>2, <2>6, <2>7, OwnStep
         DEF LoginVerify, Same, PairMatches, Verified, fileVars, lockVars, TypeOK
  <1> QED
    BY <1>1, <1>2

(* So does the save of the credential, failed or not.                      *)
LEMMA LoginSaves ==
    ASSUME PairInv, NEW l \in Login, LoginSave(l) \/ LoginSaveFails(l)
    PROVE  PairInv'
  <1> USE DEF Goto
  <1>0. /\ l \in Process /\ l \notin Client /\ l \notin Logout /\ TypeOK /\ Roles /\ Locked
        /\ Own(l) /\ PairMatches /\ Verified(keychain)
    BY OwnParts, TransactionConstants DEF Process, PairInv
  <1>1. pc[l] = "save" /\ LockFree /\ SameIntent(l)
    BY DEF LoginSave, LoginSaveFails
  <1>2. /\ known[l] \in Profile /\ known[l].gen = NoGen
        /\ held[l] \in Credential /\ held[l].gen = l /\ held[l].topology = known[l].topology
    BY <1>0, <1>1 DEF Own, LoginHolds
  <1>3. CASE LoginSave(l)
    <2>1. Locked' /\ exclusive' = l /\ shared' = {} /\ pc' \in [Process -> Places]
      BY <1>0, <1>3, Acquire DEF LoginSave, Holding, LockFree
    <2>2. /\ prior' \in [Process -> Credential \cup {Absent, Torn}] /\ prior'[l] = keychain
          /\ keychain # Torn
      BY <1>0, <1>3, CredentialForm, FileContentAssumption DEF LoginSave, TypeOK
    <2>3. TypeOK'
      BY <1>0, <1>2, <1>3, <2>1, <2>2 DEF LoginSave, TypeOK, serverVars, boundVars
    <2>4. Verified(held[l])' /\ Verified(prior[l])' /\ Verified(keychain)'
      BY <1>0, <1>3, <2>2 DEF LoginSave, Own, Verified
    <2>5. SameIntent(l)' /\ Whole(prior[l])'
      BY <1>0, <1>1, <1>3, <2>2 DEF LoginSave, SameIntent, Whole, PairMatches, LockFree
    <2>6. LoginHolds(l)' /\ pc'[l] = "publish"
      BY <1>0, <1>2, <1>3, <2>2, <2>5 DEF LoginSave, LoginHolds, TypeOK
    <2>7. Own(l)'
      BY <1>0, <2>4, <2>6 DEF Own
    <2>8. PairMatches'
      BY <1>0, <2>1, TransactionConstants DEF PairMatches
    <2> QED
      BY <1>0, <1>1, <1>3, <2>1, <2>3, <2>4, <2>7, <2>8, OwnStep DEF LoginSave, Same, TypeOK
  <1>4. CASE LoginSaveFails(l)
    <2>1. Locked' /\ pc' \in [Process -> Places] /\ UNCHANGED lockVars
      BY <1>0, <1>4, KeepLock DEF LoginSaveFails, Holding, Places
    <2>2. TypeOK'
      BY <1>0, <1>2, <1>4, <2>1, TransactionConstants
         DEF LoginSaveFails, TypeOK, serverVars, lockVars, memoryVars, Fault
    <2>3. Own(l)'
      BY <1>0, <1>4 DEF LoginSaveFails, Own, LoginHolds, TypeOK, Verified, memoryVars
    <2>4. PairMatches' /\ Verified(keychain)'
      BY <1>0, <1>4, <2>1 DEF LoginSaveFails, PairMatches, Own, Verified, lockVars
    <2> QED
      BY <1>0, <1>1, <1>4, <2>1, <2>2, <2>3, <2>4, OwnStep
         DEF LoginSaveFails, Same, TypeOK, memoryVars
  <1> QED
    BY <1>3, <1>4

(* So do the publication and the compensation.                             *)
LEMMA LoginEnds ==
    ASSUME PairInv, NEW l \in Login,
           LoginPublish(l) \/ LoginPublishFails(l) \/ LoginRollback(l) \/ LoginRollbackFails(l)
    PROVE  PairInv'
  <1> USE DEF Goto
  <1>0. /\ l \in Process /\ l \notin Client /\ l \notin Logout /\ TypeOK /\ Roles /\ Locked
        /\ Own(l) /\ PairMatches /\ Verified(keychain)
    BY OwnParts, TransactionConstants DEF Process, PairInv
  <1>1. pc[l] \in {"publish", "rollback"} /\ exclusive = l
    BY <1>0 DEF LoginPublish, LoginPublishFails, LoginRollback, LoginRollbackFails, Locked, Holding
  <1>2. /\ known[l] \in Profile /\ known[l].gen = NoGen
        /\ held[l] \in Credential /\ held[l].gen = l /\ held[l].topology = known[l].topology
        /\ keychain = held[l] /\ prior[l] # Torn /\ Whole(prior[l])
    BY <1>0, <1>1 DEF Own, LoginHolds
  <1>3. CASE LoginPublish(l)
    <2>1. LockState'
      BY <1>0, <1>3, ReleaseLock DEF LoginPublish, Holding, Places
    <2>2. /\ Published(l) \in Profile /\ Published(l).gen = l
          /\ Published(l).topology = known[l].topology /\ Published(l) # Absent
      BY <1>2, ProfileForms DEF Published
    <2>3. profile' \in FileOf(Profile \cup {Absent}) /\ profile'.seen = Published(l)
      BY <1>0, <1>3, <2>2, ProfileWritten DEF LoginPublish
    <2>4. TypeOK'
      <3>1. faults' \in 0 .. MaxFaults
        BY <1>0, <1>3, FaultCounted DEF LoginPublish
      <3> QED
        BY <1>0, <1>3, <2>1, <2>3, <3>1 DEF LoginPublish, TypeOK, serverVars, memoryVars
    <2>5. Own(l)'
      BY <1>0, <1>3 DEF LoginPublish, Own, LoginHolds, TypeOK, Verified, memoryVars
    <2>6. PairMatches' /\ Verified(keychain)'
      BY <1>0, <1>2, <1>3, <2>2, <2>3, CredentialForm
         DEF LoginPublish, PairMatches, Matches, Bound, Verified
    <2> QED
      BY <1>0, <1>1, <1>3, <2>1, <2>4, <2>5, <2>6, OwnStep
         DEF LoginPublish, Same, TypeOK, memoryVars
  <1>4. CASE LoginPublishFails(l)
    <2>1. Locked' /\ pc' \in [Process -> Places] /\ UNCHANGED lockVars
      BY <1>0, <1>4, KeepLock DEF LoginPublishFails, Holding, Places
    <2>2. TypeOK'
      BY <1>0, <1>4, <2>1, TransactionConstants
         DEF LoginPublishFails, TypeOK, fileVars, serverVars, memoryVars, lockVars, Fault
    <2>3. Own(l)'
      BY <1>0, <1>4
         DEF LoginPublishFails, Own, LoginHolds, TypeOK, Verified, SameIntent, Whole, memoryVars,
             fileVars
    <2>4. PairMatches' /\ Verified(keychain)'
      BY <1>0, <1>4 DEF LoginPublishFails, PairMatches, Verified, fileVars, lockVars
    <2> QED
      BY <1>0, <1>1, <1>4, <2>1, <2>2, <2>3, <2>4, OwnStep
         DEF LoginPublishFails, Same, TypeOK, memoryVars
  <1>5. CASE LoginRollback(l) \/ LoginRollbackFails(l)
    <2>1. LockState'
      BY <1>0, <1>5, ReleaseLock DEF LoginRollback, LoginRollbackFails, Holding, Places
    <2>2. keychain' \in Credential \cup {Absent} /\ Verified(keychain)'
      BY <1>0, <1>2, <1>5 DEF LoginRollback, LoginRollbackFails, fileVars, TypeOK, Own, Verified
    <2>3. TypeOK'
      <3>1. faults' \in 0 .. MaxFaults /\ edits' = edits
        BY <1>0, <1>5, FaultCounted DEF LoginRollback, LoginRollbackFails, boundVars
      <3>2. /\ interrupted' \in BOOLEAN
            /\ UNCHANGED <<profile, serverVars, memoryVars, outcome, failed>>
        BY <1>0, <1>5 DEF LoginRollback, LoginRollbackFails, TypeOK, fileVars
      <3> QED
        BY <1>0, <2>1, <2>2, <3>1, <3>2 DEF TypeOK, serverVars, memoryVars
    <2>4. Own(l)'
      BY <1>0, <1>5
         DEF LoginRollback, LoginRollbackFails, Own, LoginHolds, TypeOK, Verified, memoryVars
    <2>5. PairMatches'
      BY <1>0, <1>2, <1>5 DEF LoginRollback, LoginRollbackFails, PairMatches, Whole
    <2>6. UNCHANGED memoryVars /\ UNCHANGED outcome /\ pc' = [pc EXCEPT ![l] = "done"]
      BY <1>5 DEF LoginRollback, LoginRollbackFails
    <2> QED
      BY <1>0, <1>1, <2>1, <2>2, <2>3, <2>4, <2>5, <2>6, OwnStep DEF Same, TypeOK, memoryVars
  <1> QED
    BY <1>3, <1>4, <1>5

-----------------------------------------------------------------------------
(* Logout.                                                                 *)

(* A logout keeps the invariant.                                           *)
LEMMA LogoutSteps ==
    ASSUME PairInv, NEW o \in Logout, LogoutStep(o)
    PROVE  PairInv'
  <1> USE DEF Goto
  <1>0. /\ o \in Process /\ o \notin Client /\ o \notin Login /\ TypeOK /\ Roles /\ Locked
        /\ Own(o) /\ PairMatches /\ Verified(keychain)
    BY OwnParts, TransactionConstants DEF Process, PairInv
  <1>1. CASE LogoutDelete(o)
    <2>1. PICK found \in {keychain} \cup (IF keychain = Absent THEN {} ELSE {Torn}) :
            prior' = [prior EXCEPT ![o] = found]
      BY <1>1 DEF LogoutDelete
    <2>2. Locked' /\ exclusive' = o /\ shared' = {} /\ pc' \in [Process -> Places] /\ LockFree
      BY <1>0, <1>1, Acquire DEF LogoutDelete, Holding, LockFree
    <2>3. prior' \in [Process -> Credential \cup {Absent, Torn}] /\ prior'[o] = found
      BY <1>0, <2>1 DEF TypeOK
    <2>4. TypeOK'
      BY <1>0, <1>1, <2>2, <2>3 DEF LogoutDelete, TypeOK, serverVars, boundVars
    <2>5. prior'[o] = Torn \/ Whole(prior[o])'
      BY <1>0, <1>1, <2>1, <2>2, <2>3 DEF LogoutDelete, Whole, PairMatches, LockFree
    <2>6. Verified(prior[o])' /\ Verified(held[o])' /\ Verified(keychain)'
      BY <1>0, <1>1, <2>1, <2>3, ProfileValues DEF LogoutDelete, Own, Verified
    <2>7. Own(o)'
      BY <1>0, <1>1, <2>5, <2>6 DEF LogoutDelete, Own, LogoutHolds, TypeOK
    <2>8. PairMatches'
      BY <1>0, <2>2, TransactionConstants DEF PairMatches
    <2> QED
      BY <1>0, <1>1, <2>1, <2>2, <2>4, <2>6, <2>7, <2>8, OwnStep DEF LogoutDelete, Same, TypeOK
  <1>2. CASE LogoutRemove(o)
    <2>1. LockState'
      BY <1>0, <1>2, ReleaseLock DEF LogoutRemove, Holding, Places
    <2>2. exclusive = o /\ keychain = Absent
      BY <1>0, <1>2 DEF LogoutRemove, Locked, Own, LogoutHolds, Holding
    <2>3. profile' \in FileOf(Profile \cup {Absent}) /\ profile'.seen = Absent
      BY <1>0, <1>2, ProfileWritten DEF LogoutRemove, TypeOK
    <2>4. faults' \in 0 .. MaxFaults
      BY <1>0, <1>2, FaultCounted DEF LogoutRemove
    <2>5. TypeOK'
      BY <1>0, <1>2, <2>1, <2>3, <2>4 DEF LogoutRemove, TypeOK, serverVars, memoryVars
    <2>6. Own(o)'
      BY <1>0, <1>2 DEF LogoutRemove, Own, LogoutHolds, TypeOK, Verified, memoryVars
    <2>7. PairMatches' /\ Verified(keychain)'
      BY <1>0, <1>2, <2>2, <2>3 DEF LogoutRemove, PairMatches, Matches, Verified
    <2> QED
      BY <1>0, <1>2, <2>1, <2>2, <2>5, <2>6, <2>7, OwnStep
         DEF LogoutRemove, Same, TypeOK, memoryVars
  <1>3. CASE LogoutRemoveFails(o)
    <2>1. Locked' /\ pc' \in [Process -> Places] /\ UNCHANGED lockVars /\ exclusive = o
      BY <1>0, <1>3, KeepLock DEF LogoutRemoveFails, Holding, Places, Locked
    <2>2. TypeOK'
      BY <1>0, <1>3, <2>1, FaultCounted
         DEF LogoutRemoveFails, TypeOK, fileVars, serverVars, memoryVars, lockVars
    <2>3. Own(o)'
      BY <1>0, <1>3
         DEF LogoutRemoveFails, Own, LogoutHolds, TypeOK, Verified, Whole, memoryVars, fileVars
    <2>4. PairMatches' /\ Verified(keychain)'
      BY <1>0, <1>3 DEF LogoutRemoveFails, PairMatches, Verified, fileVars, lockVars
    <2> QED
      BY <1>0, <1>3, <2>1, <2>2, <2>3, <2>4, OwnStep DEF LogoutRemoveFails, Same, TypeOK, memoryVars
  <1>4. CASE LogoutRestore(o) \/ LogoutRestoreFails(o)
    <2>1. LockState'
      BY <1>0, <1>4, ReleaseLock DEF LogoutRestore, LogoutRestoreFails, Holding, Places
    <2>2. exclusive = o /\ keychain = Absent /\ (prior[o] = Torn \/ Whole(prior[o]))
      BY <1>0, <1>4 DEF LogoutRestore, LogoutRestoreFails, Locked, Own, LogoutHolds, Holding
    <2>3. keychain' \in Credential \cup {Absent} /\ Verified(keychain)'
      BY <1>0, <1>4 DEF LogoutRestore, LogoutRestoreFails, fileVars, TypeOK, Own, Verified
    <2>4. faults' \in 0 .. MaxFaults /\ edits' = edits
      BY <1>0, <1>4, FaultCounted DEF LogoutRestore, LogoutRestoreFails, boundVars
    <2>5. interrupted' \in BOOLEAN /\ UNCHANGED <<profile, serverVars, memoryVars, outcome, failed>>
      BY <1>0, <1>4 DEF LogoutRestore, LogoutRestoreFails, TypeOK, fileVars
    <2>6. TypeOK'
      BY <1>0, <2>1, <2>3, <2>4, <2>5 DEF TypeOK, serverVars, memoryVars
    <2>7. pc' = [pc EXCEPT ![o] = "done"]
      BY <1>4 DEF LogoutRestore, LogoutRestoreFails
    <2>8. Own(o)'
      BY <1>0, <2>5, <2>7 DEF Own, LogoutHolds, TypeOK, Verified, memoryVars
    <2>9. PairMatches'
      BY <1>0, <1>4, <2>2 DEF LogoutRestore, LogoutRestoreFails, PairMatches, Whole
    <2> QED
      BY <1>0, <2>1, <2>2, <2>3, <2>5, <2>6, <2>7, <2>8, <2>9, OwnStep DEF Same, TypeOK, memoryVars
  <1> QED
    BY <1>1, <1>2, <1>3, <1>4 DEF LogoutStep

-----------------------------------------------------------------------------
(* Profiles that are saved and removed.                                    *)

(* So do SaveProfile and RemoveProfile.                                    *)
LEMMA EditSteps ==
    ASSUME PairInv, SaveProfile \/ RemoveProfile
    PROVE  PairInv'
  <1>0. /\ TypeOK /\ Roles /\ Locked /\ PairMatches /\ Verified(keychain) /\ \A p \in Process : Own(p)
        /\ LockFree /\ UNCHANGED <<keychain, lockVars, serverVars, pc, memoryVars, outcome, interrupted, failed>>
    BY OwnParts DEF PairInv, SaveProfile, RemoveProfile, Edited
  <1>1. PICK v \in Profile \cup {Absent} :
           /\ Edited(v)
           /\ v # Absent => v.gen = NoGen
           /\ profile.seen # Absent => keychain = Absent
           /\ v = Absent => profile.seen # Absent
    <2>1. CASE SaveProfile
      <3>1. PICK t \in Topology : Edited([topology |-> t, gen |-> NoGen])
        BY <2>1 DEF SaveProfile
      <3>2. [topology |-> t, gen |-> NoGen] \in Profile
        BY DEF Profile
      <3>3. [topology |-> t, gen |-> NoGen] # Absent
        BY <3>2, ProfileValues
      <3> QED
        BY <2>1, <3>1, <3>2, <3>3 DEF SaveProfile
    <2>2. CASE RemoveProfile
      BY <2>2 DEF RemoveProfile
    <2> QED
      BY <2>1, <2>2
  <1>2. profile' \in FileOf(Profile \cup {Absent}) /\ profile'.seen = v
    BY <1>0, <1>1, ProfileWritten DEF Edited
  <1>3. faults' \in 0 .. MaxFaults
    BY <1>0, <1>1, FaultCounted DEF Edited
  <1>4. edits' \in 0 .. MaxEdits
    BY <1>0, TransactionConstants DEF SaveProfile, RemoveProfile, Edit, TypeOK
  <1>5. TypeOK'
    BY <1>0, <1>2, <1>3, <1>4 DEF TypeOK, lockVars, serverVars, memoryVars
  <1>6. Locked' /\ Verified(keychain)'
    BY <1>0 DEF Locked, Verified, lockVars
  <1>7. PairMatches'
    BY <1>0, <1>1, <1>2 DEF PairMatches, Matches, LockFree, lockVars
  <1>8. ASSUME NEW p \in Process PROVE Own(p)'
    <2>1. Alone(p) /\ pc[p] \notin Holding /\ pc[p] # "load"
      BY <1>0, ExclusiveAlone, TransactionConstants DEF Locked, LockFree, Roles, Process
    <2> QED
      BY <1>0, <2>1 DEF Own, LoginHolds, LogoutHolds, ClientHolds, Verified, Holding, memoryVars
  <1> QED
    BY <1>5, <1>6, <1>7, <1>8 DEF PairInv, Roles, AllVerified, UsableVerified, Own, Process

-----------------------------------------------------------------------------
(* Clients.                                                                *)

(* What a client that reads the pair concludes (loadBoundCredential).      *)
LEMMA Judgement ==
    ASSUME NEW p, NEW k, k \in Credential => k.owner = k.topology
    PROVE  /\ Judged(p, k) \in {"absent", "unbound", "due", "built"}
           /\ Judged(p, k) \in {"due", "built"} => k # Absent /\ Bound(k, p)
           /\ Judged(p, k) = "due" => k.token \in due
           /\ Judged(p, k) = "unbound" => k # Absent /\ ~Bound(k, p)
           /\ k \in Credential /\ Judged(p, k) = "built" => k.owner = p.topology
  BY DEF Judged, Bound

(* The two reads under the shared lock keep the invariant (readClient).    *)
LEMMA ReadSteps ==
    ASSUME PairInv, NEW c \in Client, ReadBegin(c) \/ ReadLoad(c)
    PROVE  PairInv'
  <1> USE DEF Goto
  <1>0. /\ c \in Process /\ c \notin Logout /\ c \notin Login /\ TypeOK /\ Roles /\ Locked
        /\ Own(c) /\ PairMatches /\ Verified(keychain)
    BY OwnParts, TransactionConstants DEF Process, PairInv
  <1>1. CASE ReadBegin(c)
    <2>1. /\ pc' \in [Process -> Places] /\ pc'[c] = "load" /\ \A q \in Process \ {c} : pc'[q] = pc[q]
          /\ shared' = shared \cup {c} /\ exclusive' = exclusive /\ exclusive = NoProc
      BY <1>0, <1>1 DEF ReadBegin, TypeOK, Places
    <2>2. Locked'
      BY <1>0, <1>1, <2>1 DEF ReadBegin, Locked, Holding, Process
    <2>3. /\ profile.seen \in Profile /\ known' \in [Process -> Profile \cup {Absent}]
          /\ known'[c] = profile.seen
      BY <1>0, <1>1 DEF ReadBegin, TypeOK, FileOf
    <2>4. TypeOK'
      BY <1>0, <1>1, <2>1, <2>3, TransactionConstants
         DEF ReadBegin, TypeOK, fileVars, serverVars, boundVars
    <2>5. Whole(keychain)'
      BY <1>0, <1>1, <2>1 DEF ReadBegin, Whole, PairMatches, fileVars
    <2>6. ClientHolds(c)' /\ outcome'[c] = "none"
      BY <1>0, <1>1, <2>1, <2>3, <2>5 DEF ReadBegin, Own, ClientHolds, fileVars, TypeOK
    <2>7. Own(c)'
      BY <1>0, <1>1, <2>1, <2>6 DEF ReadBegin, Own, Verified
    <2>8. PairMatches' /\ Verified(keychain)'
      BY <1>0, <1>1 DEF ReadBegin, PairMatches, Verified, fileVars
    <2> QED
      BY <1>0, <1>1, <2>1, <2>2, <2>4, <2>7, <2>8, OwnStep DEF ReadBegin, Same, TypeOK
  <1>2. CASE ReadLoad(c)
    <2> DEFINE verdict == Judged(known[c], keychain)
    <2>1. PICK to \in {"client", "done"} :
            /\ Goto(c, to)
            /\ \/ to = "client" /\ UNCHANGED outcome
               \/ to = "done" /\ outcome' = [outcome EXCEPT ![c] = verdict]
                  /\ verdict \in {"absent", "unbound", "built"}
      BY <1>0, <1>2, Judgement DEF ReadLoad, Verified
    <2>2. LockState' /\ pc'[c] = to /\ \A q \in Process \ {c} : pc'[q] = pc[q]
      BY <1>0, <1>2, <2>1, ReleaseLock DEF ReadLoad, Holding, Places
    <2>3. held' \in [Process -> Credential \cup {Absent}] /\ held'[c] = keychain
      BY <1>0, <1>2 DEF ReadLoad, TypeOK
    <2>4. outcome' \in [Client -> {"none", "absent", "unbound", "built"}]
      BY <1>0, <2>1 DEF TypeOK
    <2>5. TypeOK'
      BY <1>0, <1>2, <2>2, <2>3, <2>4 DEF ReadLoad, TypeOK, fileVars, serverVars, boundVars
    <2>6. outcome'[c] = "built" => held'[c].owner = known'[c].topology
      <3>1. outcome[c] = "none"
        BY <1>0, <1>2 DEF ReadLoad, Own, ClientHolds, TypeOK
      <3>2. /\ keychain \in Credential \cup {Absent}
            /\ outcome \in [Client -> {"none", "absent", "unbound", "built"}]
        BY <1>0 DEF TypeOK
      <3>3. outcome'[c] = "built" => verdict = "built"
        BY <2>1, <3>1, <3>2
      <3> QED
        BY <1>0, <1>2, <2>3, <3>2, <3>3, Judgement DEF ReadLoad, Verified
    <2>7. ClientHolds(c)'
      BY <1>0, <1>2, <2>1, <2>2 DEF ReadLoad, Own, ClientHolds, TypeOK
    <2>8. Own(c)'
      BY <1>0, <1>2, <2>1, <2>2, <2>3, <2>6, <2>7 DEF ReadLoad, Own, Verified
    <2>9. PairMatches' /\ Verified(keychain)'
      BY <1>0, <1>2 DEF ReadLoad, PairMatches, Verified, fileVars, Release, Own, ClientHolds, Whole
    <2> QED
      BY <1>0, <1>2, <2>1, <2>2, <2>3, <2>5, <2>8, <2>9, OwnStep DEF ReadLoad, Same, TypeOK
  <1> QED
    BY <1>1, <1>2

(* So does the read under the exclusive lock (client).                     *)
LEMMA ClientBegins ==
    ASSUME PairInv, NEW c \in Client, ClientBegin(c)
    PROVE  PairInv'
  <1> USE DEF Goto
  <1>0. /\ c \in Process /\ c \notin Logout /\ c \notin Login /\ TypeOK /\ Roles /\ Locked
        /\ Own(c) /\ PairMatches /\ Verified(keychain)
    BY OwnParts, TransactionConstants DEF Process, PairInv
  <1> DEFINE verdict == Judged(profile.seen, keychain)
  <1>1. LockFree /\ profile.seen \in Profile /\ profile.seen # Absent /\ Whole(keychain)
    BY <1>0 DEF ClientBegin, TypeOK, FileOf, PairMatches, Whole, LockFree
  <1>2. outcome[c] = "none" /\ pc[c] \in {"idle", "client"}
    BY <1>0 DEF ClientBegin, Own, ClientHolds, TypeOK
  <1>3. /\ known' \in [Process -> Profile \cup {Absent}] /\ known'[c] = profile.seen
        /\ held' \in [Process -> Credential \cup {Absent}] /\ held'[c] = keychain
        /\ prior' \in [Process -> Credential \cup {Absent, Torn}] /\ prior'[c] = keychain
        /\ \A q \in Process \ {c} : known'[q] = known[q] /\ held'[q] = held[q] /\ prior'[q] = prior[q]
    BY <1>0, <1>1 DEF ClientBegin, TypeOK
  <1>4. UNCHANGED <<profile, keychain, shared, issued, valid, due, presented, edits, faults, interrupted, failed>>
    BY DEF ClientBegin, fileVars, serverVars, boundVars
  <1>5. Verified(keychain)' /\ Verified(held[c])' /\ Verified(prior[c])' /\ Whole(keychain)'
    BY <1>0, <1>1, <1>3, <1>4 DEF Verified, Whole
  <1>6. CASE verdict = "due"
    <2>1. Goto(c, "refresh") /\ exclusive' = c /\ UNCHANGED outcome
      BY <1>6 DEF ClientBegin
    <2>2. Locked' /\ exclusive' = c /\ shared' = {} /\ pc' \in [Process -> Places] /\ pc'[c] = "refresh" /\ \A q \in Process \ {c} : pc'[q] = pc[q]
      BY <1>0, <1>1, <1>4, <2>1, Acquire DEF Holding, LockFree
    <2>3. TypeOK'
      BY <1>0, <1>3, <1>4, <2>1, <2>2 DEF TypeOK
    <2>4. keychain \in Credential /\ keychain.token \in Tokens /\ Bound(keychain, profile.seen)
      <3>1. keychain # Absent /\ keychain.token \in due /\ Bound(keychain, profile.seen)
        BY <1>0, <1>6, Judgement DEF Verified
      <3>2. due \subseteq Tokens
        BY <1>0, TransactionConstants DEF TypeOK, Tokens
      <3> QED
        BY <1>0, <3>1, <3>2 DEF TypeOK
    <2>5. ClientHolds(c)'
      BY <1>1, <1>2, <1>3, <1>4, <1>5, <2>1, <2>2, <2>4 DEF ClientHolds, Bound
    <2>6. Own(c)'
      BY <1>0, <1>2, <1>5, <2>1, <2>2, <2>5 DEF Own
    <2>7. PairMatches'
      BY <1>0, <2>1, TransactionConstants DEF PairMatches
    <2> QED
      BY <1>0, <1>1, <1>3, <1>5, <2>1, <2>2, <2>3, <2>6, <2>7, OwnStep DEF Same
  <1>7. CASE verdict # "due"
    <2>1. Goto(c, "done") /\ outcome' = [outcome EXCEPT ![c] = verdict] /\ UNCHANGED exclusive
      BY <1>7 DEF ClientBegin
    <2>2. LockState' /\ pc'[c] = "done" /\ \A q \in Process \ {c} : pc'[q] = pc[q]
      BY <1>0, <1>2, <1>4, <2>1, KeepLock DEF Holding, Places, lockVars
    <2>3. verdict \in {"absent", "unbound", "built"}
      BY <1>0, <1>7, Judgement DEF Verified
    <2>4. outcome' \in [Client -> {"none", "absent", "unbound", "built"}] /\ outcome'[c] = verdict
          /\ \A d \in Client \ {c} : outcome'[d] = outcome[d]
      BY <1>0, <2>1, <2>3 DEF TypeOK
    <2>5. TypeOK'
      BY <1>0, <1>3, <1>4, <2>2, <2>4 DEF TypeOK
    <2>6. outcome'[c] = "built" => held'[c].owner = known'[c].topology
      <3>1. verdict = "built" => keychain \in Credential
        BY <1>0, Judgement DEF Verified, TypeOK
      <3>2. verdict = "built" => keychain.owner = profile.seen.topology
        BY <1>0, <3>1, Judgement DEF Verified
      <3> QED
        BY <1>3, <2>4, <3>2
    <2>7. Own(c)'
      BY <1>0, <1>5, <2>2, <2>6 DEF Own, ClientHolds
    <2>8. PairMatches'
      BY <1>0, <1>4, <2>1 DEF PairMatches
    <2> QED
      BY <1>0, <1>1, <1>3, <1>5, <2>2, <2>4, <2>5, <2>7, <2>8, OwnStep DEF Same
  <1> QED
    BY <1>6, <1>7

(* What a refresh in progress relies on (refreshIfNeeded).                 *)
LEMMA Refreshing ==
    ASSUME PairInv, NEW c \in Client, pc[c] \in {"refresh", "answer", "resave"}
    PROVE  /\ c \in Process /\ c \notin Logout /\ c \notin Login /\ exclusive = c
           /\ TypeOK /\ Roles /\ Locked /\ Own(c) /\ PairMatches /\ Verified(keychain)
           /\ profile.seen # Absent /\ known[c] = profile.seen /\ Whole(keychain)
           /\ keychain \in Credential /\ keychain.token \in Tokens /\ prior[c] = keychain
           /\ Bound(keychain, profile.seen)
           /\ held[c] \in Credential /\ held[c].token \in Tokens /\ Bound(held[c], profile.seen) /\ held[c].owner = held[c].topology
           /\ outcome[c] = "none" /\ outcome \in [Client -> {"none", "absent", "unbound", "built"}]
  <1>1. /\ c \in Process /\ c \notin Logout /\ c \notin Login /\ TypeOK /\ Roles /\ Locked
        /\ Own(c) /\ PairMatches /\ Verified(keychain)
    BY OwnParts, TransactionConstants DEF Process, PairInv
  <1> QED
    BY <1>1 DEF Own, ClientHolds, Locked, Holding, TypeOK, Verified

(* Counting a presented token keeps the counters' type.                    *)
LEMMA Counted ==
    ASSUME NEW f \in [Tokens -> Nat], NEW t \in Tokens
    PROVE  [f EXCEPT ![t] = @ + 1] \in [Tokens -> Nat]
  OBVIOUS

(* A rotation issues one token more.                                       *)
LEMMA RotatedTokens ==
    ASSUME TypeOK, NEW t, Rotated(t) \/ UNCHANGED <<issued, valid>>
    PROVE  issued' \in 0 .. MaxTokens /\ valid' \subseteq 1 .. issued' /\ due \subseteq 1 .. issued'
  <1>1. CASE Rotated(t)
    BY <1>1, TransactionConstants DEF Rotated, TypeOK
  <1>2. CASE UNCHANGED <<issued, valid>>
    BY <1>2 DEF TypeOK
  <1> QED
    BY <1>1, <1>2

(* Presenting a refresh token, and losing the answer.                      *)
LEMMA RefreshUnanswered ==
    ASSUME PairInv, NEW c \in Client, RefreshSend(c) \/ RefreshFails(c)
    PROVE  PairInv'
  <1> USE DEF Goto
  <1>0. pc[c] \in {"refresh", "answer"}
    BY DEF RefreshSend, RefreshFails
  <1>1. /\ c \in Process /\ TypeOK /\ Locked /\ Own(c) /\ PairMatches /\ Verified(keychain)
        /\ exclusive = c
    BY <1>0, Refreshing
  <1>2. CASE RefreshSend(c)
    <2>1. Locked' /\ pc' \in [Process -> Places] /\ UNCHANGED lockVars
      BY <1>1, <1>2, KeepLock DEF RefreshSend, Holding, Places
    <2>2. presented' \in [Tokens -> Nat]
      <3>1. /\ presented \in [Tokens -> Nat]
            /\ presented' = [presented EXCEPT ![held[c].token] = @ + 1]
        BY <1>1, <1>2 DEF RefreshSend, TypeOK
      <3> QED
        BY <1>0, <3>1, Counted, Refreshing
    <2>3. TypeOK'
      BY <1>1, <1>2, <2>1, <2>2 DEF RefreshSend, TypeOK, fileVars, lockVars, memoryVars, boundVars
    <2>4. Own(c)'
      BY <1>1, <1>2
         DEF RefreshSend, Own, ClientHolds, LoginHolds, LogoutHolds, TypeOK, Verified, Whole,
             memoryVars, fileVars, Process
    <2>5. PairMatches' /\ Verified(keychain)'
      BY <1>1, <1>2 DEF RefreshSend, PairMatches, Verified, fileVars, lockVars
    <2> QED
      BY <1>1, <1>2, <2>1, <2>3, <2>4, <2>5, OwnStep DEF RefreshSend, Same, TypeOK, memoryVars
  <1>3. CASE RefreshFails(c)
    <2>1. LockState'
      BY <1>1, <1>3, ReleaseLock DEF RefreshFails, Holding, Places
    <2>2. issued' \in 0 .. MaxTokens /\ valid' \subseteq 1 .. issued' /\ due \subseteq 1 .. issued'
      BY <1>1, <1>3, RotatedTokens DEF RefreshFails
    <2>3. failed' \subseteq Tokens
      BY <1>0, <1>1, <1>3, Refreshing DEF RefreshFails, CutsRefresh, TypeOK
    <2>4. TypeOK'
      BY <1>1, <1>3, <2>1, <2>2, <2>3 DEF RefreshFails, TypeOK, fileVars, memoryVars, boundVars
    <2>5. Own(c)'
      BY <1>0, <1>1, <1>3, Refreshing
         DEF RefreshFails, Own, ClientHolds, TypeOK, Verified, memoryVars
    <2>6. PairMatches' /\ Verified(keychain)'
      BY <1>0, <1>1, <1>3, Refreshing DEF RefreshFails, PairMatches, Verified, Whole, fileVars
    <2> QED
      BY <1>1, <1>3, <2>1, <2>4, <2>5, <2>6, OwnStep DEF RefreshFails, Same, TypeOK, memoryVars
  <1> QED
    BY <1>2, <1>3

(* The rotated token is taken over into the held credential.               *)
LEMMA RefreshAnswer ==
    ASSUME PairInv, NEW c \in Client, RefreshAnswered(c)
    PROVE  PairInv'
  <1> USE DEF Goto
  <1>0. pc[c] \in {"refresh", "answer", "resave"}
    BY DEF RefreshAnswered
  <1>1. /\ c \in Process /\ TypeOK /\ Locked /\ Own(c) /\ PairMatches /\ Verified(keychain)
        /\ exclusive = c
    BY <1>0, Refreshing
  <1> DEFINE renewed == [held[c] EXCEPT !.token = issued + 1]
  <1>2. /\ issued' = issued + 1 /\ issued' \in 1 .. MaxTokens /\ valid' \subseteq 1 .. issued'
        /\ due \subseteq 1 .. issued'
    BY <1>1, TransactionConstants DEF RefreshAnswered, Rotated, TypeOK
  <1>3. /\ renewed \in Credential /\ renewed.topology = held[c].topology
        /\ renewed.gen = held[c].gen /\ renewed.owner = held[c].owner /\ renewed.token \in Tokens
    <2>1. held[c] \in Credential /\ issued + 1 \in 0 .. MaxTokens /\ issued + 1 \in Tokens
      BY <1>0, <1>1, <1>2, Refreshing, TransactionConstants DEF TypeOK, Tokens
    <2> QED
      BY <2>1 DEF Credential
  <1>4. held' = [held EXCEPT ![c] = renewed]
    BY DEF RefreshAnswered
  <1> HIDE DEF renewed
  <1>5. held' \in [Process -> Credential \cup {Absent}] /\ held'[c] = renewed
    BY <1>1, <1>3, <1>4 DEF TypeOK
  <1>6. Locked' /\ pc' \in [Process -> Places] /\ UNCHANGED lockVars /\ pc'[c] = "resave" /\ \A q \in Process \ {c} : pc'[q] = pc[q]
    BY <1>1, KeepLock DEF RefreshAnswered, Holding, Places
  <1>7. TypeOK'
    BY <1>1, <1>2, <1>5, <1>6 DEF RefreshAnswered, TypeOK, fileVars, lockVars, boundVars
  <1>8. ClientHolds(c)'
    BY <1>0, <1>1, <1>3, <1>5, <1>6, Refreshing
       DEF RefreshAnswered, ClientHolds, Whole, Bound, fileVars
  <1>9. Own(c)'
    BY <1>0, <1>3, <1>5, <1>6, <1>8, <1>1, Refreshing DEF RefreshAnswered, Own, Verified
  <1>10. PairMatches' /\ Verified(keychain)'
    BY <1>1, <1>6 DEF RefreshAnswered, PairMatches, Verified, fileVars, lockVars
  <1> QED
    BY <1>1, <1>4, <1>6, <1>7, <1>9, <1>10, OwnStep DEF RefreshAnswered, Same, TypeOK

(* The held credential is saved, or perhaps not.                           *)
LEMMA RefreshSaves ==
    ASSUME PairInv, NEW c \in Client, RefreshSave(c) \/ RefreshSaveFails(c)
    PROVE  PairInv'
  <1> USE DEF Goto
  <1>0. pc[c] \in {"refresh", "answer", "resave"}
    BY DEF RefreshSave, RefreshSaveFails
  <1>1. /\ c \in Process /\ TypeOK /\ Locked /\ Own(c) /\ PairMatches /\ Verified(keychain)
        /\ exclusive = c
    BY <1>0, Refreshing
  <1>2. LockState' /\ pc'[c] = "done" /\ \A q \in Process \ {c} : pc'[q] = pc[q]
    BY <1>1, ReleaseLock DEF RefreshSave, RefreshSaveFails, Holding, Places
  <1>3. keychain' \in Credential /\ Verified(keychain)' /\ Bound(keychain', profile.seen)
    BY <1>0, <1>1, Refreshing DEF RefreshSave, RefreshSaveFails, Verified
  <1>4. UNCHANGED <<profile, serverVars, memoryVars, edits, interrupted>>
    BY DEF RefreshSave, RefreshSaveFails, boundVars
  <1>5. /\ outcome' \in [Client -> {"none", "absent", "unbound", "built"}]
        /\ outcome'[c] \in {"none", "built"}
        /\ \A d \in Client \ {c} : outcome'[d] = outcome[d]
    BY <1>0, <1>1, Refreshing DEF RefreshSave, RefreshSaveFails
  <1>6. failed' \subseteq Tokens
    BY <1>0, <1>1, Refreshing DEF RefreshSave, RefreshSaveFails, CutsRefresh, TypeOK
  <1>7. faults' \in 0 .. MaxFaults
    BY <1>1, FaultCounted DEF RefreshSave, RefreshSaveFails, boundVars
  <1>8. TypeOK'
    BY <1>1, <1>2, <1>3, <1>4, <1>5, <1>6, <1>7 DEF TypeOK, serverVars, memoryVars
  <1>9. Own(c)'
    BY <1>0, <1>1, <1>2, <1>4, Refreshing DEF Own, ClientHolds, Verified, memoryVars, Bound
  <1>10. PairMatches'
    BY <1>0, <1>1, <1>3, <1>4, Refreshing, CredentialForm DEF PairMatches, Matches
  <1> QED
    BY <1>1, <1>2, <1>3, <1>4, <1>5, <1>8, <1>9, <1>10, OwnStep DEF Same, memoryVars

(* Every step of a client keeps the invariant.                             *)
LEMMA ClientSteps ==
    ASSUME PairInv, NEW c \in Client, ClientStep(c)
    PROVE  PairInv'
  BY ReadSteps, ClientBegins, RefreshUnanswered, RefreshAnswer, RefreshSaves DEF ClientStep

-----------------------------------------------------------------------------
(* The environment.                                                        *)

(* An access token that becomes due changes nothing the invariant needs.   *)
LEMMA ExpireStep ==
    ASSUME PairInv, NEW t \in Tokens, Expire(t)
    PROVE  PairInv'
  BY DEF Expire, PairInv, TypeOK, Roles, Locked, AllVerified, PairMatches, UsableVerified,
         LoginHolds, LogoutHolds, ClientHolds, Verified, SameIntent, Whole, fileVars, lockVars, memoryVars, boundVars

(* What is cut off was the use of a refresh token that exists.             *)
LEMMA CutTokens ==
    ASSUME PairInv, NEW p \in Process
    PROVE  CutsRefresh(p) \subseteq Tokens
  <1>1. CASE pc[p] \in {"answer", "resave"}
    <2>1. p \in Client
      BY <1>1 DEF PairInv, Roles, Process
    <2> QED
      BY <1>1, <2>1, Refreshing DEF CutsRefresh
  <1>2. CASE pc[p] \notin {"answer", "resave"}
    BY <1>2 DEF CutsRefresh
  <1> QED
    BY <1>1, <1>2

(* Without a cut-off between two writes the pair matches as it is.         *)
LEMMA UncutPair ==
    ASSUME PairInv, NEW p \in Process, exclusive = p, ~CutsPair(p)
    PROVE  Whole(keychain)
  <1>1. pc[p] \in {"refresh", "answer", "resave"}
    BY TransactionConstants DEF PairInv, Locked, CutsPair, Holding
  <1>2. p \in Client
    BY <1>1 DEF PairInv, Roles, Process
  <1> QED
    BY <1>1, <1>2, Refreshing

(* An invocation that gives up or is killed leaves the invariant.          *)
LEMMA EndSteps ==
    ASSUME PairInv, NEW p \in Process, GiveUp(p) \/ Kill(p)
    PROVE  PairInv'
  <1> USE DEF Goto
  <1>1. TypeOK /\ Locked /\ Own(p) /\ PairMatches /\ Verified(keychain)
    BY OwnParts
  <1>2. /\ Release(p) /\ Goto(p, "done")
        /\ UNCHANGED <<fileVars, serverVars, memoryVars, outcome, edits>>
    BY DEF GiveUp, Kill, boundVars
  <1>3. LockState' /\ pc'[p] = "done" /\ \A q \in Process \ {p} : pc'[q] = pc[q]
    BY <1>1, <1>2, ReleaseLock DEF Holding, Places
  <1>4. interrupted' \in BOOLEAN /\ (interrupted => interrupted') /\ (~interrupted' => ~CutsPair(p))
    BY <1>1 DEF GiveUp, Kill, TypeOK, CutsPair
  <1>5. failed' \subseteq Tokens
    BY <1>1, CutTokens DEF GiveUp, Kill, TypeOK
  <1>6. faults' \in 0 .. MaxFaults
    BY <1>1, FaultCounted DEF GiveUp, Kill, boundVars
  <1>7. TypeOK'
    BY <1>1, <1>2, <1>3, <1>4, <1>5, <1>6 DEF TypeOK, fileVars, serverVars, memoryVars
  <1>8. Own(p)'
    BY <1>1, <1>2, <1>3 DEF Own, LoginHolds, LogoutHolds, ClientHolds, Verified, memoryVars
  <1>9. PairMatches'
    BY <1>1, <1>2, <1>4, UncutPair DEF PairMatches, Release, Whole, fileVars
  <1>10. Verified(keychain)'
    BY <1>1, <1>2 DEF Verified, fileVars
  <1> QED
    BY <1>1, <1>2, <1>3, <1>4, <1>7, <1>8, <1>9, <1>10, OwnStep DEF Same, memoryVars

(* A power loss leaves the invariant.                                      *)
LEMMA PowerStep ==
    ASSUME PairInv, PowerLoss
    PROVE  PairInv'
  <1>1. TypeOK /\ Locked /\ Roles /\ PairMatches /\ Verified(keychain) /\ \A p \in Process : Own(p)
    BY OwnParts DEF PairInv
  <1>2. PICK v \in profile.disk : profile' = Stored(v)
    BY DEF PowerLoss
  <1>3. profile' \in FileOf(Profile \cup {Absent})
    BY <1>1, <1>2 DEF TypeOK, FileOf, Stored
  <1>4. /\ pc' = [p \in Process |-> IF pc[p] = "idle" THEN "idle" ELSE "done"]
        /\ exclusive' = NoProc /\ shared' = {}
        /\ UNCHANGED <<keychain, serverVars, memoryVars, outcome, edits>>
    BY DEF PowerLoss
  <1>5. failed' \subseteq Tokens
    BY <1>1, CutTokens DEF PowerLoss, TypeOK
  <1>6. /\ interrupted' \in BOOLEAN /\ (interrupted => interrupted')
        /\ ~interrupted' => profile'.seen = profile.seen /\ \A p \in Process : ~CutsPair(p)
    BY <1>1 DEF PowerLoss, TypeOK, CutsPair
  <1>7. faults' \in 0 .. MaxFaults
    BY <1>1, FaultCounted DEF PowerLoss
  <1>8. TypeOK'
    BY <1>1, <1>3, <1>4, <1>5, <1>6, <1>7 DEF TypeOK, serverVars, memoryVars, Places
  <1>9. Locked'
    BY <1>4, TransactionConstants DEF Locked, Holding, Process
  <1>10. PairMatches' /\ Verified(keychain)'
    <2>1. ASSUME ~interrupted' PROVE Whole(keychain) /\ ~interrupted /\ profile'.seen = profile.seen
      BY <1>1, <1>6, <2>1, UncutPair DEF PairMatches, Whole, TypeOK
    <2> QED
      BY <1>1, <1>4, <2>1 DEF PairMatches, Whole, Verified
  <1>11. ASSUME NEW p \in Process PROVE Own(p)'
    BY <1>1, <1>4 DEF Own, LoginHolds, LogoutHolds, ClientHolds, Verified, memoryVars
  <1> QED
    BY <1>8, <1>9, <1>10, <1>11 DEF PairInv, Roles, AllVerified, UsableVerified, Own, Process

-----------------------------------------------------------------------------
(* The refresh tokens.                                                     *)

TokenInv == TokensIssued /\ FreshTokens /\ TokensSpent

(* Tokens are numbers, and 0 is none.                                      *)
LEMMA TokenNumbers ==
    ASSUME TypeOK
    PROVE  /\ \A c : TokenOf(c) \in Nat
           /\ TokenOf(Absent) = 0 /\ TokenOf(Torn) = 0
           /\ \A c \in Credential : TokenOf(c) = c.token
           /\ issued \in Nat /\ Tokens \subseteq Nat \ {0} /\ presented \in [Tokens -> Nat]
  BY ProfileValues, CredentialForm, TransactionConstants DEF TypeOK, TokenOf, Tokens, Credential

(* What a step of one invocation leaves to the others.                     *)
Still(q) == pc'[q] = pc[q] /\ held'[q] = held[q] /\ prior'[q] = prior[q]

(* A step of p that only moves tokens: from where p can read them to where *)
(* p can write them.                                                       *)
Moves(p) ==
    /\ \A q \in Process \ {p} : Still(q)
    /\ \A t \in {TokenOf(keychain'), TokenOf(held'[p]), TokenOf(prior'[p])} :
          t \in {0, TokenOf(keychain), TokenOf(held[p]), TokenOf(prior[p])}
    /\ presented' = presented /\ issued' \in Nat /\ issued' >= issued

LEMMA IssuedMoved ==
    ASSUME TypeOK, TokensIssued, NEW p \in Process, Moves(p)
    PROVE  TokensIssued'
  <1>1. issued \in Nat /\ 0 <= issued
    BY TokenNumbers
  <1>2. \A t \in {0, TokenOf(keychain), TokenOf(held[p]), TokenOf(prior[p])} : t \in Nat /\ t <= issued
    BY <1>1, TokenNumbers DEF TokensIssued
  <1>3. TokenOf(keychain') <= issued' /\ TokenOf(held'[p]) <= issued' /\ TokenOf(prior'[p]) <= issued'
    BY <1>1, <1>2 DEF Moves
  <1>4. ASSUME NEW q \in Process \ {p} PROVE TokenOf(held'[q]) <= issued' /\ TokenOf(prior'[q]) <= issued'
    BY <1>1, TokenNumbers DEF Moves, Still, TokensIssued
  <1>5. \A t \in Tokens : presented'[t] > 0 => t <= issued'
    BY <1>1, TokenNumbers DEF Moves, TokensIssued
  <1> QED
    BY <1>3, <1>4, <1>5 DEF TokensIssued

LEMMA FreshMoved ==
    ASSUME TypeOK, FreshTokens, NEW p \in Process, Moves(p), pc'[p] \notin {"save", "resave"},
           pc'[p] \in {"refresh", "answer"} => held'[p] = prior'[p]
    PROVE  FreshTokens'
  <1>1. ASSUME NEW l \in Login, pc'[l] = "save", TokenOf(held'[l]) \in Tokens
        PROVE  /\ presented'[TokenOf(held'[l])] = 0
               /\ TokenOf(keychain') # TokenOf(held'[l])
               /\ \A q \in Process \ {l} : TokenOf(held'[q]) # TokenOf(held'[l]) /\ TokenOf(prior'[q]) # TokenOf(held'[l])
    <2>1. l # p /\ l \in Process /\ Still(l)
      BY <1>1 DEF Moves, Process
    <2>2. /\ presented[TokenOf(held[l])] = 0 /\ TokenOf(held[l]) # 0
          /\ TokenOf(keychain) # TokenOf(held[l])
          /\ \A q \in Process \ {l} : TokenOf(held[q]) # TokenOf(held[l]) /\ TokenOf(prior[q]) # TokenOf(held[l])
      BY <1>1, <2>1, TokenNumbers DEF FreshTokens, Still
    <2>3. TokenOf(held'[l]) \notin {0, TokenOf(keychain), TokenOf(held[p]), TokenOf(prior[p])}
      BY <2>1, <2>2 DEF Still
    <2> QED
      BY <2>1, <2>2, <2>3 DEF Moves, Still
  <1>2. ASSUME NEW c \in Client
        PROVE  /\ pc'[c] \in {"refresh", "answer"} => held'[c] = prior'[c]
               /\ pc'[c] = "resave" => presented'[held'[c].token] = 0
    BY <1>2 DEF FreshTokens, Moves, Still, Process
  <1> QED
    BY <1>1, <1>2 DEF FreshTokens

(* Whoever waits for a token holds the lock, and alone.                    *)
LEMMA PendingAlone ==
    ASSUME PairInv, NEW t, NEW p \in Process, Pending(t), LockFree \/ exclusive = p
    PROVE  exclusive = p /\ p \in Client /\ pc[p] \in {"answer", "resave"} /\ TokenOf(prior[p]) = t
  <1>1. PICK c \in Client : pc[c] \in {"answer", "resave"} /\ TokenOf(prior[c]) = t
    BY DEF Pending
  <1>2. exclusive = c /\ c # NoProc
    BY <1>1, TransactionConstants DEF PairInv, Locked, Holding, Process
  <1> QED
    BY <1>1, <1>2 DEF LockFree

(* A step that neither stores a token nor takes the lock to store one, and *)
(* ends no refresh without counting it as failed.                          *)
Quiet(p) ==
    /\ \A q \in Process \ {p} : Still(q)
    /\ CutsPair(p)' => CutsPair(p) /\ prior'[p] = prior[p]
    /\ keychain' = keychain /\ presented' = presented /\ failed \subseteq failed'
    /\ \/ CutsRefresh(p) \subseteq failed'
       \/ pc'[p] \in {"answer", "resave"} /\ prior'[p] = prior[p]

LEMMA SpentQuietly ==
    ASSUME PairInv, TokensSpent, NEW p \in Process, Quiet(p)
    PROVE  TokensSpent'
  <1> SUFFICES ASSUME NEW t \in Tokens, presented'[t] > 0, t \notin failed'
               PROVE  presented'[t] = 1 /\ (Pending(t)' \/ Gone(t)')
    BY DEF TokensSpent
  <1>1. presented'[t] = 1 /\ (Pending(t) \/ Gone(t))
    BY DEF Quiet, TokensSpent
  <1>2. CASE Gone(t)
    <2>1. TokenOf(keychain') # t
      BY <1>2 DEF Gone, Quiet
    <2>2. ASSUME NEW q \in Process, CutsPair(q)' PROVE TokenOf(prior'[q]) # t
      BY <1>2, <2>2 DEF Gone, Quiet, Still, CutsPair
    <2> QED
      BY <1>1, <2>1, <2>2 DEF Gone
  <1>3. CASE Pending(t)
    <2>1. PICK c \in Client : pc[c] \in {"answer", "resave"} /\ TokenOf(prior[c]) = t
      BY <1>3 DEF Pending
    <2>2. c \in Process
      BY DEF Process
    <2>3. CASE c # p
      BY <1>1, <2>1, <2>2, <2>3 DEF Quiet, Still, Pending
    <2>4. CASE c = p
      <3>1. t \in CutsRefresh(p)
        BY <2>1, <2>4, Refreshing, TokenNumbers DEF CutsRefresh
      <3> QED
        BY <1>1, <2>1, <2>4, <3>1 DEF Quiet, Pending
    <2> QED
      BY <2>3, <2>4
  <1> QED
    BY <1>1, <1>2, <1>3

(* A step under the lock may store a token that was not presented or that  *)
(* is restored.                                                            *)
LEMMA SpentStored ==
    ASSUME PairInv, TokensSpent, NEW p \in Process, LockFree \/ exclusive = p,
           \A q \in Process \ {p} : Still(q),
           presented' = presented, failed \subseteq failed',
           \A t \in Tokens : Gone(t) /\ presented[t] > 0 => TokenOf(keychain') # t,
           CutsPair(p)' => TokenOf(prior'[p]) \in {0, TokenOf(keychain)},
           pc[p] \in {"answer", "resave"} =>
              \/ CutsRefresh(p) \subseteq failed'
              \/ TokenOf(keychain') \in Tokens /\ presented[TokenOf(keychain')] = 0 /\ ~CutsPair(p)'
    PROVE  TokensSpent'
  <1> SUFFICES ASSUME NEW t \in Tokens, presented'[t] > 0, t \notin failed'
               PROVE  presented'[t] = 1 /\ (Pending(t)' \/ Gone(t)')
    BY DEF TokensSpent
  <1>0. t # 0
    BY TokenNumbers DEF PairInv
  <1>1. presented'[t] = 1 /\ (Pending(t) \/ Gone(t))
    BY DEF TokensSpent
  <1>2. CASE Gone(t)
    <2>1. TokenOf(keychain') # t
      BY <1>2
    <2>2. ASSUME NEW q \in Process, CutsPair(q)' PROVE TokenOf(prior'[q]) # t
      BY <1>0, <1>2, <2>2 DEF Gone, Still, CutsPair
    <2> QED
      BY <1>1, <2>1, <2>2 DEF Gone
  <1>3. CASE Pending(t)
    <2>1. exclusive = p /\ p \in Client /\ pc[p] \in {"answer", "resave"} /\ TokenOf(prior[p]) = t
      BY <1>3, PendingAlone
    <2>2. t \in CutsRefresh(p)
      BY <2>1, Refreshing, TokenNumbers DEF CutsRefresh
    <2>3. TokenOf(keychain') # t /\ ~CutsPair(p)'
      BY <2>1, <2>2, TokenNumbers DEF PairInv
    <2>4. ASSUME NEW q \in Process, CutsPair(q)' PROVE FALSE
      <3>1. q # p /\ CutsPair(q)
        BY <2>3, <2>4 DEF Still, CutsPair
      <3> QED
        BY <2>1, <3>1 DEF CutsPair, PairInv, Locked, Holding
    <2> QED
      BY <1>1, <2>3, <2>4 DEF Gone
  <1> QED
    BY <1>1, <1>2, <1>3

LEMMA Went ==
    ASSUME TypeOK, NEW p \in Process, NEW to, Goto(p, to)
    PROVE  pc'[p] = to /\ \A q \in Process \ {p} : pc'[q] = pc[q]
  BY DEF TypeOK, Goto

(* Steps that leave every token where it is.                               *)
LEMMA QuietStep ==
    ASSUME PairInv, TokenInv, NEW p \in Process, NEW to, Goto(p, to),
           to \notin {"save", "refresh", "answer", "resave"},
           to \in {"publish", "rollback", "remove", "restore"} => CutsPair(p),
           UNCHANGED <<keychain, held, prior, presented>>, issued' \in Nat, issued' >= issued,
           failed \subseteq failed', CutsRefresh(p) \subseteq failed'
    PROVE  TokenInv'
  <1>1. TypeOK
    BY DEF PairInv
  <1>2. pc'[p] = to /\ \A q \in Process \ {p} : Still(q)
    BY <1>1, Went DEF Still
  <1>3. Moves(p)
    BY <1>2 DEF Moves
  <1>4. Quiet(p)
    BY <1>2 DEF Quiet, CutsPair
  <1> QED
    BY <1>1, <1>2, <1>3, <1>4, IssuedMoved, FreshMoved, SpentQuietly DEF TokenInv

(* Steps that store a token, or restore or forget one.                     *)
LEMMA StoreStep ==
    ASSUME PairInv, TokenInv, NEW p \in Process, NEW to, Goto(p, to), LockFree \/ exclusive = p,
           to \notin {"save", "refresh", "answer", "resave"},
           \A q \in Process \ {p} : prior'[q] = prior[q],
           UNCHANGED <<held, presented, issued>>, failed \subseteq failed',
           TokenOf(prior'[p]) \in {0, TokenOf(prior[p]), TokenOf(keychain)},
           \/ TokenOf(keychain') \in {0, TokenOf(keychain)}
           \/ /\ TokenOf(keychain') = TokenOf(held[p])
              /\ TokenOf(held[p]) \in Tokens => presented[TokenOf(held[p])] = 0
           \/ TokenOf(keychain') = TokenOf(prior[p]) /\ CutsPair(p),
           to \in {"publish", "rollback", "remove", "restore"} => TokenOf(prior'[p]) \in {0, TokenOf(keychain)},
           pc[p] \in {"answer", "resave"} =>
              \/ CutsRefresh(p) \subseteq failed'
              \/ TokenOf(keychain') \in Tokens /\ presented[TokenOf(keychain')] = 0 /\ to = "done"
    PROVE  TokenInv'
  <1>1. TypeOK
    BY DEF PairInv
  <1>2. pc'[p] = to /\ \A q \in Process \ {p} : Still(q)
    BY <1>1, Went DEF Still
  <1>3. issued \in Nat /\ Tokens \subseteq Nat \ {0} /\ presented \in [Tokens -> Nat]
    BY <1>1, TokenNumbers
  <1>4. Moves(p)
    BY <1>2, <1>3 DEF Moves
  <1>5. ASSUME NEW t \in Tokens, Gone(t), presented[t] > 0 PROVE TokenOf(keychain') # t
    BY <1>3, <1>5 DEF Gone
  <1>6. CutsPair(p)' => TokenOf(prior'[p]) \in {0, TokenOf(keychain)}
    BY <1>2 DEF CutsPair
  <1>7. to = "done" => ~CutsPair(p)'
    BY <1>2 DEF CutsPair
  <1> QED
    BY <1>1, <1>2, <1>4, <1>5, <1>6, <1>7, IssuedMoved, FreshMoved, SpentStored DEF TokenInv

(* The steps of a login.                                                   *)
LEMMA LoginTokens ==
    ASSUME PairInv, TokenInv, NEW l \in Login, LoginStep(l)
    PROVE  TokenInv'
  <1>0. TypeOK /\ l \in Process /\ issued \in Nat /\ keychain # Torn
    BY TokenNumbers, ProfileValues, FileContentAssumption DEF PairInv, Process, TypeOK
  <1>1. CASE LoginBegin(l) \/ LoginPublish(l) \/ LoginPublishFails(l) \/ LoginRollbackFails(l)
    <2>1. PICK to \in {"verify", "done", "rollback"} : Goto(l, to) /\ (to = "rollback" => pc[l] = "publish")
      BY <1>1 DEF LoginBegin, LoginPublish, LoginPublishFails, LoginRollbackFails
    <2>2. UNCHANGED <<keychain, held, prior, presented, issued, failed>>
      BY <1>1 DEF LoginBegin, LoginPublish, LoginPublishFails, LoginRollbackFails, fileVars, memoryVars, serverVars
    <2>3. CutsRefresh(l) = {}
      BY <1>1 DEF LoginBegin, LoginPublish, LoginPublishFails, LoginRollbackFails, CutsRefresh
    <2> QED
      BY <1>0, <2>1, <2>2, <2>3, QuietStep DEF CutsPair
  <1>2. CASE LoginVerify(l)
    <2>1. PICK owner \in Topology, token \in {0} \cup (Tokens \cap {issued + 1}) :
            /\ held' = [held EXCEPT ![l] =
                  [topology |-> known[l].topology, gen |-> l, owner |-> owner, token |-> token]]
            /\ issued' = IF token = 0 THEN issued ELSE token
      BY <1>2 DEF LoginVerify
    <2>2. held'[l] = [topology |-> known[l].topology, gen |-> l, owner |-> owner, token |-> token]
      BY <1>0, <2>1 DEF TypeOK
    <2>3. TokenOf(held'[l]) \in {0, token}
      BY <2>2 DEF TokenOf
    <2>4. /\ Goto(l, "save") /\ UNCHANGED <<keychain, prior, presented, failed>>
          /\ pc[l] = "verify"
      BY <1>2 DEF LoginVerify, fileVars
    <2>5. pc'[l] = "save" /\ \A q \in Process \ {l} : Still(q)
      BY <1>0, <2>1, <2>4, Went DEF Still, TypeOK
    <2>6. Quiet(l)
      BY <2>4, <2>5 DEF Quiet, CutsPair, CutsRefresh
    <2>7. issued' \in Nat /\ issued' >= issued /\ TokenOf(held'[l]) <= issued'
          /\ (TokenOf(held'[l]) = 0 \/ TokenOf(held'[l]) = issued + 1)
      BY <1>0, <2>1, <2>3, TokenNumbers
    <2>8. /\ \A q \in Process : TokenOf(held[q]) <= issued /\ TokenOf(prior[q]) <= issued
          /\ TokenOf(keychain) <= issued /\ \A t \in Tokens : presented[t] > 0 => t <= issued
      BY DEF TokenInv, TokensIssued
    <2>9. TokensIssued'
      <3>1. ASSUME NEW q \in Process PROVE TokenOf(held'[q]) <= issued' /\ TokenOf(prior'[q]) <= issued'
        BY <1>0, <2>4, <2>5, <2>7, <2>8, TokenNumbers DEF Still
      <3>2. TokenOf(keychain') <= issued' /\ \A t \in Tokens : presented'[t] > 0 => t <= issued'
        BY <1>0, <2>4, <2>7, <2>8, TokenNumbers
      <3> QED
        BY <3>1, <3>2 DEF TokensIssued
    <2>10. FreshTokens'
      <3>1. ASSUME NEW k \in Login, pc'[k] = "save", TokenOf(held'[k]) \in Tokens
            PROVE  /\ presented'[TokenOf(held'[k])] = 0
                   /\ TokenOf(keychain') # TokenOf(held'[k])
                   /\ \A q \in Process \ {k} : TokenOf(held'[q]) # TokenOf(held'[k]) /\ TokenOf(prior'[q]) # TokenOf(held'[k])
        <4>1. CASE k = l
          <5>1. TokenOf(held'[k]) = issued + 1
            BY <1>0, <2>7, <3>1, <4>1, TokenNumbers
          <5>2. presented[issued + 1] = 0
            BY <1>0, <2>8, <3>1, <5>1, TokenNumbers
          <5> QED
            BY <1>0, <2>4, <2>5, <2>8, <4>1, <5>1, <5>2, TokenNumbers DEF Still
        <4>2. CASE k # l
          <5>1. k \in Process /\ Still(k)
            BY <2>5, <4>2 DEF Process
          <5>2. /\ presented[TokenOf(held[k])] = 0 /\ TokenOf(keychain) # TokenOf(held[k])
                /\ \A q \in Process \ {k} : TokenOf(held[q]) # TokenOf(held[k]) /\ TokenOf(prior[q]) # TokenOf(held[k])
            BY <3>1, <5>1 DEF TokenInv, FreshTokens, Still
          <5>3. TokenOf(held'[l]) # TokenOf(held[k])
            BY <1>0, <2>7, <2>8, <3>1, <5>1, TokenNumbers DEF Still
          <5> QED
            BY <2>4, <2>5, <5>1, <5>2, <5>3 DEF Still
        <4> QED
          BY <4>1, <4>2
      <3>2. ASSUME NEW c \in Client
            PROVE  /\ pc'[c] \in {"refresh", "answer"} => held'[c] = prior'[c]
                   /\ pc'[c] = "resave" => presented'[held'[c].token] = 0
        BY <2>4, <2>5, <3>2, TransactionConstants DEF TokenInv, FreshTokens, Still, Process
      <3> QED
        BY <3>1, <3>2 DEF FreshTokens
    <2> QED
      BY <1>0, <2>6, <2>9, <2>10, SpentQuietly DEF TokenInv
  <1>3. CASE LoginSave(l) \/ LoginSaveFails(l)
    <2>1. PICK to \in {"publish", "done"} :
             Goto(l, to) /\ (IF to = "publish" THEN prior'[l] = keychain ELSE prior'[l] = prior[l])
      BY <1>0, <1>3 DEF LoginSave, LoginSaveFails, TypeOK, memoryVars
    <2>2. /\ LockFree /\ pc[l] = "save" /\ UNCHANGED <<held, presented, issued, failed>>
          /\ keychain' \in {keychain, held[l]}
          /\ \A q \in Process \ {l} : prior'[q] = prior[q]
      BY <1>0, <1>3, <2>1 DEF LoginSave, LoginSaveFails, serverVars, memoryVars, TypeOK
    <2>3. TokenOf(held[l]) \in Tokens => presented[TokenOf(held[l])] = 0
      BY <2>2 DEF TokenInv, FreshTokens
    <2> QED
      BY <1>0, <2>1, <2>2, <2>3, StoreStep
  <1>4. CASE LoginRollback(l)
    <2>1. Goto(l, "done") /\ exclusive = l /\ pc[l] = "rollback"
      BY <1>0, <1>4 DEF LoginRollback, PairInv, Locked, Holding
    <2>2. /\ keychain' = prior[l] /\ CutsPair(l)
          /\ UNCHANGED <<held, prior, presented, issued, failed>>
      BY <1>4 DEF LoginRollback, CutsPair, serverVars, memoryVars
    <2> QED
      BY <1>0, <2>1, <2>2, StoreStep
  <1> QED
    BY <1>1, <1>2, <1>3, <1>4 DEF LoginStep

(* The steps of a logout.                                                  *)
LEMMA LogoutTokens ==
    ASSUME PairInv, TokenInv, NEW o \in Logout, LogoutStep(o)
    PROVE  TokenInv'
  <1>0. TypeOK /\ o \in Process /\ issued \in Nat /\ TokenOf(Absent) = 0 /\ TokenOf(Torn) = 0
    BY TokenNumbers DEF PairInv, Process
  <1>1. CASE LogoutDelete(o)
    <2>1. PICK found \in {keychain, Torn} : prior' = [prior EXCEPT ![o] = found]
      BY <1>1 DEF LogoutDelete
    <2>2. TokenOf(prior'[o]) \in {0, TokenOf(keychain)} /\ \A q \in Process \ {o} : prior'[q] = prior[q]
      BY <1>0, <2>1 DEF TypeOK
    <2>3. /\ Goto(o, "remove") /\ LockFree /\ TokenOf(keychain') = 0 /\ pc[o] = "idle"
          /\ UNCHANGED <<held, presented, issued, failed>>
      BY <1>0, <1>1 DEF LogoutDelete, serverVars
    <2> QED
      BY <1>0, <2>2, <2>3, StoreStep
  <1>2. CASE LogoutRemove(o) \/ LogoutRemoveFails(o) \/ LogoutRestoreFails(o)
    <2>1. PICK to \in {"done", "restore"} : Goto(o, to) /\ CutsPair(o)
      BY <1>2 DEF LogoutRemove, LogoutRemoveFails, LogoutRestoreFails, CutsPair
    <2>2. UNCHANGED <<keychain, held, prior, presented, issued, failed>>
      BY <1>2 DEF LogoutRemove, LogoutRemoveFails, LogoutRestoreFails, fileVars, memoryVars, serverVars
    <2>3. CutsRefresh(o) = {}
      BY <1>2 DEF LogoutRemove, LogoutRemoveFails, LogoutRestoreFails, CutsRefresh
    <2> QED
      BY <1>0, <2>1, <2>2, <2>3, QuietStep
  <1>3. CASE LogoutRestore(o)
    <2>1. Goto(o, "done") /\ exclusive = o /\ pc[o] = "restore" /\ CutsPair(o)
      BY <1>0, <1>3 DEF LogoutRestore, PairInv, Locked, Holding, CutsPair
    <2>2. keychain' \in {keychain, prior[o]} /\ UNCHANGED <<held, prior, presented, issued, failed>>
      BY <1>3 DEF LogoutRestore, serverVars, memoryVars
    <2> QED
      BY <1>0, <2>1, <2>2, StoreStep
  <1> QED
    BY <1>1, <1>2, <1>3 DEF LogoutStep

(* What a client reads is what is stored; it sends one that nobody sent.   *)
LEMMA ReadTokens ==
    ASSUME PairInv, TokenInv, NEW c \in Client, ReadBegin(c) \/ ReadLoad(c) \/ ClientBegin(c)
    PROVE  TokenInv'
  <1>0. TypeOK /\ c \in Process /\ issued \in Nat
    BY TokenNumbers DEF PairInv, Process
  <1>1. PICK to \in {"load", "client", "done", "refresh"} : Goto(c, to)
    BY DEF ReadBegin, ReadLoad, ClientBegin
  <1>2. /\ UNCHANGED <<keychain, presented, issued, failed>>
        /\ pc[c] \in {"idle", "load", "client"}
    BY DEF ReadBegin, ReadLoad, ClientBegin, fileVars, serverVars
  <1>3. /\ held'[c] \in {held[c], keychain} /\ prior'[c] \in {prior[c], keychain}
        /\ to = "refresh" => held'[c] = prior'[c]
        /\ \A q \in Process \ {c} : held'[q] = held[q] /\ prior'[q] = prior[q]
    BY <1>0, <1>1 DEF ReadBegin, ReadLoad, ClientBegin, TypeOK, Goto
  <1>4. pc'[c] = to /\ \A q \in Process \ {c} : Still(q)
    BY <1>0, <1>1, <1>3, Went DEF Still
  <1>5. Moves(c)
    BY <1>0, <1>2, <1>3, <1>4 DEF Moves
  <1>6. Quiet(c)
    BY <1>1, <1>2, <1>4 DEF Quiet, Still, CutsPair, CutsRefresh
  <1> QED
    BY <1>0, <1>1, <1>3, <1>4, <1>5, <1>6, IssuedMoved, FreshMoved, SpentQuietly DEF TokenInv

LEMMA SendTokens ==
    ASSUME PairInv, TokenInv, NEW c \in Client, RefreshSend(c)
    PROVE  TokenInv'
  <1> DEFINE t == keychain.token
  <1>0. /\ pc[c] = "refresh" /\ c \in Process /\ exclusive = c /\ TypeOK /\ keychain \in Credential /\ t \in Tokens
        /\ prior[c] = keychain /\ held[c] = keychain
    BY Refreshing DEF RefreshSend, TokenInv, FreshTokens
  <1>1. /\ TokenOf(keychain) = t /\ TokenOf(prior[c]) = t /\ issued \in Nat /\ presented \in [Tokens -> Nat]
        /\ Tokens \subseteq Nat \ {0} /\ TokenOf(keychain) <= issued
    BY <1>0, TokenNumbers DEF TokenInv, TokensIssued
  <1> HIDE DEF t
  <1>2. /\ UNCHANGED <<keychain, held, prior, issued, failed>>
        /\ Goto(c, "answer") /\ presented' = [presented EXCEPT ![t] = @ + 1]
    BY <1>0 DEF RefreshSend, fileVars, memoryVars, t
  <1>3. pc'[c] = "answer" /\ \A q \in Process \ {c} : Still(q)
    BY <1>0, <1>2, Went DEF Still
  <1>4. ASSUME NEW u \in Tokens PROVE ~Pending(u)
    BY <1>0, PendingAlone
  <1>5. \A u \in Tokens \ {t} : presented'[u] = presented[u]
    BY <1>1, <1>2
  <1>6. presented[t] > 0 => t \in failed
    BY <1>0, <1>1, <1>4 DEF TokenInv, TokensSpent, Gone
  <1>7. TokensIssued'
    BY <1>1, <1>2, <1>5 DEF TokenInv, TokensIssued
  <1>8. FreshTokens'
    <2>1. ASSUME NEW l \in Login, pc'[l] = "save", TokenOf(held'[l]) \in Tokens
          PROVE  /\ presented'[TokenOf(held'[l])] = 0
                 /\ TokenOf(keychain') # TokenOf(held'[l])
                 /\ \A q \in Process \ {l} : TokenOf(held'[q]) # TokenOf(held'[l]) /\ TokenOf(prior'[q]) # TokenOf(held'[l])
      <3>1. l # c /\ Still(l) /\ pc[l] = "save" /\ TokenOf(held[l]) \in Tokens
        BY <1>3, <2>1 DEF Process, Still
      <3>2. /\ presented[TokenOf(held[l])] = 0 /\ t # TokenOf(held[l])
            /\ \A q \in Process \ {l} : TokenOf(held[q]) # TokenOf(held[l]) /\ TokenOf(prior[q]) # TokenOf(held[l])
        BY <1>1, <3>1 DEF TokenInv, FreshTokens
      <3> QED
        BY <1>1, <1>2, <1>5, <3>1, <3>2 DEF Still
    <2>2. ASSUME NEW d \in Client
          PROVE  /\ pc'[d] \in {"refresh", "answer"} => held'[d] = prior'[d]
                 /\ pc'[d] = "resave" => presented'[held'[d].token] = 0
      <3>1. CASE d = c
        BY <1>0, <1>2, <1>3, <3>1
      <3>2. CASE d # c
        <4>1. pc[d] \notin Holding /\ Still(d)
          BY <1>0, <1>3, <3>2 DEF PairInv, Locked, Process
        <4> QED
          BY <4>1 DEF Still, Holding
      <3> QED
        BY <3>1, <3>2
    <2> QED
      BY <2>1, <2>2 DEF FreshTokens
  <1>9. TokensSpent'
    <2> SUFFICES ASSUME NEW u \in Tokens, presented'[u] > 0, u \notin failed'
                 PROVE  presented'[u] = 1 /\ (Pending(u)' \/ Gone(u)')
      BY DEF TokensSpent
    <2>1. CASE u = t
      <3>1. presented[t] = 0 /\ presented'[t] = 1
        BY <1>1, <1>2, <1>6, <2>1
      <3> QED
        BY <1>1, <1>2, <1>3, <2>1, <3>1 DEF Pending
    <2>2. CASE u # t
      <3>1. presented'[u] = presented[u] /\ presented[u] = 1 /\ Gone(u)
        BY <1>2, <1>4, <1>5, <2>2 DEF TokenInv, TokensSpent
      <3> QED
        BY <1>2, <1>3, <3>1 DEF Gone, CutsPair, Still
    <2> QED
      BY <2>1, <2>2
  <1> QED
    BY <1>7, <1>8, <1>9 DEF TokenInv

(* The answer brings a token that was never presented.                     *)
LEMMA AnswerTokens ==
    ASSUME PairInv, TokenInv, NEW c \in Client, RefreshAnswered(c)
    PROVE  TokenInv'
  <1>0. /\ pc[c] = "answer" /\ c \in Process /\ exclusive = c /\ TypeOK /\ held[c] \in Credential
    BY Refreshing DEF RefreshAnswered
  <1>1. /\ issued \in Nat /\ presented \in [Tokens -> Nat] /\ Tokens \subseteq Nat \ {0}
        /\ issued + 1 \in Tokens /\ issued' = issued + 1
    BY <1>0, TokenNumbers, TransactionConstants DEF RefreshAnswered, Rotated, Tokens
  <1> DEFINE renewed == [held[c] EXCEPT !.token = issued + 1]
  <1>2. renewed \in Credential /\ renewed.token = issued + 1
    BY <1>0, <1>1 DEF Credential, Tokens
  <1>3. /\ held' = [held EXCEPT ![c] = renewed] /\ Goto(c, "resave")
        /\ UNCHANGED <<keychain, prior, presented, failed>>
    BY DEF RefreshAnswered, fileVars
  <1> HIDE DEF renewed
  <1>4. held'[c] = renewed /\ TokenOf(held'[c]) = issued + 1 /\ held'[c].token = issued + 1
    BY <1>0, <1>2, <1>3, TokenNumbers DEF TypeOK
  <1>5. pc'[c] = "resave" /\ \A q \in Process \ {c} : Still(q)
    BY <1>0, <1>3, Went DEF Still, TypeOK
  <1>6. /\ \A q \in Process : TokenOf(held[q]) <= issued /\ TokenOf(prior[q]) <= issued
        /\ TokenOf(keychain) <= issued /\ \A u \in Tokens : presented[u] > 0 => u <= issued
    BY DEF TokenInv, TokensIssued
  <1>7. TokensIssued'
    <2>1. ASSUME NEW q \in Process PROVE TokenOf(held'[q]) <= issued' /\ TokenOf(prior'[q]) <= issued'
      BY <1>0, <1>1, <1>3, <1>4, <1>5, <1>6, TokenNumbers DEF Still
    <2>2. TokenOf(keychain') <= issued' /\ \A u \in Tokens : presented'[u] > 0 => u <= issued'
      BY <1>0, <1>1, <1>3, <1>6, TokenNumbers
    <2> QED
      BY <2>1, <2>2 DEF TokensIssued
  <1>8. presented[issued + 1] = 0
    BY <1>1, <1>6
  <1>9. FreshTokens'
    <2>1. ASSUME NEW l \in Login, pc'[l] = "save", TokenOf(held'[l]) \in Tokens
          PROVE  /\ presented'[TokenOf(held'[l])] = 0
                 /\ TokenOf(keychain') # TokenOf(held'[l])
                 /\ \A q \in Process \ {l} : TokenOf(held'[q]) # TokenOf(held'[l]) /\ TokenOf(prior'[q]) # TokenOf(held'[l])
      <3>1. l # c /\ l \in Process /\ Still(l) /\ pc[l] = "save" /\ TokenOf(held[l]) \in Tokens
        BY <1>5, <2>1 DEF Process, Still
      <3>2. /\ presented[TokenOf(held[l])] = 0 /\ TokenOf(keychain) # TokenOf(held[l])
            /\ \A q \in Process \ {l} : TokenOf(held[q]) # TokenOf(held[l]) /\ TokenOf(prior[q]) # TokenOf(held[l])
        BY <3>1 DEF TokenInv, FreshTokens
      <3>3. TokenOf(held'[c]) # TokenOf(held[l])
        BY <1>0, <1>1, <1>4, <1>6, <3>1, TokenNumbers
      <3> QED
        BY <1>3, <1>5, <3>1, <3>2, <3>3 DEF Still
    <2>2. ASSUME NEW d \in Client
          PROVE  /\ pc'[d] \in {"refresh", "answer"} => held'[d] = prior'[d]
                 /\ pc'[d] = "resave" => presented'[held'[d].token] = 0
      BY <1>3, <1>4, <1>5, <1>8, <2>2 DEF TokenInv, FreshTokens, Still, Process
    <2> QED
      BY <2>1, <2>2 DEF FreshTokens
  <1>10. Quiet(c)
    BY <1>0, <1>3, <1>5 DEF Quiet, Still, CutsPair
  <1> QED
    BY <1>0, <1>7, <1>9, <1>10, SpentQuietly DEF TokenInv

LEMMA SaveTokens ==
    ASSUME PairInv, TokenInv, NEW c \in Client, RefreshSave(c) \/ RefreshSaveFails(c) \/ RefreshFails(c)
    PROVE  TokenInv'
  <1>0. pc[c] \in {"answer", "resave"} /\ Goto(c, "done")
    BY DEF RefreshSave, RefreshSaveFails, RefreshFails
  <1>1. /\ c \in Process /\ exclusive = c /\ TypeOK /\ held[c] \in Credential /\ held[c].token \in Tokens
        /\ prior[c] = keychain /\ keychain \in Credential /\ keychain.token \in Tokens
    BY <1>0, Refreshing
  <1>2. /\ TokenOf(held[c]) = held[c].token /\ TokenOf(prior[c]) = keychain.token /\ TokenOf(keychain) = keychain.token
        /\ CutsRefresh(c) = {keychain.token} /\ issued \in Nat /\ presented \in [Tokens -> Nat]
    BY <1>0, <1>1, TokenNumbers DEF CutsRefresh
  <1>3. CASE RefreshFails(c)
    <2>1. issued' \in Nat /\ issued' >= issued
      BY <1>2, <1>3 DEF RefreshFails, Rotated
    <2>2. UNCHANGED <<keychain, held, prior, presented>> /\ failed' = failed \cup CutsRefresh(c)
      BY <1>3 DEF RefreshFails, fileVars, memoryVars
    <2> QED
      BY <1>0, <1>1, <2>1, <2>2, QuietStep
  <1>4. CASE RefreshSaveFails(c)
    <2>1. /\ keychain' \in {keychain, held[c]} /\ failed' = failed \cup CutsRefresh(c)
          /\ UNCHANGED <<held, prior, presented, issued>> /\ presented[held[c].token] = 0
      BY <1>4 DEF RefreshSaveFails, serverVars, memoryVars, TokenInv, FreshTokens
    <2> QED
      BY <1>0, <1>1, <1>2, <2>1, StoreStep
  <1>5. CASE RefreshSave(c)
    <2>1. /\ keychain' = held[c] /\ pc[c] = "resave"
          /\ UNCHANGED <<held, prior, presented, issued, failed>> /\ presented[held[c].token] = 0
      BY <1>5 DEF RefreshSave, serverVars, memoryVars, TokenInv, FreshTokens
    <2> QED
      BY <1>0, <1>1, <1>2, <2>1, StoreStep
  <1> QED
    BY <1>3, <1>4, <1>5

(* The rest of the program and the environment, and a power loss.          *)
LEMMA EndTokens ==
    ASSUME PairInv, TokenInv, NEW p \in Process, GiveUp(p) \/ Kill(p)
    PROVE  TokenInv'
  <1>1. /\ Goto(p, "done") /\ UNCHANGED <<keychain, held, prior, presented, issued>>
        /\ failed \subseteq failed' /\ CutsRefresh(p) \subseteq failed'
    BY DEF GiveUp, Kill, CutsRefresh, fileVars, serverVars, memoryVars
  <1> QED
    BY <1>1, TokenNumbers, QuietStep DEF PairInv

LEMMA IdleTokens ==
    ASSUME TokenInv, UNCHANGED <<keychain, held, prior, pc, presented, issued, failed>>
    PROVE  TokenInv'
  BY DEF TokenInv, TokensIssued, FreshTokens, TokensSpent, Pending, Gone, CutsPair

LEMMA PowerTokens ==
    ASSUME PairInv, TokenInv, PowerLoss
    PROVE  TokenInv'
  <1>1. /\ pc' = [p \in Process |-> IF pc[p] = "idle" THEN "idle" ELSE "done"]
        /\ UNCHANGED <<keychain, held, prior, presented, issued>>
        /\ failed \subseteq failed' /\ \A p \in Process : CutsRefresh(p) \subseteq failed'
    BY DEF PowerLoss, serverVars, memoryVars
  <1>2. \A p \in Process : pc'[p] \in {"idle", "done"}
    BY <1>1
  <1>3. TokensIssued'
    BY <1>1 DEF TokenInv, TokensIssued
  <1>4. FreshTokens'
    BY <1>2 DEF FreshTokens, Process
  <1>5. TokensSpent'
    <2> SUFFICES ASSUME NEW t \in Tokens, presented'[t] > 0, t \notin failed'
                 PROVE  presented'[t] = 1 /\ Gone(t)'
      BY DEF TokensSpent
    <2>1. presented[t] = 1 /\ (Pending(t) \/ Gone(t))
      BY <1>1 DEF TokenInv, TokensSpent
    <2>2. ~Pending(t)
      <3> SUFFICES ASSUME NEW c \in Client, pc[c] \in {"answer", "resave"}, TokenOf(prior[c]) = t PROVE FALSE
        BY DEF Pending
      <3>1. c \in Process /\ t \in CutsRefresh(c)
        BY Refreshing, TokenNumbers DEF CutsRefresh
      <3> QED
        BY <1>1, <3>1
    <2> QED
      BY <1>1, <1>2, <2>1, <2>2 DEF Gone, CutsPair
  <1> QED
    BY <1>3, <1>4, <1>5 DEF TokenInv

-----------------------------------------------------------------------------
(* Theorems.                                                               *)

(* The initial state satisfies the invariant.                              *)
LEMMA PairInit == Init => PairInv
  <1> SUFFICES ASSUME Init PROVE PairInv
    OBVIOUS
  <1>1. Missing \in FileOf(Profile \cup {Absent}) /\ Missing.seen = Absent
    BY DEF Missing, FileOf
  <1>2. TypeOK
    <2>1. /\ profile \in FileOf(Profile \cup {Absent}) /\ keychain \in Credential \cup {Absent}
          /\ exclusive \in Process \cup {NoProc} /\ shared \subseteq Client /\ (exclusive # NoProc => shared = {})
          /\ interrupted \in BOOLEAN /\ failed \subseteq Tokens
      BY <1>1 DEF Init
    <2>2. issued \in 0 .. MaxTokens /\ edits \in 0 .. MaxEdits /\ faults \in 0 .. MaxFaults
      BY TransactionConstants DEF Init
    <2>3. valid \subseteq 1 .. issued /\ due \subseteq 1 .. issued
      BY DEF Init
    <2>4. /\ presented \in [Tokens -> Nat] /\ pc \in [Process -> Places]
          /\ outcome \in [Client -> {"none", "absent", "unbound", "built"}]
      BY DEF Init, Places
    <2>5. /\ /\ known \in [Process -> Profile \cup {Absent}]
          /\ held \in [Process -> Credential \cup {Absent}]
          /\ prior \in [Process -> Credential \cup {Absent, Torn}]
      BY DEF Init
    <2> QED
      BY <2>1, <2>2, <2>3, <2>4, <2>5 DEF TypeOK
  <1>3. Locked /\ PairMatches
    BY <1>1, TransactionConstants DEF Init, Locked, PairMatches, Matches, Holding, Process
  <1>4. Verified(keychain) /\ \A p \in Process : Own(p)
    BY ProfileValues DEF Init, Own, LoginHolds, LogoutHolds, ClientHolds, Verified, Process
  <1> QED
    BY <1>2, <1>3, <1>4, OwnParts

(* Every step keeps it.                                                    *)
LEMMA PairStep == PairInv /\ [Next]_vars => PairInv'
  <1> SUFFICES ASSUME PairInv, [Next]_vars PROVE PairInv'
    OBVIOUS
  <1>1. ASSUME NEW l \in Login, LoginStep(l) PROVE PairInv'
    BY <1>1, LoginReads, LoginSaves, LoginEnds DEF LoginStep
  <1>2. ASSUME UNCHANGED vars PROVE PairInv'
    BY <1>2
       DEF vars, PairInv, TypeOK, Roles, Locked, AllVerified, PairMatches, UsableVerified,
         LoginHolds, LogoutHolds, ClientHolds, Verified, SameIntent, Whole,
         fileVars, lockVars, serverVars, memoryVars, boundVars
  <1> QED
    BY <1>1, <1>2, LogoutSteps, ClientSteps, EditSteps, ExpireStep, EndSteps, PowerStep DEF Next

LEMMA TokensInit == Init => TokenInv
  <1> SUFFICES ASSUME Init PROVE TokenInv
    OBVIOUS
  <1>1. TypeOK
    BY PairInit DEF PairInv
  <1>2. /\ TokenOf(Absent) = 0 /\ Tokens \subseteq Nat \ {0} /\ issued = 0 /\ keychain = Absent
        /\ \A p \in Process : held[p] = Absent /\ prior[p] = Absent /\ pc[p] = "idle"
        /\ \A t \in Tokens : presented[t] = 0
    BY <1>1, TokenNumbers DEF Init
  <1>3. TokensIssued
    BY <1>2 DEF TokensIssued
  <1>4. FreshTokens
    BY <1>2 DEF FreshTokens, Process
  <1>5. TokensSpent
    BY <1>2 DEF TokensSpent
  <1> QED
    BY <1>3, <1>4, <1>5 DEF TokenInv

LEMMA TokensStep == ASSUME PairInv, TokenInv, [Next]_vars PROVE TokenInv'
  <1>1. ASSUME NEW c \in Client, ClientStep(c) PROVE TokenInv'
    BY <1>1, ReadTokens, SendTokens, AnswerTokens, SaveTokens DEF ClientStep
  <1>2. ASSUME SaveProfile \/ RemoveProfile PROVE TokenInv'
    BY <1>2, IdleTokens DEF SaveProfile, RemoveProfile, Edited, serverVars, memoryVars
  <1>3. ASSUME NEW t \in Tokens, Expire(t) PROVE TokenInv'
    BY <1>3, IdleTokens DEF Expire, fileVars, memoryVars
  <1>4. ASSUME UNCHANGED vars PROVE TokenInv'
    BY <1>4, IdleTokens DEF vars, fileVars, serverVars, memoryVars
  <1> QED
    BY <1>1, <1>2, <1>3, <1>4, LoginTokens, LogoutTokens, EndTokens, PowerTokens DEF Next

(* The inductive invariant of the transactions holds (transaction.go,      *)
(* service.go).                                                            *)
THEOREM TransactionInvariant == Spec => []TransactionInv
  <1>1. Init => TransactionInv
    BY PairInit, TokensInit DEF TransactionInv, TokenInv
  <1>2. TransactionInv /\ [Next]_vars => TransactionInv'
    BY PairStep, TokensStep DEF TransactionInv, TokenInv
  <1> QED
    BY <1>1, <1>2, PTL DEF Spec

LEMMA PairHolds == Spec => []PairInv
  <1>1. TransactionInv => PairInv
    BY DEF TransactionInv
  <1> QED
    BY <1>1, TransactionInvariant, PTL

(* The variables keep their types.                                         *)
THEOREM TransactionTypes == Spec => []TypeOK
  <1>1. PairInv => TypeOK
    BY DEF PairInv
  <1> QED
    BY <1>1, PairHolds, PTL

(* Credential and profile belong together whenever no transaction holds    *)
(* the lock or was cut off (the compensations in transaction.go).          *)
THEOREM PairsMatch == Spec => []PairMatches
  <1>1. PairInv => PairMatches
    BY DEF PairInv
  <1> QED
    BY <1>1, PairHolds, PTL

(* No client is built with a credential of another account, also after     *)
(* what a power loss leaves (ValidateCredentialBinding).                   *)
THEOREM ClientsVerified == Spec => []UsableVerified
  <1>1. PairInv => UsableVerified
    BY DEF PairInv
  <1> QED
    BY <1>1, PairHolds, PTL

(* A login publishes over the profile it verified (loginLocked).           *)
THEOREM PublicationFenced == Spec => []PublishFenced
  <1>1. PairInv => PublishFenced
    BY DEF PairInv, LoginHolds, SameIntent, PublishFenced
  <1> QED
    BY <1>1, PairHolds, PTL

(* A credential is replaced or deleted only by a logout, a confirmed login *)
(* or the compensation of its own login                                    *)
(* (requireCredentialReplacementConfirmation).                             *)
THEOREM ConfirmedOverwrite == Spec => NoUnconfirmedOverwrite
  <1> DEFINE Replaced == keychain # Absent /\ (keychain' = Absent \/ keychain'.gen # keychain.gen)
             Allowed  == \/ exclusive = keychain.gen
                         \/ \E o \in Logout : pc'[o] # pc[o]
                         \/ \E l \in Confirmed : pc[l] = "save" /\ pc'[l] # "save"
  <1>1. ASSUME PairInv, [Next]_vars, Replaced PROVE Allowed
    <2> USE DEF Goto
    <2>0. TypeOK /\ Locked /\ keychain' # keychain
      BY <1>1 DEF PairInv
    <2>1. ASSUME NEW l \in Login, LoginStep(l) PROVE Allowed
      <3>1. CASE LoginSave(l) \/ LoginSaveFails(l)
        <4>1. l \in Confirmed /\ pc[l] = "save"
          BY <1>1, <3>1 DEF LoginSave, LoginSaveFails, MayOverwrite
        <4>2. pc'[l] # "save"
          BY <2>0, <2>1, <3>1 DEF LoginSave, LoginSaveFails, TypeOK, Process
        <4> QED
          BY <4>1, <4>2
      <3>2. CASE LoginRollback(l)
        BY <1>1, <2>0, <3>2 DEF LoginRollback, Locked, Holding, PairInv, LoginHolds, Process
      <3> QED
        BY <2>0, <2>1, <3>1, <3>2
           DEF LoginStep, LoginBegin, LoginVerify, LoginPublish, LoginPublishFails,
             LoginRollbackFails, fileVars
    <2>2. ASSUME NEW o \in Logout, LogoutStep(o) PROVE Allowed
      BY <2>0, <2>2 DEF LogoutStep, LogoutDelete, LogoutRemove, LogoutRemoveFails, LogoutRestore,
           LogoutRestoreFails, TypeOK, Process
    <2>3. ASSUME NEW c \in Client, ClientStep(c) PROVE Allowed
      <3>1. CASE RefreshSave(c) \/ RefreshSaveFails(c)
        <4>1. pc[c] \in {"refresh", "answer", "resave"}
          BY <3>1 DEF RefreshSave, RefreshSaveFails
        <4>2. held[c].gen = keychain.gen /\ held[c] # Absent
          BY <1>1, <4>1, Refreshing, CredentialForm DEF Bound
        <4> QED
          BY <1>1, <2>0, <3>1, <4>2 DEF RefreshSave, RefreshSaveFails
      <3> QED
        BY <2>0, <2>3, <3>1 DEF ClientStep, ReadBegin, ReadLoad, ClientBegin, RefreshSend,
             RefreshAnswered, RefreshFails, fileVars
    <2> QED
      BY <1>1, <2>0, <2>1, <2>2, <2>3
         DEF Next, SaveProfile, RemoveProfile, Edited, Expire, GiveUp, Kill,
           PowerLoss, vars, fileVars
  <1> QED
    BY <1>1, PairHolds, PTL DEF Spec, NoUnconfirmedOverwrite

(* A reader that refuses the pair as unbound has seen one that was cut     *)
(* off, never a transaction in progress (WithExistingProfileLock).         *)
THEOREM ReadersSeeWholePairs == Spec => ReadersSeePairs
  <1> DEFINE Refused(c) == outcome[c] # "unbound" /\ outcome'[c] = "unbound"
  <1>1. ASSUME PairInv, [Next]_vars PROVE \A c \in Client : Refused(c) => interrupted
    <2> SUFFICES ASSUME NEW d \in Client, Refused(d) PROVE interrupted
      OBVIOUS
    <2>0. TypeOK /\ outcome' # outcome /\ PairMatches
      BY <1>1 DEF PairInv
    <2>1. PICK c \in Client : ReadLoad(c) \/ ClientBegin(c) \/ RefreshSave(c)
      BY <1>1, <2>0 DEF Next, LoginStep, LogoutStep, ClientStep, LoginBegin, LoginVerify, LoginSave,
           LoginSaveFails, LoginPublish, LoginPublishFails, LoginRollback, LoginRollbackFails,
           LogoutDelete, LogoutRemove, LogoutRemoveFails, LogoutRestore, LogoutRestoreFails,
           ReadBegin, RefreshSend, RefreshAnswered, RefreshFails, RefreshSaveFails,
           SaveProfile, RemoveProfile, Edited, Expire, GiveUp, Kill, PowerLoss, vars
    <2>2. CASE ReadLoad(c)
      <3>1. Judged(known[c], keychain) = "unbound"
        BY <1>1, <2>0, <2>2 DEF ReadLoad, TypeOK
      <3>2. Whole(keychain) /\ known[c] = profile.seen
        BY <1>1, <2>2 DEF ReadLoad, PairInv, ClientHolds
      <3>3. keychain # Absent /\ ~Bound(keychain, profile.seen)
        BY <3>1, <3>2 DEF Judged
      <3> QED
        BY <3>2, <3>3 DEF Whole, Matches
    <2>3. CASE ClientBegin(c)
      <3>1. Judged(profile.seen, keychain) = "unbound"
        BY <1>1, <2>0, <2>3 DEF ClientBegin, TypeOK
      <3>2. keychain # Absent /\ ~Bound(keychain, profile.seen) /\ exclusive = NoProc
        BY <2>3, <3>1 DEF Judged, ClientBegin, LockFree
      <3> QED
        BY <2>0, <3>2 DEF PairMatches, Matches
    <2>4. CASE RefreshSave(c)
      BY <1>1, <2>0, <2>4 DEF RefreshSave, TypeOK
    <2> QED
      BY <2>1, <2>2, <2>3, <2>4
  <1> QED
    BY <1>1, PairHolds, PTL DEF Spec, ReadersSeePairs

(* A refresh token goes to the server a second time only after a refresh   *)
(* with it failed or was cut off (refreshIfNeeded).                        *)
THEOREM TokenPresentedOnce == Spec => []PresentedOnce
  <1>1. TransactionInv => PresentedOnce
    BY TokenNumbers DEF TransactionInv, PairInv, TokensSpent, PresentedOnce
  <1> QED
    BY <1>1, TransactionInvariant, PTL
=============================================================================
