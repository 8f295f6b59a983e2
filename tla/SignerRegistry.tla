--------------------------- MODULE SignerRegistry ---------------------------
(***************************************************************************)
(* The registry of approval signing keys: a chain of transition records    *)
(* replayed from genesis by two programs, internal/approval/               *)
(* registry_history.go (Go) and SuppliedRegistryHistory.swift (the macOS   *)
(* helper).  Both are given the same records by somebody they do not trust *)
(* and each decides alone; each extends what it has verified so far.       *)
(*                                                                         *)
(* A key tuple is its generation (its revision number is all a generation  *)
(* name holds), its identifier and its public key: the tag is a prefix and *)
(* the identifier, the fingerprint is the digest of the public key, and a  *)
(* record that says otherwise is refused before replay.  Digests do not    *)
(* collide: that of an accepted record is its place in the chain, any      *)
(* other is its document.  A signature is who made it over what.           *)
(***************************************************************************)
EXTENDS Integers, Sequences, FiniteSets

CONSTANTS
    MaxRecords,  \* suppliedRegistryMaxRecords, 256
    Window,      \* 300 seconds
    None         \* JSON null

ASSUME BoundsAssumption == MaxRecords \in Nat \ {0} /\ Window \in Nat \ {0}

Kinds == {"enroll", "rotate", "revoke", "recover"}
Statuses == {"active", "retained", "revoked"}

(* 64 zeros, the digest of no record.                                      *)
EmptyTip == 0

Signature(key, domain, message) == [by |-> key.spki, domain |-> domain, message |-> message]

Signed(key, signature, domain, message) ==
    key # None /\ signature = Signature(key, domain, message)

EmptyHistory == [revision |-> 0, tip |-> EmptyTip, descriptor |-> None, keys |-> <<>>]

VARIABLES records,   \* the prefix supplied so far, every record verified
          history,   \* SuppliedRegistryHistory of the Go verifier
          mirror     \* SuppliedRegistryHistory of the Swift verifier

vars == <<records, history, mirror>>

(* The digest of the record that is added to the chain now.                *)
NextTip == Len(records) + 1

Active(h) == {i \in DOMAIN h.keys : h.keys[i].status = "active"}

-----------------------------------------------------------------------------
(* The Go verifier.                                                        *)
GoGrammar(b) ==
    /\ b.kind \in Kinds
    /\ b.revision \in 1 .. MaxRecords
    /\ {b.targetPrevious, b.targetNew, b.newStatus} \subseteq Statuses \cup {None}
    /\ \A key \in {b.target, b.fresh} \ {None} : key.generation \in 1 .. MaxRecords
    /\ b.fresh # None => b.fresh.generation = b.revision

GoHeader(h, r) ==
    LET b == r.body IN
    /\ b.revision = h.revision + 1
    /\ b.previous = h.tip
    /\ b.requested <= b.accepted /\ b.accepted <= b.committed
    /\ b.committed - b.requested < Window
    /\ (b.recovery # None) <=> (b.kind = "recover")
    /\ b.revokesAll <=> (b.kind = "recover")
    /\ (r.oldSig # None) <=> (b.kind \in {"rotate", "revoke"})
    /\ (r.newSig # None) <=> (b.kind # "revoke")

GoTarget(h, b) ==
    /\ Cardinality(Active(h)) <= 1
    /\ Active(h) = {} => b.target = None /\ b.targetPrevious = None /\ b.targetNew = None
    /\ \A i \in Active(h) :
         /\ b.target = h.keys[i].key
         /\ b.targetPrevious = "active"
         /\ b.targetNew = IF b.kind = "rotate" THEN "retained" ELSE "revoked"

GoKind(h, b) ==
    /\ b.kind = "enroll" => b.revision = 1 /\ h.keys = <<>>
    /\ b.kind \in {"rotate", "revoke"} => Active(h) # {}
    /\ b.kind = "recover" => h.keys # <<>>

Unused(h, key) ==
    \A i \in DOMAIN h.keys :
        \A part \in {"generation", "id", "spki"} : key[part] # h.keys[i].key[part]

GoFresh(h, b) ==
    IF b.kind = "revoke"
    THEN b.fresh = None /\ b.newStatus = None
    ELSE b.fresh # None /\ b.newStatus = "active" /\ Unused(h, b.fresh)

GoSignatures(r) ==
    /\ r.oldSig # None => Signed(r.body.target, r.oldSig, "old", r.body)
    /\ r.newSig # None => Signed(r.body.fresh, r.newSig, "new", r.body)

GoReplay(h, r) ==
    GoHeader(h, r) /\ GoTarget(h, r.body) /\ GoKind(h, r.body) /\ GoFresh(h, r.body) /\ GoSignatures(r)

(* Broken variant: a recovery touches only the active key.                 *)
RecoverActiveOnly(h, b, i) == IF i \in Active(h) THEN b.targetNew ELSE h.keys[i].status

(* Broken variant: a revocation falls back to the last retained key.       *)
FallsBack(h, b, i) ==
    IF b.kind = "recover" THEN "revoked"
    ELSE IF i \in Active(h) THEN b.targetNew
    ELSE IF b.kind = "revoke" /\ i + 1 \in Active(h) THEN "active" ELSE h.keys[i].status

GoStatus(h, b, i) ==
    IF b.kind = "recover" THEN "revoked"
    ELSE IF i \in Active(h) THEN b.targetNew ELSE h.keys[i].status

Introduced(key) == IF key = None THEN <<>> ELSE <<[key |-> key, status |-> "active"]>>

GoAdvance(h, r) ==
    [revision |-> r.body.revision, tip |-> NextTip, descriptor |-> r.body.descriptor,
     keys |-> [i \in DOMAIN h.keys |-> [h.keys[i] EXCEPT !.status = GoStatus(h, r.body, i)]]
              \o Introduced(r.body.fresh)]

-----------------------------------------------------------------------------
(* The Swift verifier, which groups the same questions otherwise.          *)
SwiftGrammar(b) ==
    /\ b.revision \in 1 .. MaxRecords /\ b.kind \in Kinds
    /\ \A status \in {b.targetPrevious, b.targetNew, b.newStatus} : status = None \/ status \in Statuses
    /\ b.fresh = None \/ (b.fresh.generation \in 1 .. MaxRecords /\ b.fresh.generation = b.revision)
    /\ b.target = None \/ b.target.generation \in 1 .. MaxRecords

SwiftActive(h) == IF Active(h) = {} THEN None ELSE h.keys[CHOOSE i \in Active(h) : \A j \in Active(h) : i <= j].key

SwiftEvent(h, b) ==
    LET active == SwiftActive(h) IN
    \/ b.kind = "enroll" /\ h.revision = 0 /\ b.target = None /\ b.fresh # None /\ b.targetNew = None /\ ~b.revokesAll
    \/ b.kind = "rotate" /\ active # None /\ b.fresh # None /\ b.targetNew = "retained" /\ ~b.revokesAll
    \/ b.kind = "revoke" /\ active # None /\ b.fresh = None /\ b.targetNew = "revoked" /\ ~b.revokesAll
    \/ /\ b.kind = "recover" /\ h.revision > 0 /\ b.fresh # None /\ b.revokesAll
       /\ b.targetNew = IF active = None THEN None ELSE "revoked"

SwiftReplay(h, r) ==
    LET b == r.body  active == SwiftActive(h) IN
    /\ b.revision = h.revision + 1 /\ b.previous = h.tip
    /\ b.requested <= b.accepted /\ b.accepted <= b.committed
    /\ b.committed - b.requested < Window
    /\ (b.recovery # None) <=> (b.kind = "recover")
    /\ Cardinality(Active(h)) <= 1
    /\ b.target = active
    /\ b.targetPrevious = IF active = None THEN None ELSE "active"
    /\ b.newStatus = IF b.fresh = None THEN None ELSE "active"
    /\ b.fresh # None => Unused(h, b.fresh)
    /\ (r.oldSig # None) <=> (b.kind \in {"rotate", "revoke"})
    /\ (r.newSig # None) <=> (b.kind # "revoke")
    /\ SwiftEvent(h, b)
    /\ r.oldSig # None => Signed(b.target, r.oldSig, "old", b)
    /\ r.newSig # None => Signed(b.fresh, r.newSig, "new", b)

SwiftStatus(h, b, i) ==
    CASE b.kind = "recover" -> "revoked"
      [] b.kind = "rotate" /\ i \in Active(h) -> "retained"
      [] b.kind = "revoke" /\ i \in Active(h) -> "revoked"
      [] OTHER -> h.keys[i].status

SwiftAdvance(h, r) ==
    [revision |-> h.revision + 1, tip |-> NextTip, descriptor |-> r.body.descriptor,
     keys |-> [i \in DOMAIN h.keys |-> [h.keys[i] EXCEPT !.status = SwiftStatus(h, r.body, i)]]
              \o Introduced(r.body.fresh)]

GoAccepts(h, r) == h.revision < MaxRecords /\ GoGrammar(r.body) /\ GoReplay(h, r)
SwiftAccepts(h, r) == h.revision < MaxRecords /\ SwiftGrammar(r.body) /\ SwiftReplay(h, r)

-----------------------------------------------------------------------------
(* What may be supplied next: the record each kind of ceremony would write,*)
(* with any two fields of its body changed and signed afterwards, by the   *)
(* keys it names, by another, or not at all.                               *)
Key(n) == [generation |-> n, id |-> n, spki |-> n]

Draft(h, kind) ==
    LET target == SwiftActive(h)
        fresh == IF kind = "revoke" THEN None ELSE Key(h.revision + 1)
    IN [kind |-> kind, revision |-> h.revision + 1, previous |-> h.tip,
        request |-> None, proposal |-> None, acceptance |-> None, challenge |-> None,
        descriptor |-> None, recovery |-> IF kind = "recover" THEN "evidence" ELSE None,
        requested |-> 1, accepted |-> 1, committed |-> 1,
        target |-> target,
        targetPrevious |-> IF target = None THEN None ELSE "active",
        targetNew |-> IF target = None THEN None ELSE IF kind = "rotate" THEN "retained" ELSE "revoked",
        fresh |-> fresh, newStatus |-> IF fresh = None THEN None ELSE "active",
        revokesAll |-> kind = "recover"]

(* Keys introduced before, and the next key with one part of such a key.   *)
Tuples(h) ==
    LET next == Key(h.revision + 1)  prior == {h.keys[i].key : i \in DOMAIN h.keys} IN
    prior \cup {next, Key(h.revision)}
    \cup {[next EXCEPT ![part] = key[part]] : key \in prior, part \in DOMAIN next}

Choices(h) ==
    [kind |-> Kinds, revision |-> h.revision .. h.revision + 2, previous |-> EmptyTip .. h.tip + 1,
     recovery |-> {None, "evidence"}, requested |-> {1, 2}, accepted |-> {0, 1},
     committed |-> {Window, Window + 1}, target |-> Tuples(h) \cup {None},
     targetPrevious |-> Statuses \cup {None}, targetNew |-> Statuses \cup {None},
     fresh |-> Tuples(h) \cup {None}, newStatus |-> Statuses \cup {None}, revokesAll |-> BOOLEAN]

Changes(h) == UNION {{<<field, value>> : value \in Choices(h)[field]} : field \in DOMAIN Choices(h)}

Changed(b, c, d) == [b EXCEPT ![c[1]] = c[2], ![d[1]] = d[2]]

Signatures(key, other, domain, b) ==
    {None} \cup {Signature(k, domain, b) : k \in {key, other} \ {None}}

Signings(b) ==
    [body : {b}, oldSig : Signatures(b.target, b.fresh, "old", b),
     newSig : Signatures(b.fresh, b.target, "new", b)]

Sealed(b) ==
    [body |-> b,
     oldSig |-> IF b.target = None \/ b.kind \in {"enroll", "recover"} THEN None
                ELSE Signature(b.target, "old", b),
     newSig |-> IF b.fresh = None THEN None ELSE Signature(b.fresh, "new", b)]

Supplied(h, kind, c, d) ==
    LET b == Changed(Draft(h, kind), c, d) IN IF c = d THEN Signings(b) ELSE {Sealed(b)}

-----------------------------------------------------------------------------
Init == records = <<>> /\ history = EmptyHistory /\ mirror = EmptyHistory

(* Both verifiers go one record further.                                   *)
Supply(r) ==
    /\ GoAccepts(history, r)
    /\ records' = Append(records, r)
    /\ history' = GoAdvance(history, r)
    /\ mirror' = SwiftAdvance(mirror, r)

Next ==
    \E kind \in Kinds, c, d \in Changes(history) :
        \E r \in Supplied(history, kind, c, d) : Supply(r)

Spec == Init /\ [][Next]_vars
-----------------------------------------------------------------------------
Tuple == [generation : 1 .. MaxRecords, id : Nat, spki : Nat]

ASSUME NoneAssumption == None \notin Tuple

TypeOK ==
    /\ records \in Seq({records[n] : n \in DOMAIN records}) /\ Len(records) <= MaxRecords
    /\ history \in [revision : {Len(records)}, tip : 0 .. MaxRecords, descriptor : {history.descriptor},
                    keys : Seq([key : Tuple, status : Statuses])]

(* What a key's status is, read off the records alone (docs/               *)
(* gate1a-trust-root.md: retained and revoked generations are derived by   *)
(* replaying the complete chain): a recovery revokes every earlier key, a  *)
(* revocation the active one, a rotation retains it, and nothing makes an  *)
(* earlier key active again.                                               *)
StatusByRecords(key) ==
    LET later == {n \in DOMAIN records : n > key.generation}
    IN IF \E n \in later : records[n].body.kind = "recover"
              \/ (records[n].body.kind = "revoke" /\ records[n].body.target = key)
       THEN "revoked"
       ELSE IF \E n \in later : records[n].body.target = key THEN "retained" ELSE "active"

StatusFollowsRecords ==
    \A i \in DOMAIN history.keys : history.keys[i].status = StatusByRecords(history.keys[i].key)

(* At most one key may approve at any time.                                *)
OneActive == Cardinality(Active(history)) <= 1

(* No part of a key is ever introduced a second time, so a revoked key     *)
(* cannot return under another name.                                       *)
NeverReused ==
    \A i, j \in DOMAIN history.keys : i # j =>
        \A part \in {"generation", "id", "spki"} : history.keys[i].key[part] # history.keys[j].key[part]

(* Every key proved possession when it was introduced, and every key that  *)
(* was rotated or revoked agreed to it: over exactly that record.          *)
PossessionProven ==
    \A n \in DOMAIN records :
        LET r == records[n] IN
        /\ r.body.kind # "revoke" => r.newSig = Signature(r.body.fresh, "new", r.body)
        /\ r.body.kind \in {"rotate", "revoke"} => r.oldSig = Signature(r.body.target, "old", r.body)

(* The tip commits to the whole chain: each record names its predecessor   *)
(* and no other record, the first names none.                              *)
GapFree ==
    /\ history.tip = Len(records)
    /\ \A n \in DOMAIN records :
         records[n].body.revision = n /\ records[n].body.previous = n - 1

(* The two programs, which share no code, accept exactly the same next     *)
(* records and derive the same keys: what the helper commits the command   *)
(* line can verify, and the other way round.                               *)
SameVerdict ==
    /\ mirror = history
    /\ \A kind \in Kinds, c, d \in Changes(history) :
         \A r \in Supplied(history, kind, c, d) : GoAccepts(history, r) <=> SwiftAccepts(history, r)

(* "An older generation cannot become active without a new recovery        *)
(* ceremony": no step makes an earlier key active, or forgives a revoked   *)
(* one, or forgets or renames any.                                         *)
NoComeback ==
    [][\A i \in DOMAIN history.keys :
         LET before == history.keys[i]  after == history'.keys[i] IN
         /\ i \in DOMAIN history'.keys
         /\ after.key = before.key
         /\ after.status = "active" => before.status = "active"
         /\ before.status = "revoked" => after.status = "revoked"]_vars

(* The first record enrolls a key, and no key is older than its record.    *)
KeysEnrolled ==
    /\ records = <<>> <=> history.keys = <<>>
    /\ \A i \in DOMAIN history.keys : history.keys[i].key.generation <= Len(records)

(* The verified prefix, and both programs' view of what may follow it.     *)
RegistryInv ==
    /\ TypeOK /\ KeysEnrolled /\ StatusFollowsRecords /\ OneActive /\ NeverReused
    /\ PossessionProven /\ GapFree /\ SameVerdict
=============================================================================
