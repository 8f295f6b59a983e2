--------------------------- MODULE SignerCeremony ---------------------------
(***************************************************************************)
(* The transcript of one registry ceremony: request, recovery evidence,    *)
(* unsigned and signed proposal, acceptance, final body and record, as the *)
(* Go verifier (internal/approval/registry_ceremony.go) and the Swift one  *)
(* (SuppliedRegistryCeremony.swift) judge it over a verified prefix.       *)
(*                                                                         *)
(* A transcript is written document by document.  Each document is the one *)
(* the ceremony calls for, given those before it, or differs from it in one*)
(* field; MaxChanges bounds the differences of a behaviour.  A complete    *)
(* transcript is accepted, and its record extends the prefix, or refused.  *)
(***************************************************************************)
EXTENDS SignerRegistry

CONSTANT MaxChanges

ASSUME ChangesAssumption == MaxChanges \in Nat

VARIABLES step,        \* the document that is written next
          transcript,  \* the documents written so far
          spent,       \* history: the transcript accepted last
          changes      \* how many fields were changed so far

ceremonyVars == <<vars, step, transcript, spent, changes>>

domainHash(domain, document) == [domain |-> domain, document |-> document]

(* The digest of some other document.                                      *)
Alien == domainHash("", None)

Lost == "missing_key_item_or_disabled_registry"

(* Eligibility, lookup result and probe result of the two kinds of         *)
(* recovery evidence.                                                      *)
KeyNotFound == [eligibility |-> "active_key_item_not_found", lookup |-> "errSecItemNotFound:-25300",
                probe |-> "not_attempted:no_key"]

Disabled == [eligibility |-> "registry_disabled", lookup |-> "not_attempted:registry_disabled",
             probe |-> "not_attempted:no_active_generation"]

Generation(key) == IF key = None THEN None ELSE key.generation

-----------------------------------------------------------------------------
(* The Go verifier.                                                        *)
GoTranscriptGrammar(t) ==
    LET generations == {t.request.targetGeneration, t.request.newGeneration, t.acceptance.targetGeneration, t.acceptance.newGeneration} IN
    /\ {t.request.kind, t.proposal.kind, t.acceptance.kind} \subseteq Kinds
    /\ t.request.mode \in {None, Lost}
    /\ t.request.expected \in 0 .. MaxRecords
    /\ {t.proposal.revision, t.acceptance.revision} \subseteq 1 .. MaxRecords
    /\ generations \subseteq 1 .. MaxRecords \cup {None}
    /\ \A p \in {t.unsigned, t.proposal} :
         /\ p.role \in {"old", "new"}
         /\ p.target # None => p.target.generation \in 1 .. MaxRecords
         /\ p.fresh # None => p.fresh.generation = p.revision
    /\ t.evidence # None => t.evidence.revision \in 0 .. MaxRecords
    /\ GoGrammar(t.record.body) /\ GoGrammar(t.finalBody)

GoHead(h, t) ==
    /\ t.proposal = t.unsigned /\ t.record.body = t.finalBody
    /\ t.request.expected = h.revision /\ t.request.previous = h.tip

GoTimes(t) ==
    LET q == t.request  p == t.proposal  a == t.acceptance  b == t.record.body IN
    /\ q.expires > q.requested /\ q.expires - q.requested <= Window
    /\ p.proposed >= q.requested /\ a.accepted >= p.proposed /\ b.committed >= a.accepted
    /\ p.proposed < q.expires /\ a.accepted < q.expires /\ b.committed < q.expires
    /\ p.expires = q.expires /\ a.expires = q.expires
    /\ b.requested = q.requested /\ b.accepted = a.accepted

(* The fields that proposal, acceptance and record body share, each        *)
(* reduced to them.                                                        *)
Shared(document, target, fresh) ==
    [kind |-> document.kind, revision |-> document.revision, previous |-> document.previous,
     descriptor |-> document.descriptor, request |-> document.request, challenge |-> document.challenge,
     recovery |-> document.recovery, target |-> target, fresh |-> fresh]

Views(t) ==
    {Shared(t.proposal, Generation(t.proposal.target), Generation(t.proposal.fresh)),
     Shared(t.acceptance, t.acceptance.targetGeneration, t.acceptance.newGeneration),
     Shared(t.record.body, Generation(t.record.body.target), Generation(t.record.body.fresh))}

EvidenceDigest(t) == IF t.evidence = None THEN None ELSE domainHash("evidence", t.evidence)

GoShared(h, t) ==
    LET q == t.request IN
    \A view \in Views(t) :
        /\ view.kind = q.kind /\ view.revision = h.revision + 1 /\ view.previous = h.tip
        /\ view.descriptor = q.descriptor
        /\ view.request = domainHash("request", q) /\ view.challenge = domainHash("", q.challengeBytes)
        /\ view.target = q.targetGeneration /\ view.fresh = q.newGeneration
        /\ view.recovery = EvidenceDigest(t)

(* Broken variant: the acceptance may name any proposal.                   *)
RecordedDigestsOnly(t) ==
    /\ t.record.body.proposal = domainHash("proposal", [proposal |-> t.proposal, signature |-> t.signature])
    /\ t.record.body.acceptance = domainHash("acceptance", t.acceptance)
    /\ t.acceptance.isAccepted
    /\ t.proposal.target = t.record.body.target /\ t.proposal.fresh = t.record.body.fresh

GoConsent(t) ==
    LET digest == domainHash("proposal", [proposal |-> t.proposal, signature |-> t.signature]) IN
    /\ t.acceptance.isAccepted
    /\ t.acceptance.proposal = digest /\ t.record.body.proposal = digest
    /\ t.record.body.acceptance = domainHash("acceptance", t.acceptance)
    /\ t.proposal.target = t.record.body.target /\ t.proposal.fresh = t.record.body.fresh

Finding(e) == [eligibility |-> e.eligibility, lookup |-> e.lookup, probe |-> e.probe]

GoFinding(h, e) ==
    IF Active(h) = {}
    THEN Finding(e) = Disabled /\ e.targetGeneration = None /\ e.tag = None
    ELSE \E i \in Active(h) :
           /\ e.targetGeneration = h.keys[i].key.generation /\ e.tag = h.keys[i].key.id
           /\ Finding(e) = KeyNotFound

GoRecovery(h, t) ==
    LET q == t.request  e == t.evidence IN
    IF q.kind # "recover" THEN e = None /\ q.mode = None
    ELSE /\ e # None /\ q.mode = Lost
         /\ e.request = domainHash("request", q) /\ e.challenge = domainHash("", q.challengeBytes)
         /\ e.revision = h.revision /\ e.previous = h.tip /\ e.descriptor = q.descriptor
         /\ q.requested <= e.probed /\ e.probed <= t.proposal.proposed /\ e.probed < q.expires
         /\ GoFinding(h, e)

GoSigner(t) ==
    IF t.request.kind = "revoke"
    THEN t.proposal.role = "old" /\ Signed(t.record.body.target, t.signature, "proposal", t.unsigned)
    ELSE t.proposal.role = "new" /\ Signed(t.record.body.fresh, t.signature, "proposal", t.unsigned)

GoTranscript(h, t) ==
    /\ h.revision < MaxRecords /\ GoTranscriptGrammar(t)
    /\ GoHead(h, t) /\ GoTimes(t) /\ GoShared(h, t) /\ GoConsent(t)
    /\ GoRecovery(h, t) /\ GoSigner(t)
    /\ GoReplay(h, t.record)

-----------------------------------------------------------------------------
(* The Swift verifier.                                                     *)
SwiftTranscriptGrammar(t) ==
    /\ \A kind \in {t.request.kind, t.proposal.kind, t.acceptance.kind} : kind \in Kinds
    /\ t.request.mode = None \/ t.request.mode = Lost
    /\ t.request.expected \in 0 .. MaxRecords
    /\ t.evidence = None \/ t.evidence.revision \in 0 .. MaxRecords
    /\ \A p \in {t.unsigned, t.proposal, t.acceptance} : p.revision \in 1 .. MaxRecords
    /\ \A p \in {t.unsigned, t.proposal} :
         /\ p.role \in {"old", "new"}
         /\ p.target = None \/ p.target.generation \in 1 .. MaxRecords
         /\ p.fresh = None \/ p.fresh.generation = p.revision
    /\ \A g \in {t.request.targetGeneration, t.request.newGeneration, t.acceptance.targetGeneration, t.acceptance.newGeneration} :
         g = None \/ g \in 1 .. MaxRecords
    /\ SwiftGrammar(t.record.body) /\ SwiftGrammar(t.finalBody)

SwiftHead(h, t) ==
    /\ t.proposal = t.unsigned /\ t.record.body = t.finalBody
    /\ t.request.expected = h.revision /\ t.request.previous = h.tip
    /\ (t.evidence # None) <=> (t.request.kind = "recover")

SwiftKeys(h, t) ==
    LET p == t.proposal IN
    /\ p.target = t.record.body.target /\ p.fresh = t.record.body.fresh
    /\ t.request.targetGeneration = Generation(p.target) /\ t.request.newGeneration = Generation(p.fresh)
    /\ p.revision = h.revision + 1 /\ t.acceptance.isAccepted

SwiftShared(t) ==
    LET q == t.request IN
    /\ \A document \in {t.proposal, t.acceptance, t.finalBody} :
         /\ document.kind = q.kind
         /\ document.request = domainHash("request", q)
         /\ document.challenge = domainHash("", q.challengeBytes)
         /\ document.descriptor = q.descriptor /\ document.previous = q.previous
         /\ document.recovery = EvidenceDigest(t)
         /\ document.revision = t.proposal.revision
    /\ t.acceptance.targetGeneration = q.targetGeneration /\ Generation(t.finalBody.target) = q.targetGeneration
    /\ t.acceptance.newGeneration = q.newGeneration /\ Generation(t.finalBody.fresh) = q.newGeneration

SwiftDigests(t) ==
    LET digest == domainHash("proposal", [proposal |-> t.proposal, signature |-> t.signature]) IN
    /\ t.acceptance.proposal = digest /\ t.finalBody.proposal = digest
    /\ t.finalBody.acceptance = domainHash("acceptance", t.acceptance)
    /\ t.finalBody.requested = t.request.requested /\ t.finalBody.accepted = t.acceptance.accepted

SwiftSigner(t) ==
    LET role == IF t.request.kind = "revoke" THEN "old" ELSE "new"
        signer == IF role = "old" THEN t.proposal.target ELSE t.proposal.fresh
    IN t.proposal.role = role /\ Signed(signer, t.signature, "proposal", t.unsigned)

SwiftTimes(t) ==
    LET q == t.request  p == t.proposal.proposed  a == t.acceptance.accepted  c == t.finalBody.committed IN
    /\ q.expires > q.requested /\ q.expires - q.requested <= Window
    /\ q.requested <= p /\ p <= a /\ a <= c
    /\ \A time \in {p, a, c} : time < q.expires
    /\ t.proposal.expires = q.expires /\ t.acceptance.expires = q.expires

(* Broken variant: the probe may be later than the proposal it justifies.  *)
EvidenceProbedLate(h, t) ==
    LET q == t.request  e == t.evidence IN
    IF e = None THEN q.mode = None
    ELSE /\ q.mode = Lost
         /\ e.request = domainHash("request", q) /\ e.challenge = domainHash("", q.challengeBytes)
         /\ e.previous = q.previous /\ e.descriptor = q.descriptor /\ e.revision = q.expected
         /\ e.probed >= q.requested /\ e.probed < q.expires
         /\ GoFinding(h, e)

SwiftEvidence(h, t) ==
    LET q == t.request  e == t.evidence  active == SwiftActive(h) IN
    IF e = None THEN q.mode = None
    ELSE /\ q.mode = Lost
         /\ e.request = domainHash("request", q) /\ e.challenge = domainHash("", q.challengeBytes)
         /\ e.previous = q.previous /\ e.descriptor = q.descriptor /\ e.revision = q.expected
         /\ e.probed >= q.requested /\ e.probed <= t.proposal.proposed /\ e.probed < q.expires
         /\ IF active = None
            THEN e.targetGeneration = None /\ e.tag = None /\ Finding(e) = Disabled
            ELSE e.targetGeneration = active.generation /\ e.tag = active.id /\ Finding(e) = KeyNotFound

SwiftTranscript(h, t) ==
    /\ h.revision < MaxRecords /\ SwiftTranscriptGrammar(t)
    /\ SwiftHead(h, t) /\ SwiftKeys(h, t) /\ SwiftShared(t) /\ SwiftDigests(t)
    /\ SwiftSigner(t) /\ SwiftTimes(t) /\ SwiftEvidence(h, t)
    /\ SwiftReplay(h, t.record)

-----------------------------------------------------------------------------
(* The documents the ceremony calls for, each from those before it.        *)
Blank ==
    [request |-> None, evidence |-> None, unsigned |-> None, proposal |-> None, signature |-> None,
     acceptance |-> None, finalBody |-> None, record |-> None]

Request(h, kind) ==
    [kind |-> kind, mode |-> IF kind = "recover" THEN Lost ELSE None, challengeBytes |-> 1,
     expected |-> h.revision, previous |-> h.tip, descriptor |-> "bundle",
     targetGeneration |-> Generation(SwiftActive(h)),
     newGeneration |-> IF kind = "revoke" THEN None ELSE h.revision + 1,
     requested |-> 1, expires |-> 1 + Window]

Evidence(h, t, active) ==
    LET q == t.request  finding == IF active = None THEN Disabled ELSE KeyNotFound
    IN [request |-> domainHash("request", q), challenge |-> domainHash("", q.challengeBytes),
        revision |-> h.revision, previous |-> h.tip, descriptor |-> q.descriptor,
        targetGeneration |-> Generation(active), tag |-> IF active = None THEN None ELSE active.id,
        eligibility |-> finding.eligibility, lookup |-> finding.lookup, probe |-> finding.probe,
        probed |-> 1]

(* Two records as one.                                                     *)
Joined(f, g) == [field \in DOMAIN f \cup DOMAIN g |-> IF field \in DOMAIN f THEN f[field] ELSE g[field]]

(* The fields every later document repeats.                                *)
Common(h, t) ==
    [kind |-> t.request.kind, revision |-> h.revision + 1, previous |-> h.tip,
     descriptor |-> t.request.descriptor, request |-> domainHash("request", t.request),
     challenge |-> domainHash("", t.request.challengeBytes), recovery |-> EvidenceDigest(t)]

Proposal(h, t) ==
    Joined(Common(h, t),
    [target |-> Draft(h, t.request.kind).target, fresh |-> Draft(h, t.request.kind).fresh,
     proposed |-> 1, expires |-> t.request.expires,
     role |-> IF t.request.kind = "revoke" THEN "old" ELSE "new"])

Acceptance(h, t) ==
    Joined(Common(h, t),
    [proposal |-> domainHash("proposal", [proposal |-> t.proposal, signature |-> t.signature]),
     targetGeneration |-> t.request.targetGeneration, newGeneration |-> t.request.newGeneration,
     accepted |-> 1, expires |-> t.request.expires, isAccepted |-> TRUE])

Body(h, t) ==
    Joined([proposal |-> domainHash("proposal", [proposal |-> t.proposal, signature |-> t.signature]),
            acceptance |-> domainHash("acceptance", t.acceptance),
            requested |-> t.request.requested, accepted |-> t.acceptance.accepted],
           Joined(Common(h, t), Draft(h, t.request.kind)))

(* What a field may hold instead.                                          *)
Instead(h) ==
    LET times == {0, 2, Window + 1}  revisions == h.revision .. h.revision + 2 IN
    [mode |-> {None, Lost}, challengeBytes |-> {2}, expected |-> revisions, revision |-> revisions,
     previous |-> 0 .. h.revision + 1, descriptor |-> {"other"}, request |-> {Alien},
     challenge |-> {Alien}, recovery |-> {None, Alien}, proposal |-> {Alien},
     acceptance |-> {Alien}, targetGeneration |-> {None, 1, 2}, newGeneration |-> {None, 1, 2},
     target |-> {None, Key(1), Key(2)}, fresh |-> {None, Key(1), Key(2), [Key(2) EXCEPT !.spki = 1]},
     tag |-> {None, 1, 2}, eligibility |-> {KeyNotFound.eligibility, Disabled.eligibility},
     lookup |-> {KeyNotFound.lookup, Disabled.lookup}, probe |-> {KeyNotFound.probe, Disabled.probe},
     role |-> {"old", "new"}, isAccepted |-> {FALSE}, requested |-> {0, 2}, expires |-> {1, 2, Window + 2},
     probed |-> times, proposed |-> times, accepted |-> times, committed |-> times]

(* No change, or one field that holds something else.                      *)
Edits(h, document) ==
    {<<None, None>>} \cup
    UNION {{field} \X (Instead(h)[field] \ {document[field]}) : field \in DOMAIN document \cap DOMAIN Instead(h)}

Edited(document, edit) == IF edit[1] = None THEN document ELSE [document EXCEPT ![edit[1]] = edit[2]]

-----------------------------------------------------------------------------
CeremonyInit ==
    /\ Init
    /\ step = "request" /\ transcript = Blank /\ spent = None /\ changes = 0

Writing(from, to) == step = from /\ step' = to /\ UNCHANGED <<vars, spent>>

Counted(changed) == changes' = changes + (IF changed THEN 1 ELSE 0) /\ changes' <= MaxChanges

WriteRequest(kind) ==
    LET honest == Request(history, kind) IN
    /\ Writing("request", IF kind = "recover" THEN "evidence" ELSE "proposal")
    /\ \E edit \in Edits(history, honest) :
         /\ Counted(edit[1] # None)
         /\ transcript' = [Blank EXCEPT !.request = Edited(honest, edit)]

(* Evidence may be missing, or be about another state of the registry.     *)
WriteEvidence ==
    LET honest == Evidence(history, transcript, SwiftActive(history))
        others == {Evidence(history, transcript, key) : key \in {Key(1), Key(2), None}} \ {honest}
    IN
    /\ Writing("evidence", "proposal")
    /\ \/ \E edit \in Edits(history, honest) :
            Counted(edit[1] # None) /\ transcript' = [transcript EXCEPT !.evidence = Edited(honest, edit)]
       \/ \E other \in others \cup {None} :
            Counted(TRUE) /\ transcript' = [transcript EXCEPT !.evidence = other]

(* The unsigned copy may differ, and another key may have signed.          *)
WriteProposal ==
    LET honest == Proposal(history, transcript) IN
    /\ Writing("proposal", "acceptance")
    /\ \E edit \in Edits(history, honest), copied \in BOOLEAN :
         LET d == Edited(honest, edit)
             signer == IF d.role = "old" THEN d.target ELSE d.fresh
         IN
         \E key \in {d.target, d.fresh} \ {None} :
           /\ Counted(edit[1] # None \/ ~copied \/ key # signer)
           /\ transcript' = [transcript EXCEPT
                               !.proposal = d, !.unsigned = IF copied THEN d ELSE [d EXCEPT !.proposed = d.expires],
                               !.signature = Signature(key, "proposal", d)]

WriteAcceptance ==
    LET honest == Acceptance(history, transcript) IN
    /\ Writing("acceptance", "record")
    /\ \E edit \in Edits(history, honest) :
         /\ Counted(edit[1] # None)
         /\ transcript' = [transcript EXCEPT !.acceptance = Edited(honest, edit)]

(* The final body may be another one than the record's.                    *)
WriteRecord ==
    LET honest == Body(history, transcript) IN
    /\ Writing("record", "complete")
    /\ \E edit \in Edits(history, honest), copied \in BOOLEAN :
         LET d == Edited(honest, edit) IN
         /\ Counted(edit[1] # None \/ ~copied)
         /\ transcript' = [transcript EXCEPT
                             !.finalBody = IF copied THEN d ELSE [d EXCEPT !.committed = d.committed + 1],
                             !.record = Sealed(d)]

Accept ==
    /\ step = "complete"
    /\ GoTranscript(history, transcript)
    /\ records' = Append(records, transcript.record)
    /\ history' = GoAdvance(history, transcript.record)
    /\ mirror' = SwiftAdvance(mirror, transcript.record)
    /\ spent' = transcript
    /\ step' = "request" /\ transcript' = Blank /\ UNCHANGED changes

Refuse ==
    /\ step = "complete"
    /\ ~GoTranscript(history, transcript)
    /\ step' = "request" /\ transcript' = Blank
    /\ UNCHANGED <<vars, spent, changes>>

CeremonyNext ==
    \/ history.revision < MaxRecords /\ \E kind \in Kinds : WriteRequest(kind)
    \/ WriteEvidence \/ WriteProposal \/ WriteAcceptance \/ WriteRecord
    \/ Accept \/ Refuse

CeremonySpec == CeremonyInit /\ [][CeremonyNext]_ceremonyVars

-----------------------------------------------------------------------------
CeremonyTypeOK ==
    /\ TypeOK
    /\ step \in {"request", "evidence", "proposal", "acceptance", "record", "complete"}
    /\ DOMAIN transcript = DOMAIN Blank
    /\ changes \in 0 .. MaxChanges

Accepted == step = "complete" /\ GoTranscript(history, transcript)

(* The two programs accept the same transcripts.                           *)
SameCeremonyVerdict ==
    step = "complete" => (GoTranscript(history, transcript) <=> SwiftTranscript(history, transcript))

(* What is recorded is what was requested, what the signer proposed and    *)
(* what was accepted: the same transition of the same keys by the same     *)
(* artifact, each document naming exactly the one before it.               *)
ConsentCoversRecord ==
    LET q == transcript.request  p == transcript.proposal
        a == transcript.acceptance  b == transcript.record.body IN
    /\ a.isAccepted
    /\ <<b.kind, b.descriptor, b.previous>> = <<q.kind, q.descriptor, q.previous>>
    /\ <<p.kind, p.descriptor, p.previous>> = <<q.kind, q.descriptor, q.previous>>
    /\ <<p.target, p.fresh>> = <<b.target, b.fresh>>
    /\ a.proposal.document = [proposal |-> p, signature |-> transcript.signature]
    /\ b.acceptance.document = a

(* Whoever proposed holds the key that takes over or, for a revocation,    *)
(* the key that is active now.                                             *)
ProposerHoldsKey ==
    LET key == IF transcript.request.kind = "revoke"
               THEN SwiftActive(history) ELSE transcript.record.body.fresh
    IN key # None /\ transcript.signature = Signature(key, "proposal", transcript.proposal)

(* The whole ceremony, the probe included, fits into one window in order.  *)
OneWindow ==
    LET q == transcript.request
        probed == IF transcript.evidence = None THEN q.requested ELSE transcript.evidence.probed
    IN /\ q.requested <= probed /\ probed <= transcript.proposal.proposed
       /\ transcript.proposal.proposed <= transcript.acceptance.accepted
       /\ transcript.acceptance.accepted <= transcript.record.body.committed
       /\ transcript.record.body.committed < q.expires
       /\ q.expires <= q.requested + Window

(* A recovery is accepted only with evidence about the state it recovers   *)
(* from: that exactly the active key's item is missing, or that no key is  *)
(* active.                                                                 *)
RecoveryJustified ==
    transcript.request.kind = "recover" =>
        LET e == transcript.evidence IN
        /\ e # None
        /\ e.lookup = KeyNotFound.lookup =>
             \E i \in Active(history) : e.tag = history.keys[i].key.id
        /\ e.lookup # KeyNotFound.lookup => Active(history) = {}

(* A transcript is good for one revision: accepted once, it is refused     *)
(* ever after, by both.                                                    *)
SpentOnce ==
    spent # None => ~GoTranscript(history, spent) /\ ~SwiftTranscript(mirror, spent)

(* What both programs accept was consented to, by the holder of the key,   *)
(* in time and for a reason, and is not accepted again.                    *)
CeremonyInv ==
    /\ CeremonyTypeOK /\ SpentOnce
    /\ Accepted => ConsentCoversRecord /\ ProposerHoldsKey /\ OneWindow /\ RecoveryJustified
=============================================================================
