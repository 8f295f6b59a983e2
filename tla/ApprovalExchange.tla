------------------------- MODULE ApprovalExchange --------------------------
(***************************************************************************)
(* One approval: the client sends a plan with a fresh challenge, a person  *)
(* looks at it in the helper, the helper signs a receipt or says why not,  *)
(* and the client validates the answer (internal/approval/ipc.go and       *)
(* approval.go; IPC.swift and ReceiptFactory.swift).  The Swift library    *)
(* holds both ends as the Go one does: its validator is compared with the  *)
(* Go one on every answer that can come.                                   *)
(*                                                                         *)
(* Times are in half seconds and receipts count whole ones.  `now' is the  *)
(* helper's clock, the client's is `offset' away.  The key and the context *)
(* may be replaced at any moment.  An answer may be lost, delayed,         *)
(* repeated, torn, respelled, or be that of another request; digests,      *)
(* challenges and signatures are what they are of.  ReceiptText and        *)
(* P256Signature say which bytes are a receipt and a signature.            *)
(***************************************************************************)
EXTENDS Integers, FiniteSets

CONSTANTS
    Requests, Plans, None,
    Skew, Lifetime, MaximumReceiptTTL,   \* whole seconds: 30, 120 and 300
    Offsets,                             \* of the client's clock, half seconds
    MaxTime,                             \* of the helper's clock, half seconds
    MaxRevision                          \* of the registry

second == 2

(* IPCErrorCode, from user_canceled to internal_failure.                   *)
ErrorCodes == 1 .. 6

(* The key of a generation; contexts are told apart by their revision and  *)
(* by what was authorized under it.                                        *)
Authorities == [revision : 1 .. MaxRevision, context : {"c1", "c2"}]

(* A request that the helper decoded.                                      *)
Helpers == [pc : {"shown", "failed", "approved"}, plan : Plans, binding : Authorities]

ApprovalAssumption ==
    /\ Skew \in Nat /\ Lifetime \in Nat \ {0} /\ MaximumReceiptTTL \in Nat
    /\ Lifetime <= MaximumReceiptTTL
    /\ Offsets \subseteq Int /\ MaxTime \in Nat /\ MaxRevision \in Nat \ {0}
    /\ None \notin Helpers

VARIABLES
    now, offset,
    authority,   \* the registry's revision and the authorization context
    asked,       \* of each request: its plan, and the key and binding expected
    helper,      \* of each request: where the helper is, and its own binding
    receipts,    \* those that were signed
    wire,        \* the answers that were sent
    taken        \* of each request: what the client made of its answer

vars == <<now, offset, authority, asked, helper, receipts, wire, taken>>

clientNow == now + offset

(* A key's generation carries the revision that introduced it.             *)
keyGenerationRevision(generation) == IF generation \in 1 .. MaxRevision THEN generation ELSE 0

-----------------------------------------------------------------------------
(* The key and the binding that the client expects are those of the time.  *)
expectation(plan) == [plan |-> plan, key |-> authority.revision, binding |-> authority]

Ask(r) ==
    /\ asked[r] = None
    /\ \E p \in Plans : asked' = [asked EXCEPT ![r] = expectation(p)]
    /\ UNCHANGED <<now, offset, authority, helper, receipts, wire, taken>>

(* The helper decodes the request and shows the plan.                      *)
Show(r) ==
    /\ asked[r] # None /\ helper[r] = None
    /\ helper' = [helper EXCEPT ![r] = [pc |-> "shown", plan |-> asked[r].plan, binding |-> authority]]
    /\ UNCHANGED <<now, offset, authority, asked, receipts, wire, taken>>

Answered(r, pc) == [helper EXCEPT ![r].pc = pc]

successFrame(r, receipt) ==
    [kind |-> "success", challenge |-> r, spki |-> receipt.key, receipt |-> receipt]

failureFrame(r, code) == [kind |-> "error", challenge |-> r, code |-> code]

(* The person cancels, or there is no receipt to send.                     *)
Fail(r) ==
    /\ helper[r] # None /\ helper[r].pc = "shown"
    /\ helper' = Answered(r, "failed")
    /\ \E code \in {1, 5} : wire' = wire \cup {failureFrame(r, code)}
    /\ UNCHANGED <<now, offset, authority, asked, receipts, taken>>

floor(time) == (time \div second) * second

(* What the receipt says, with the key of the signer as it is now.         *)
unsignedReceipt(r, key) ==
    LET issued == floor(now) IN
    [challenge |-> r, plan |-> helper[r].plan,
     revision |-> helper[r].binding.revision, context |-> helper[r].binding.context,
     key |-> key, issued |-> issued, expires |-> issued + Lifetime * second]

generationBound(r, key) == keyGenerationRevision(key) = helper[r].binding.revision

(* The person approves, and the helper signs once, with the key it has by  *)
(* then.  When there is no receipt it answers with a failure instead.      *)
makeReceipt(r) ==
    /\ helper[r] # None /\ helper[r].pc = "shown"
    /\ generationBound(r, authority.revision)
    /\ LET receipt == unsignedReceipt(r, authority.revision) IN
       /\ receipts' = receipts \cup {receipt}
       /\ wire' = wire \cup {successFrame(r, receipt)}
    /\ helper' = Answered(r, "approved")
    /\ UNCHANGED <<now, offset, authority, asked, taken>>

-----------------------------------------------------------------------------
(* The answers that can reach a client: what was sent, to whomever; the    *)
(* same with a receipt of another request, or in another spelling; and     *)
(* frames that are no answers at all.                                      *)
Spellings == {"canonical", "respelled"}

Success(f, challenge, spelling) ==
    [whole |-> TRUE, kind |-> "success", challenge |-> challenge, spki |-> f.spki,
     receipt |-> f.receipt, spelling |-> spelling]

Failure(f, code) == [whole |-> TRUE, kind |-> "error", challenge |-> f.challenge, code |-> code]

Frames ==
    {Success(f, c, s) : f \in {g \in wire : g.kind = "success"}, c \in Requests, s \in Spellings}
    \cup (UNION {{Failure(f, f.code), Failure(f, 7)} : f \in {g \in wire : g.kind = "error"}})
    \cup [whole : {TRUE}, kind : {"request"}, challenge : {r \in Requests : asked[r] # None}]
    \cup [whole : {FALSE}, kind : {"success"}, challenge : {r \in Requests : asked[r] # None}]

Refused == [verdict |-> "refused"]

(* DecodeAndValidateIPCResponse.                                           *)
ExpectedKeyBound(r) == keyGenerationRevision(asked[r].key) = asked[r].binding.revision

(* Broken variant: the challenge of the frame is compared, that of the     *)
(* receipt is not.                                                         *)
FrameChallengeOnly(r, receipt) == TRUE

ReceiptOfChallenge(r, receipt) == receipt.challenge = r

ReceiptOfBinding(r, receipt) ==
    /\ receipt.revision = asked[r].binding.revision
    /\ receipt.context = asked[r].binding.context

ReceiptLives(receipt, time) ==
    /\ receipt.expires > receipt.issued
    /\ receipt.expires - receipt.issued <= MaximumReceiptTTL * second
    /\ time >= receipt.issued - Skew * second
    /\ time < receipt.expires

validateIPCSuccess(r, f, time) ==
    IF /\ f.spki = asked[r].key /\ f.spelling = "canonical"
       /\ ReceiptOfChallenge(r, f.receipt)
       /\ f.receipt.key = asked[r].key
       /\ ReceiptOfBinding(r, f.receipt)
       /\ f.receipt.plan = asked[r].plan
       /\ ReceiptLives(f.receipt, time)
    THEN [verdict |-> "receipt", receipt |-> f.receipt]
    ELSE Refused

FrameChallenge(r, f) == f.challenge = r

DecodeAndValidateIPCResponse(r, f, time) ==
    IF ~f.whole \/ ~FrameChallenge(r, f) THEN Refused
    ELSE CASE f.kind = "error" /\ f.code \in ErrorCodes -> [verdict |-> "failure", code |-> f.code]
           [] f.kind = "success" /\ ExpectedKeyBound(r) -> validateIPCSuccess(r, f, time)
           [] OTHER -> Refused

(* ApprovalIPCCodec.decodeAndValidateResponse and validate.                *)
swiftValidate(r, receipt, time) ==
    LET current == floor(time) IN
    /\ receipt.plan = asked[r].plan
    /\ receipt.revision = asked[r].binding.revision
    /\ receipt.context = asked[r].binding.context
    /\ receipt.challenge = r
    /\ receipt.key = asked[r].key
    /\ receipt.expires > receipt.issued
    /\ receipt.expires - receipt.issued <= MaximumReceiptTTL * second
    /\ receipt.issued <= current + Skew * second
    /\ current < receipt.expires

decodeAndValidateResponse(r, f, time) ==
    CASE f.whole /\ f.kind = "success" /\ f.challenge = r /\ ExpectedKeyBound(r)
           /\ f.spki = asked[r].key /\ f.spelling = "canonical"
           /\ swiftValidate(r, f.receipt, time)
             -> [verdict |-> "receipt", receipt |-> f.receipt]
      [] f.whole /\ f.kind = "error" /\ f.challenge = r /\ f.code \in ErrorCodes
             -> [verdict |-> "failure", code |-> f.code]
      [] OTHER -> Refused

(* The client reads one answer of a request and no more.                   *)
Take(r) ==
    /\ asked[r] # None /\ taken[r] = None
    /\ \E f \in Frames :
         taken' = [taken EXCEPT ![r] =
             [result |-> DecodeAndValidateIPCResponse(r, f, clientNow), at |-> now]]
    /\ UNCHANGED <<now, offset, authority, asked, helper, receipts, wire>>

-----------------------------------------------------------------------------
Tick ==
    /\ now < MaxTime
    /\ now' = now + 1
    /\ UNCHANGED <<offset, authority, asked, helper, receipts, wire, taken>>

(* The key is rotated, or another context authorized under the same key.   *)
Reauthorize ==
    /\ \/ /\ authority.revision < MaxRevision
          /\ authority' = [revision |-> authority.revision + 1, context |-> "c1"]
       \/ /\ authority.context = "c1"
          /\ authority' = [authority EXCEPT !.context = "c2"]
    /\ UNCHANGED <<now, offset, asked, helper, receipts, wire, taken>>

Init ==
    /\ now = 0 /\ offset \in Offsets
    /\ authority = [revision |-> 1, context |-> "c1"]
    /\ asked = [r \in Requests |-> None] /\ helper = [r \in Requests |-> None]
    /\ receipts = {} /\ wire = {} /\ taken = [r \in Requests |-> None]

Next ==
    \/ \E r \in Requests : Ask(r) \/ Show(r) \/ Fail(r) \/ makeReceipt(r) \/ Take(r)
    \/ Tick \/ Reauthorize

Spec == Init /\ [][Next]_vars

-----------------------------------------------------------------------------
Answer(r) == taken[r].result

Accepted(r) == taken[r] # None /\ Answer(r).verdict = "receipt"

TypeOK ==
    /\ now \in 0 .. MaxTime /\ offset \in Offsets /\ authority \in Authorities
    /\ \A r \in Requests :
         /\ asked[r] # None => asked[r].plan \in Plans /\ asked[r].binding \in Authorities
         /\ helper[r] # None => helper[r].pc \in {"shown", "failed", "approved"}
    /\ \A c \in receipts : c.expires - c.issued = Lifetime * second

(* A receipt counts for the request it answers: the person approved that   *)
(* plan in answer to that challenge, under the key and the context that    *)
(* the client expected, and the helper showed it under the same ones.      *)
ReceiptOfThisApproval ==
    \A r \in Requests : Accepted(r) =>
        /\ helper[r] # None /\ helper[r].pc = "approved"
        /\ helper[r].plan = asked[r].plan /\ helper[r].binding = asked[r].binding
        /\ Answer(r).receipt \in receipts /\ Answer(r).receipt.challenge = r

(* One approval never counts for two requests, even of the same plan.      *)
ReceiptCountsOnce ==
    \A r, q \in Requests :
        r # q /\ Accepted(r) /\ Accepted(q) => Answer(r).receipt # Answer(q).receipt

(* A receipt is never taken later than its lifetime after the approval,    *)
(* except by as much as the client's clock is slow.                        *)
LateOnlyByTheClock ==
    \A r \in Requests : Accepted(r) =>
        taken[r].at - Answer(r).receipt.issued < Lifetime * second - offset

(* A failure is only what the helper answered to this very request.        *)
FailureOfThisRequest ==
    \A r \in Requests : taken[r] # None /\ Answer(r).verdict = "failure" =>
        helper[r] # None /\ helper[r].pc = "failed" /\ failureFrame(r, Answer(r).code) \in wire

(* An honest answer is taken: if nobody replaced the key or the context    *)
(* while the plan was on the screen, and the client's clock is at most     *)
(* Skew slow, then it takes the receipt from the moment it is signed until *)
(* it expires by its own clock.                                            *)
HonestAccepted ==
    \A f \in wire : f.kind = "success" =>
        LET r == f.challenge IN
        helper[r].binding = asked[r].binding /\ -offset <= Skew * second /\ clientNow < f.receipt.expires
        => DecodeAndValidateIPCResponse(r, Success(f, r, "canonical"), clientNow).verdict = "receipt"

(* The Go and the Swift validator make the same of every answer that can   *)
(* come, at every moment (their words for a refusal differ).               *)
SameAnswer ==
    \A r \in Requests : asked[r] # None => \A f \in Frames :
        DecodeAndValidateIPCResponse(r, f, clientNow) = decodeAndValidateResponse(r, f, clientNow)

(* What the client takes, and how both validators read the answers.        *)
ExchangeInv ==
    /\ TypeOK /\ ReceiptOfThisApproval /\ ReceiptCountsOnce /\ LateOnlyByTheClock
    /\ FailureOfThisRequest /\ HonestAccepted /\ SameAnswer
=============================================================================
