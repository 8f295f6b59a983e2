---------------------------- MODULE MCApproval -----------------------------
(* The approval protocol, one part of it at a time: records supplied to    *)
(* both registries, a ceremony's transcripts, an exchange of two requests  *)
(* whose clocks are up to a second and a half apart, receipts of any times *)
(* and revisions in texts with one thing changed, and the signatures of a  *)
(* group of small order.  The parts are pure functions of each other's     *)
(* results, so a behaviour is of one of them and the variables of the      *)
(* others keep their first value.                                          *)
EXTENDS SignerCeremony, TLC

CONSTANTS
    Parts,   \* those that a run looks at
    Requests, Plans, Skew, Lifetime, MaximumReceiptTTL, Offsets, MaxTime, MaxRevision,
    Base, Width, Order

VARIABLES part, now, offset, authority, asked, helper, receipts, wire, taken, received, signature

exchangeVars == <<now, offset, authority, asked, helper, receipts, wire, taken>>

Exchange == INSTANCE ApprovalExchange

Text == INSTANCE ReceiptText

P256 == INSTANCE P256Signature

ASSUME ExchangeAssumption == Exchange!ApprovalAssumption

ASSUME SignatureAssumption == P256!P256Assumption

(* A client's clock that is fast, slow by what is allowed, and slower.     *)
MCOffsets == {-3, -2, 1}

MCSymmetry == Permutations(Requests) \cup Permutations(Plans)

MCInit ==
    /\ part \in Parts
    /\ CeremonyInit /\ Exchange!Init /\ Text!Init /\ P256!Init
    /\ part # "exchange" => offset = CHOOSE o \in Offsets : TRUE
    /\ part # "text" => received = Text!Canonical(CHOOSE receipt \in Text!Claims : TRUE)
    /\ part # "signature" => signature.s = <<1>>

MCNext ==
    /\ UNCHANGED part
    /\ \/ /\ part = "registry" /\ Next
          /\ UNCHANGED <<step, transcript, spent, changes, exchangeVars, received, signature>>
       \/ /\ part = "ceremony" /\ CeremonyNext
          /\ UNCHANGED <<exchangeVars, received, signature>>
       \/ /\ part = "exchange" /\ Exchange!Next
          /\ UNCHANGED <<ceremonyVars, received, signature>>
       \/ /\ part = "text" /\ Text!Next
          /\ UNCHANGED <<ceremonyVars, exchangeVars, signature>>
       \/ /\ part = "signature" /\ P256!Next
          /\ UNCHANGED <<ceremonyVars, exchangeVars, received>>

MCSpec == MCInit /\ [][MCNext]_<<part, ceremonyVars, exchangeVars, received, signature>>

-----------------------------------------------------------------------------
(* Both replays accept the same next records; what they accepted is gap    *)
(* free, proves possession, reuses nothing and has one active key          *)
(* (ReplaySuppliedRegistryRecord and its Swift counterpart).               *)
RegistrySound == part = "registry" => RegistryInv

(* Both verifiers accept the same transcripts                              *)
(* (VerifySuppliedRegistryCeremony and its Swift counterpart).             *)
CeremonySame == part = "ceremony" => SameCeremonyVerdict

(* What is accepted is what was requested, proposed by the holder of the   *)
(* key and consented to, in one window, and is not accepted again.         *)
CeremonySound == part = "ceremony" => CeremonyInv

(* The client takes receipts for what was approved, once and in time, and  *)
(* takes every honest one (DecodeAndValidateIPCResponse).                  *)
ExchangeSound == part = "exchange" => Exchange!ExchangeInv

(* The Go and the Swift decoder take the same receipts after the zero      *)
(* instant, and one text of each (ParseReceiptBytes and                    *)
(* ApprovalReceipt.init(receiptBytes:)).                                   *)
TextsAgree == part = "text" => Text!TextInv

(* The Go and the Swift codec take the same signatures, and all that the   *)
(* helper makes (DecodeP256DERSignature and P256Signature).                *)
SignaturesAgree == part = "signature" => P256!SignatureInv

(* Both codecs of both programs.                                           *)
CodecsAgree == TextsAgree /\ SignaturesAgree

(* docs/gate1a-native-boundary.md:402: a disagreement in public wire       *)
(* acceptance is a blocking failure.  The decoders disagree about a        *)
(* receipt issued at 0001-01-01T00:00:00Z (canonicalReceiptTime and        *)
(* wholeSecondUTCValue).                                                   *)
OneVerdict == part = "text" => Text!OneVerdict
=============================================================================
