---------------------------- MODULE ReceiptText -----------------------------
(***************************************************************************)
(* The bytes of a signed receipt as the Go and the Swift decoder read them *)
(* (internal/approval/receipt_codec.go and approval.go;                    *)
(* ApprovalReceipt.swift and StrictJSON.swift).  Each decoder takes one    *)
(* text of a receipt, along a different way: Go reads the object, decodes  *)
(* it, validates it and writes it again; Swift cuts the text at the last   *)
(* ,"signature": and reads two objects.  Their rules are written apart     *)
(* too, and they differ about the first second of the year 1.              *)
(*                                                                         *)
(* A text is its fields in order, whether there is white space between     *)
(* them, and what follows it.  A value is a number:                        *)
(*   ids        fourteen strings (ids, digests, account and project), one  *)
(*              field here: 1 inside their grammars, which both programs   *)
(*              write in the same words, and 0 outside;                    *)
(*   a time     seconds since 0001-01-01T00:00:00Z; a negative one is in   *)
(*              the year 0, or text that is no time;                       *)
(*   key_generation   what its twenty digits say, 0 if they are none;      *)
(*   signature  1 if it is strict DER with a low S in base64 without       *)
(*              padding (P256Signature looks inside), 0 otherwise.         *)
(* A string may be escaped: other bytes that decode to the same.           *)
(***************************************************************************)
EXTENDS Integers, Sequences, SequencesExt

CONSTANTS
    MaximumReceiptTTL,   \* 300 seconds
    MaxRevision          \* of the registry, 256

Names == <<"schema_version", "ids", "registry_revision", "issued_at", "expires_at",
           "key_generation", "signature">>

Numbers == {"schema_version", "registry_revision"}

Values(name) ==
    CASE name = "schema_version" -> {2, 3}
      [] name \in {"registry_revision", "key_generation"} -> 0 .. MaxRevision + 1
      [] name \in {"issued_at", "expires_at"} -> -1 .. MaximumReceiptTTL + 2
      [] OTHER -> {0, 1}

Fields ==
    UNION {[name : {n}, value : Values(n), escaped : IF n \in Numbers THEN {FALSE} ELSE BOOLEAN] :
               n \in ToSet(Names) \cup {"other"}}

Texts == [fields : Seq(Fields), spaced : BOOLEAN, after : {"nothing", "space", "object"}]

field(name, value) == [name |-> name, value |-> value, escaped |-> FALSE]

Canonical(receipt) ==
    [fields |-> [i \in 1 .. Len(Names) |-> field(Names[i], receipt[Names[i]])],
     spaced |-> FALSE, after |-> "nothing"]

FieldNames(fields) == [i \in 1 .. Len(fields) |-> fields[i].name]

(* Both JSON decoders keep the last of several fields.                     *)
Kept(fields, name) ==
    fields[CHOOSE i \in 1 .. Len(fields) :
        /\ fields[i].name = name
        /\ \A j \in i + 1 .. Len(fields) : fields[j].name # name].value

ReceiptOf(fields, names) == [n \in names |-> Kept(fields, n)]

-----------------------------------------------------------------------------
(* internal/approval.                                                      *)
decodeExactReceiptObject(text) ==
    /\ ToSet(FieldNames(text.fields)) = ToSet(Names)
    /\ Len(text.fields) = Len(Names)
    /\ text.after # "object"

(* The zero time.Time is that of 0001-01-01T00:00:00Z.                     *)
canonicalReceiptTime(time) == time # 0 /\ time >= 0

validRegistryRevision(revision) == revision >= 1 /\ revision <= MaxRevision

keyGenerationRevision(generation) ==
    IF validRegistryRevision(generation) THEN generation ELSE 0

validateReceipt(receipt) ==
    /\ receipt.schema_version = 3 /\ receipt.ids = 1
    /\ canonicalReceiptTime(receipt.issued_at) /\ canonicalReceiptTime(receipt.expires_at)
    /\ receipt.expires_at > receipt.issued_at
    /\ receipt.expires_at - receipt.issued_at <= MaximumReceiptTTL
    /\ validRegistryRevision(receipt.registry_revision)
    /\ keyGenerationRevision(receipt.key_generation) = receipt.registry_revision
    /\ receipt.signature = 1

ParseReceiptBytes(text) ==
    /\ decodeExactReceiptObject(text)
    /\ LET receipt == ReceiptOf(text.fields, ToSet(Names))
       IN validateReceipt(receipt) /\ Canonical(receipt) = text

-----------------------------------------------------------------------------
(* ApprovalProtocol.  The cut needs a comma before the name.               *)
SignatureAt(text) ==
    {i \in 2 .. Len(text.fields) : text.fields[i].name = "signature"}

Cut(text) == CHOOSE i \in SignatureAt(text) : \A j \in SignatureAt(text) : j <= i

encodedSigningBytes(receipt) ==
    [i \in 1 .. Len(Names) - 1 |-> field(Names[i], receipt[Names[i]])]

(* Broken variant: the check of the year is dropped.                       *)
AnyYear(time) == TRUE

(* The years start at 1.                                                   *)
wholeSecondUTCValue(time) == time >= 0

validate(receipt) ==
    /\ receipt.ids = 1
    /\ receipt.registry_revision \in 1 .. MaxRevision
    /\ receipt.key_generation \in 1 .. MaxRevision
    /\ receipt.key_generation = receipt.registry_revision
    /\ wholeSecondUTCValue(receipt.issued_at) /\ wholeSecondUTCValue(receipt.expires_at)
    /\ receipt.expires_at > receipt.issued_at
    /\ receipt.expires_at - receipt.issued_at <= MaximumReceiptTTL

Unsigned == ToSet(Names) \ {"signature"}

unsignedReceipt(fields, spaced) ==
    /\ IsInjective(FieldNames(fields)) /\ ToSet(FieldNames(fields)) = Unsigned
    /\ LET receipt == ReceiptOf(fields, Unsigned)
       IN /\ receipt.schema_version = 3 /\ validate(receipt)
          /\ fields = encodedSigningBytes(receipt) /\ ~spaced

(* The name is the wrapper's; the value is decoded and encoded again.      *)
signatureSuffix(fields) == fields = <<field("signature", 1)>>

receiptInit(text) ==
    /\ text.after = "nothing" /\ SignatureAt(text) # {}
    /\ unsignedReceipt(SubSeq(text.fields, 1, Cut(text) - 1), text.spaced)
    /\ signatureSuffix(SubSeq(text.fields, Cut(text), Len(text.fields)))

-----------------------------------------------------------------------------
VARIABLE received

(* What the encoder would write of any times and revisions.                *)
Claims ==
    [schema_version : {3}, ids : {1}, signature : {1},
     registry_revision : Values("registry_revision"), key_generation : Values("key_generation"),
     issued_at : Values("issued_at"), expires_at : Values("expires_at")]

Init == \E receipt \in Claims : received = Canonical(receipt)

(* One change to such a text: another field, one more, one less, two that  *)
(* changed places, white space, or something behind it.  Other times or    *)
(* revisions make another such text.                                       *)
Written ==
    /\ FieldNames(received.fields) = Names /\ ~received.spaced /\ received.after = "nothing"
    /\ \A i \in DOMAIN Names :
           /\ ~received.fields[i].escaped
           /\ Names[i] \in {"ids", "signature"} => received.fields[i].value = 1
           /\ Names[i] = "schema_version" => received.fields[i].value = 3

Edits(fields) ==
    LET places == 1 .. Len(fields)
    IN {ReplaceAt(fields, i, f) : i \in places, f \in Fields}
       \cup {InsertAt(fields, i, f) : i \in 1 .. Len(fields) + 1, f \in Fields}
       \cup {RemoveAt(fields, i) : i \in places}
       \cup {[fields EXCEPT ![i] = fields[j], ![j] = fields[i]] : i, j \in places}

Next ==
    /\ Written
    /\ \/ \E fields \in Edits(received.fields) : received' = [received EXCEPT !.fields = fields]
       \/ received' = [received EXCEPT !.spaced = TRUE]
       \/ \E after \in {"space", "object"} : received' = [received EXCEPT !.after = after]

Spec == Init /\ [][Next]_received

-----------------------------------------------------------------------------
(* A receipt issued at the first second of the year 1.                     *)
AtZeroInstant(text) ==
    \E i \in 1 .. Len(text.fields) : text.fields[i].name = "issued_at" /\ text.fields[i].value = 0

(* The two decoders accept the same texts, but for receipts issued at the  *)
(* zero instant: Swift takes them and Go does not.                         *)
SameTexts == ParseReceiptBytes(received) <=> receiptInit(received) /\ ~AtZeroInstant(received)

(* Whichever decoder lets a text in, it is what Go's encoder writes of the *)
(* receipt it decodes to: the digest that the journal keeps of a receipt   *)
(* cannot be that of another spelling.                                     *)
OneText ==
    ParseReceiptBytes(received) \/ receiptInit(received)
        => received = Canonical(ReceiptOf(received.fields, ToSet(Names)))

(* The two decoders accept the same texts after the zero instant, one of   *)
(* each receipt.                                                           *)
TextInv == SameTexts /\ OneText

(* Both decoders agree about every text: what is asked of them, and what   *)
(* the zero instant breaks.                                                *)
OneVerdict == ParseReceiptBytes(received) <=> receiptInit(received)
=============================================================================
