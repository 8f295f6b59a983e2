--------------------------- MODULE P256Signature ----------------------------
(***************************************************************************)
(* The two codecs of an ECDSA signature (internal/approval/codec.go and    *)
(* Sources/ApprovalProtocol/P256.swift), which have to accept the same     *)
(* bytes: the Go one works with asn1 and big integers, the Swift one byte  *)
(* by byte, with its own comparison, borrow and sign octet.                *)
(*                                                                         *)
(* A byte is a digit of base Base and a scalar has Width digits, so the    *)
(* order of the curve is a small number; its leading digit has the sign    *)
(* bit, as that of P-256 has.  A signature is the contents of its two      *)
(* integers; tags, lengths and what follows them are exact or refused.     *)
(***************************************************************************)
EXTENDS Naturals, Sequences

CONSTANTS
    Base, Width,   \* of a byte, and of the order: 256 and 32
    Order          \* of the group

Digits == 0 .. Base - 1

(* The contents of an integer, and the whole signature.                    *)
Integers == UNION {[1 .. n -> Digits] : n \in 0 .. Width + 1}

Negative(bytes) == bytes # <<>> /\ bytes[1] >= Base \div 2

(* No octet can be left out without changing the sign.                     *)
Minimal(bytes) ==
    /\ bytes # <<>>
    /\ Len(bytes) > 1 => ~(bytes[1] = 0 /\ bytes[2] < Base \div 2)
    /\ Len(bytes) > 1 => ~(bytes[1] = Base - 1 /\ bytes[2] >= Base \div 2)

Magnitude(bytes) ==
    LET value[i \in 0 .. Len(bytes)] == IF i = 0 THEN 0 ELSE value[i - 1] * Base + bytes[i]
    IN value[Len(bytes)]

digitsOf(number) == CHOOSE d \in [1 .. Width -> Digits] : Magnitude(d) = number

(* What the order of P-256 has in common with the small ones.              *)
P256Assumption ==
    /\ Base \in Nat /\ Base % 2 = 0 /\ Base > 2 /\ Width \in Nat \ {0}
    /\ Order \in Nat /\ Order % 2 = 1
    /\ \E d \in [1 .. Width -> Digits] : d[1] >= Base \div 2 /\ Magnitude(d) = Order

-----------------------------------------------------------------------------
(* internal/approval.                                                      *)
GoScalar(bytes) ==
    /\ Minimal(bytes) /\ ~Negative(bytes)
    /\ Magnitude(bytes) > 0 /\ Magnitude(bytes) < Order

ValidateP256DERSignature(signature) ==
    /\ GoScalar(signature.r) /\ GoScalar(signature.s)
    /\ Magnitude(signature.s) <= Order \div 2

-----------------------------------------------------------------------------
(* ApprovalProtocol.  A magnitude has no leading sign octet.               *)
order == digitsOf(Order)

halfOrder == digitsOf(Order \div 2)

lexicographicallyPrecedes(a, b) ==
    \E i \in 1 .. Width : a[i] < b[i] /\ \A j \in 1 .. i - 1 : a[j] = b[j]

parses(bytes) ==
    /\ Len(bytes) \in 1 .. Width + 1
    /\ bytes[1] < Base \div 2
    /\ ~(Len(bytes) > 1 /\ bytes[1] = 0 /\ bytes[2] < Base \div 2)

parseInteger(bytes) == IF bytes[1] = 0 THEN Tail(bytes) ELSE bytes

isScalar(integer) ==
    /\ integer # <<>> /\ Len(integer) <= Width
    /\ \E i \in 1 .. Len(integer) : integer[i] # 0
    /\ Len(integer) = Width => lexicographicallyPrecedes(integer, order)

isLowS(integer) ==
    Len(integer) < Width \/ integer = halfOrder \/ lexicographicallyPrecedes(integer, halfOrder)

Padded(scalar) == [i \in 1 .. Width - Len(scalar) |-> 0] \o scalar

(* Leading zeros go, the last digit stays.                                 *)
Stripped(bytes) ==
    LET first == CHOOSE i \in 1 .. Width :
                    /\ bytes[i] # 0 \/ i = Width
                    /\ \A j \in 1 .. i - 1 : bytes[j] = 0
    IN SubSeq(bytes, first, Width)

(* Broken variant: the borrow of a digit is forgotten by the next one.     *)
WithoutBorrow(scalar) ==
    Stripped([i \in 1 .. Width |-> (order[i] + Base - Padded(scalar)[i]) % Base])

subtractFromOrder(scalar) ==
    LET padded == Padded(scalar)
        borrow[i \in 1 .. Width] ==
            IF i = Width THEN 0
            ELSE IF order[i + 1] < padded[i + 1] + borrow[i + 1] THEN 1 ELSE 0
    IN Stripped([i \in 1 .. Width |->
          (IF order[i] < padded[i] + borrow[i] THEN order[i] + Base ELSE order[i]) - padded[i] - borrow[i]])

appendInteger(magnitude) ==
    IF magnitude[1] >= Base \div 2 THEN <<0>> \o magnitude ELSE magnitude

swiftScalars(signature) ==
    /\ parses(signature.r) /\ parses(signature.s)
    /\ isScalar(parseInteger(signature.r)) /\ isScalar(parseInteger(signature.s))

swiftSignature(signature) ==
    swiftScalars(signature) /\ isLowS(parseInteger(signature.s))

normalizeLowS(signature) ==
    LET s == parseInteger(signature.s) IN
    [r |-> appendInteger(parseInteger(signature.r)),
     s |-> appendInteger(IF isLowS(s) THEN s ELSE subtractFromOrder(s))]

equivalentHighSDER(signature) ==
    [r |-> appendInteger(parseInteger(signature.r)),
     s |-> appendInteger(subtractFromOrder(parseInteger(signature.s)))]

-----------------------------------------------------------------------------
(* One signature after the other comes to both.                            *)
VARIABLE signature

Init == signature \in [r : {<<1>>}, s : Integers]

Next == signature.r = <<1>> /\ signature' \in [r : Integers, s : {signature.s}]

Spec == Init /\ [][Next]_signature

-----------------------------------------------------------------------------
(* Both codecs accept the same signatures: a receipt signed by the helper  *)
(* is never refused by the client for its bytes, nor the other way round.  *)
SameSignatures == ValidateP256DERSignature(signature) <=> swiftSignature(signature)

(* Whatever the signer returns, low or high, the factory sends a signature *)
(* both codecs accept, with the same r and with s or its negative.         *)
NormalizedAccepted ==
    swiftScalars(signature) =>
        LET low == normalizeLowS(signature)
            s == Magnitude(signature.s)
        IN /\ ValidateP256DERSignature(low) /\ swiftSignature(low)
           /\ low.r = signature.r
           /\ Magnitude(low.s) = IF 2 * s > Order THEN Order - s ELSE s

(* The twin tried by the native verifier is the high form of the same      *)
(* signature: it normalizes to the very bytes that were accepted.          *)
TwinOfTheSame ==
    swiftSignature(signature) =>
        LET twin == equivalentHighSDER(signature)
        IN /\ swiftScalars(twin) /\ ~swiftSignature(twin)
           /\ normalizeLowS(twin) = signature

(* The two codecs accept the same signatures, and send what both accept.   *)
SignatureInv == SameSignatures /\ NormalizedAccepted /\ TwinOfTheSame
=============================================================================
