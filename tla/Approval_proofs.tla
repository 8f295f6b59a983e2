--------------------------- MODULE Approval_proofs --------------------------
(***************************************************************************)
(* The signer registry, the exchange of one approval and the codecs, for   *)
(* every length of a history and of a text, every window, every number of  *)
(* requests and plans, and every base, width and order of the signatures.  *)
(***************************************************************************)
EXTENDS MCApproval, SequenceTheorems, FiniteSetTheorems, WellFoundedInduction, TLAPS

-----------------------------------------------------------------------------
(* The registry: one record.                                               *)

Entry == [key : Tuple, status : Statuses]

(* A body that is changed in two fields has any other as it was.           *)
LEMMA ChangedField ==
    ASSUME NEW b, NEW c, NEW d, NEW field \in DOMAIN b
    PROVE  Changed(b, c, d)[field] \in {b[field]} \cup {c[2] : x \in {field} \cap {c[1]}}
                                       \cup {d[2] : x \in {field} \cap {d[1]}}
  BY DEF Changed

(* The key that a supplied record introduces is a tuple of numbers or none.*)
LEMMA FreshSupplied ==
    ASSUME TypeOK, NEW kind \in Kinds, NEW c \in Changes(history), NEW d \in Changes(history),
           NEW r \in Supplied(history, kind, c, d)
    PROVE  \/ r.body.fresh = None
           \/ r.body.fresh \in [generation : Nat, id : Nat, spki : Nat]
  <1> DEFINE Numbers == [generation : Nat, id : Nat, spki : Nat]
             b == Draft(history, kind)
  <1>1. history.revision \in Nat /\ history.keys \in Seq(Entry)
    BY LenProperties DEF TypeOK, Entry
  <1>2. \A n \in Nat : Key(n) \in Numbers
    BY DEF Key
  <1>3. \A i \in DOMAIN history.keys : history.keys[i].key \in Numbers
    <2> SUFFICES ASSUME NEW i \in DOMAIN history.keys PROVE history.keys[i].key \in Numbers
      OBVIOUS
    <2>1. history.keys[i] \in Entry
      BY <1>1, LenProperties, ElementOfSeq
    <2> QED
      BY <2>1, BoundsAssumption DEF Entry, Tuple
  <1>4. Tuples(history) \subseteq Numbers
    <2>1. Key(history.revision + 1) \in Numbers /\ Key(history.revision) \in Numbers
      <3> HIDE DEF Numbers
      <3>1. history.revision + 1 \in Nat
        BY <1>1
      <3> QED
        BY <1>1, <1>2, <3>1
    <2>2. ASSUME NEW next \in Numbers, NEW key \in Numbers, NEW x \in DOMAIN next
          PROVE  [next EXCEPT ![x] = key[x]] \in Numbers
      <3>1. x \in {"generation", "id", "spki"}
        OBVIOUS
      <3> QED
        BY <3>1
    <2> QED
      BY <1>3, <2>1, <2>2 DEF Tuples
  <1>5. \A e \in Changes(history) : e[1] = "fresh" => e[2] \in Tuples(history) \cup {None}
    BY DEF Changes, Choices
  <1>6. "fresh" \in DOMAIN b /\ b.fresh \in Numbers \cup {None}
    <2>1. "fresh" \in DOMAIN b /\ b.fresh \in {None, Key(history.revision + 1)}
      BY DEF Draft
    <2>2. history.revision + 1 \in Nat
      BY <1>1
    <2> HIDE DEF Numbers, b
    <2> QED
      BY <1>2, <2>1, <2>2
  <1>7. Changed(b, c, d).fresh \in Numbers \cup {None}
    BY <1>4, <1>5, <1>6, ChangedField
  <1>8. r.body = Changed(b, c, d)
    BY DEF Supplied, Signings, Sealed
  <1> QED
    BY <1>7, <1>8

(* What a prefix of n keys and m more of them holds.                       *)
LEMMA Extended ==
    ASSUME NEW S, NEW s \in Seq(S), NEW e \in S
    PROVE  /\ s \o <<>> = s
           /\ s \o <<e>> \in Seq(S) /\ Len(s \o <<e>>) = Len(s) + 1
           /\ \A i \in 1 .. Len(s) : (s \o <<e>>)[i] = s[i]
           /\ (s \o <<e>>)[Len(s) + 1] = e
  <1>1. <<e>> \in Seq(S) /\ Len(<<e>>) = 1 /\ <<e>>[1] = e
    OBVIOUS
  <1>2. Len(s) \in Nat
    BY LenProperties
  <1>3. /\ s \o <<e>> \in Seq(S) /\ Len(s \o <<e>>) = Len(s) + 1
        /\ \A i \in 1 .. Len(s) + 1 : (s \o <<e>>)[i] = IF i <= Len(s) THEN s[i] ELSE <<e>>[i - Len(s)]
    BY <1>1, ConcatProperties
  <1>4. s \o <<>> = s
    BY ConcatEmptySeq
  <1> QED
    BY <1>1, <1>2, <1>3, <1>4

(* At most one of finitely many.                                           *)
LEMMA OneOrNone ==
    ASSUME NEW S, IsFiniteSet(S)
    PROVE  Cardinality(S) <= 1 <=> S = {} \/ \E x : S = {x}
  <1>1. Cardinality(S) \in Nat
    BY FS_CardinalityType
  <1>2. Cardinality(S) = 0 <=> S = {}
    BY FS_EmptySet
  <1>3. Cardinality(S) = 1 <=> \E x : S = {x}
    BY FS_Singleton
  <1> QED
    BY <1>1, <1>2, <1>3

LEMMA ActiveKeys ==
    ASSUME TypeOK
    PROVE  /\ history.keys \in Seq(Entry) /\ Len(history.keys) \in Nat
           /\ DOMAIN history.keys = 1 .. Len(history.keys)
           /\ \A i \in DOMAIN history.keys : history.keys[i] \in Entry /\ history.keys[i].key \in Tuple
           /\ IsFiniteSet(Active(history))
           /\ Len(records) \in Nat /\ history.revision = Len(records)
  <1>1. /\ history.keys \in Seq(Entry)
        /\ history.revision = Len(records) /\ Len(records) \in Nat
    BY LenProperties DEF TypeOK, Entry
  <1>2. Len(history.keys) \in Nat /\ DOMAIN history.keys = 1 .. Len(history.keys)
    BY <1>1, LenProperties
  <1>3. \A i \in DOMAIN history.keys : history.keys[i] \in Entry
    BY <1>1, <1>2, ElementOfSeq
  <1>4. IsFiniteSet(Active(history))
    <2>1. IsFiniteSet(1 .. Len(history.keys))
      BY <1>2, FS_Interval
    <2>2. Active(history) \in SUBSET (1 .. Len(history.keys))
      BY <1>2 DEF Active
    <2> QED
      BY <2>1, <2>2, FS_Subset
  <1> QED
    BY <1>1, <1>2, <1>3, <1>4 DEF Entry

(* A record that is accepted fits the key that is active, if one is.       *)
LEMMA AcceptedFits ==
    ASSUME TypeOK, NEW r, GoAccepts(history, r)
    PROVE  LET b == r.body IN
           /\ b.kind \in Kinds /\ b.revision = Len(records) + 1 /\ b.previous = history.tip
           /\ Len(records) < MaxRecords
           /\ b.kind = "revoke" <=> b.fresh = None
           /\ b.fresh # None => b.fresh.generation = b.revision /\ Unused(history, b.fresh)
           /\ \A i \in Active(history) :
                 /\ Active(history) = {i} /\ b.target = history.keys[i].key
                 /\ b.kind # "enroll"
                 /\ b.targetNew = IF b.kind = "rotate" THEN "retained" ELSE "revoked"
           /\ Active(history) = {} => b.target = None /\ b.kind \in {"enroll", "recover"}
           /\ b.kind = "enroll" => history.keys = <<>>
           /\ history.keys = <<>> => b.kind = "enroll"
           /\ b.kind # "revoke" => r.newSig = Signature(b.fresh, "new", b)
           /\ b.kind \in {"rotate", "revoke"} => r.oldSig = Signature(b.target, "old", b)
  <1> DEFINE b == r.body
  <1>1. /\ GoGrammar(b) /\ GoHeader(history, r) /\ GoTarget(history, b) /\ GoKind(history, b)
        /\ GoFresh(history, b) /\ GoSignatures(r) /\ history.revision < MaxRecords
    BY DEF GoAccepts, GoReplay
  <1>2. history.revision = Len(records) /\ IsFiniteSet(Active(history)) /\ Active(history) \subseteq DOMAIN history.keys
    BY ActiveKeys DEF Active
  <1>3. b.kind \in Kinds /\ b.revision = Len(records) + 1 /\ b.previous = history.tip
    BY <1>1, <1>2 DEF GoGrammar, GoHeader
  <1>4. ASSUME NEW i \in Active(history) PROVE Active(history) = {i}
    BY <1>1, <1>2, <1>4, OneOrNone DEF GoTarget
  <1>5. history.keys = <<>> => Active(history) = {}
    BY <1>2
  <1>6. /\ b.kind # "revoke" => r.newSig = Signature(b.fresh, "new", b)
        /\ b.kind \in {"rotate", "revoke"} => r.oldSig = Signature(b.target, "old", b)
    BY <1>1 DEF GoHeader, GoSignatures, Signed
  <1>7. /\ b.kind = "revoke" <=> b.fresh = None
        /\ b.fresh # None => b.fresh.generation = b.revision /\ Unused(history, b.fresh)
    BY <1>1 DEF GoFresh, GoGrammar
  <1>8. /\ \A i \in Active(history) : /\ b.target = history.keys[i].key
                                      /\ b.targetNew = IF b.kind = "rotate" THEN "retained" ELSE "revoked"
        /\ Active(history) = {} => b.target = None
    BY <1>1 DEF GoTarget
  <1>9. /\ b.kind = "enroll" => history.keys = <<>>
        /\ Active(history) = {} => b.kind \notin {"rotate", "revoke"}
        /\ history.keys = <<>> => b.kind # "recover"
    BY <1>1 DEF GoKind
  <1> QED
    BY <1>1, <1>2, <1>3, <1>4, <1>5, <1>6, <1>7, <1>8, <1>9 DEF Kinds

(* What an accepted record makes of the keys, in both programs.            *)
LEMMA Advanced ==
    ASSUME TypeOK, NEW r, GoAccepts(history, r),
           r.body.fresh = None \/ r.body.fresh \in [generation : Nat, id : Nat, spki : Nat]
    PROVE  LET b == r.body
               h == GoAdvance(history, r)
               n == Len(history.keys)
           IN
           /\ h = [revision |-> Len(records) + 1, tip |-> Len(records) + 1,
                   descriptor |-> b.descriptor, keys |-> h.keys]
           /\ h.keys \in Seq(Entry)
           /\ \A i \in 1 .. n : /\ h.keys[i].key = history.keys[i].key
                                /\ h.keys[i].status = GoStatus(history, b, i)
           /\ b.fresh = None => Len(h.keys) = n
           /\ b.fresh # None => /\ Len(h.keys) = n + 1 /\ b.fresh \in Tuple
                                /\ h.keys[n + 1] = [key |-> b.fresh, status |-> "active"]
           /\ SwiftAdvance(history, r) = h
  <1> DEFINE b == r.body
             h == GoAdvance(history, r)
             n == Len(history.keys)
             old == [i \in DOMAIN history.keys |-> [history.keys[i] EXCEPT !.status = GoStatus(history, b, i)]]
             mirrored == [i \in DOMAIN history.keys |-> [history.keys[i] EXCEPT !.status = SwiftStatus(history, b, i)]]
             new == [key |-> b.fresh, status |-> "active"]
  <1>1. /\ n \in Nat /\ DOMAIN history.keys = 1 .. n /\ history.revision = Len(records)
        /\ \A i \in 1 .. n : history.keys[i] \in Entry
    BY ActiveKeys
  <1>2. /\ b.kind \in Kinds /\ b.revision = Len(records) + 1 /\ Len(records) < MaxRecords
        /\ b.fresh # None => b.fresh.generation = b.revision
        /\ \A i \in Active(history) : b.targetNew = IF b.kind = "rotate" THEN "retained" ELSE "revoked"
        /\ \A i \in Active(history) : b.kind # "enroll"
    BY AcceptedFits
  <1>3. \A i \in 1 .. n : GoStatus(history, b, i) \in Statuses /\ SwiftStatus(history, b, i) = GoStatus(history, b, i)
    <2> SUFFICES ASSUME NEW i \in 1 .. n
                 PROVE  GoStatus(history, b, i) \in Statuses /\ SwiftStatus(history, b, i) = GoStatus(history, b, i)
      OBVIOUS
    <2>1. history.keys[i].status \in Statuses
      BY <1>1 DEF Entry
    <2>2. CASE b.kind = "recover"
      BY <2>2 DEF GoStatus, SwiftStatus, Statuses
    <2>3. CASE b.kind # "recover" /\ i \in Active(history)
      BY <1>2, <2>3 DEF GoStatus, SwiftStatus, Statuses, Kinds
    <2>4. CASE b.kind # "recover" /\ i \notin Active(history)
      BY <2>1, <2>4 DEF GoStatus, SwiftStatus
    <2> QED
      BY <2>2, <2>3, <2>4
  <1>4. old \in Seq(Entry) /\ Len(old) = n
    <2>1. \A i \in 1 .. n : [history.keys[i] EXCEPT !.status = GoStatus(history, b, i)] \in Entry
      BY <1>1, <1>3 DEF Entry
    <2>2. old \in [1 .. n -> Entry]
      BY <1>1, <2>1
    <2> HIDE DEF old
    <2> QED
      BY <1>1, <2>2, SeqDef
  <1>5. \A i \in 1 .. n : old[i].key = history.keys[i].key /\ old[i].status = GoStatus(history, b, i)
    BY <1>1 DEF Entry
  <1>6. mirrored = old
    BY <1>1, <1>3
  <1>7. h.keys = old \o Introduced(b.fresh) /\ SwiftAdvance(history, r).keys = mirrored \o Introduced(b.fresh)
    BY DEF GoAdvance, SwiftAdvance
  <1>8. /\ h = [revision |-> Len(records) + 1, tip |-> Len(records) + 1,
                descriptor |-> b.descriptor, keys |-> h.keys]
        /\ SwiftAdvance(history, r) = h
    BY <1>1, <1>2, <1>6 DEF GoAdvance, SwiftAdvance, NextTip
  <1>9. CASE b.fresh = None
    <2>1. h.keys = old
      BY <1>4, <1>7, <1>9, ConcatEmptySeq DEF Introduced
    <2> HIDE DEF old, h, mirrored
    <2> QED
      BY <1>4, <1>5, <1>8, <1>9, <2>1 DEF h
  <1>10. CASE b.fresh # None
    <2>1. b.fresh \in Tuple
      <3>1. b.fresh \in [generation : Nat, id : Nat, spki : Nat] /\ Len(records) \in Nat
        BY <1>10, ActiveKeys
      <3>2. b.fresh.generation \in 1 .. MaxRecords
        BY <1>2, <1>10, <3>1, BoundsAssumption
      <3> QED
        BY <3>1, <3>2 DEF Tuple
    <2>2. new \in Entry
      BY <2>1 DEF Entry, Statuses
    <2>3. h.keys = old \o <<new>>
      BY <1>7, <1>10 DEF Introduced
    <2> HIDE DEF old, h, mirrored, new
    <2>4. /\ h.keys \in Seq(Entry) /\ Len(h.keys) = n + 1 /\ h.keys[n + 1] = new
          /\ \A i \in 1 .. n : h.keys[i] = old[i]
      BY <1>4, <2>2, <2>3, Extended
    <2> QED
      BY <1>5, <1>8, <1>10, <2>1, <2>4 DEF h, new
  <1> QED
    BY <1>9, <1>10

-----------------------------------------------------------------------------
(* The registry: both verifiers.                                           *)

LEMMA ActiveKey ==
    ASSUME TypeOK
    PROVE  /\ Active(history) = {} => SwiftActive(history) = None
           /\ \A i : Active(history) = {i} =>
                SwiftActive(history) = history.keys[i].key /\ SwiftActive(history) # None
  <1>1. ASSUME NEW i, Active(history) = {i}
        PROVE  SwiftActive(history) = history.keys[i].key /\ SwiftActive(history) # None
    <2>1. i \in DOMAIN history.keys /\ i \in Nat
      BY <1>1, ActiveKeys DEF Active
    <2>2. (CHOOSE k \in Active(history) : \A j \in Active(history) : k <= j) = i
      BY <1>1, <2>1
    <2>3. SwiftActive(history) = history.keys[i].key
      BY <1>1, <2>2 DEF SwiftActive
    <2> QED
      BY <2>1, <2>3, ActiveKeys, NoneAssumption
  <1> QED
    BY <1>1 DEF SwiftActive

LEMMA GrammarsAgree == ASSUME NEW b PROVE GoGrammar(b) <=> SwiftGrammar(b)
  BY DEF GoGrammar, SwiftGrammar

(* The same questions, grouped by the field they are about.                *)
CommonQuestions(h, r) ==
    LET b == r.body IN
    /\ b.revision = h.revision + 1 /\ b.previous = h.tip
    /\ b.requested <= b.accepted /\ b.accepted <= b.committed
    /\ b.committed - b.requested < Window
    /\ (b.recovery # None) <=> (b.kind = "recover")
    /\ Cardinality(Active(h)) <= 1
    /\ (r.oldSig # None) <=> (b.kind \in {"rotate", "revoke"})
    /\ (r.newSig # None) <=> (b.kind # "revoke")
    /\ r.oldSig # None => Signed(b.target, r.oldSig, "old", b)
    /\ r.newSig # None => Signed(b.fresh, r.newSig, "new", b)

GoQuestions(h, b) ==
    (b.revokesAll <=> (b.kind = "recover")) /\ GoTarget(h, b) /\ GoKind(h, b) /\ GoFresh(h, b)

SwiftQuestions(h, b) ==
    /\ b.target = SwiftActive(h)
    /\ b.targetPrevious = IF SwiftActive(h) = None THEN None ELSE "active"
    /\ b.newStatus = IF b.fresh = None THEN None ELSE "active"
    /\ b.fresh # None => Unused(h, b.fresh)
    /\ SwiftEvent(h, b)

(* Both verifiers accept the same records, any at all, after a history     *)
(* that both have accepted (ReplaySuppliedRegistryRecord and replay in     *)
(* SuppliedRegistryHistory.swift).                                         *)
RecordsAgree == \A r : GoAccepts(history, r) <=> SwiftAccepts(history, r)

LEMMA VerdictsAgree == TypeOK /\ KeysEnrolled => RecordsAgree
  <1> SUFFICES ASSUME TypeOK, KeysEnrolled, NEW r
               PROVE  GoAccepts(history, r) <=> SwiftAccepts(history, r)
    BY DEF RecordsAgree
  <1> DEFINE b == r.body
  <1>1. GoReplay(history, r) <=> CommonQuestions(history, r) /\ GoQuestions(history, b)
    BY DEF GoReplay, GoHeader, GoSignatures, GoTarget, GoQuestions, CommonQuestions
  <1>2. SwiftReplay(history, r) <=> CommonQuestions(history, r) /\ SwiftQuestions(history, b)
    BY DEF SwiftReplay, SwiftQuestions, CommonQuestions
  <1>3. ASSUME b.kind \in Kinds, CommonQuestions(history, r)
        PROVE  GoQuestions(history, b) <=> SwiftQuestions(history, b)
    <2>1. /\ history.revision = 0 <=> history.keys = <<>>
          /\ b.revision = 1 <=> history.keys = <<>>
      <3>1. history.revision = Len(records) /\ (records = <<>> <=> Len(records) = 0) /\ Len(records) \in Nat
        BY ActiveKeys, EmptySeq DEF TypeOK
      <3> QED
        BY <1>3, <3>1 DEF KeysEnrolled, CommonQuestions
    <2>2. Active(history) = {} \/ \E i : Active(history) = {i}
      BY <1>3, ActiveKeys, OneOrNone DEF CommonQuestions
    <2>3. CASE Active(history) = {}
      <3>1. SwiftActive(history) = None
        BY <2>3, ActiveKey
      <3>2. CASE b.kind = "enroll"
        BY <1>3, <2>1, <2>3, <3>1, <3>2
           DEF GoQuestions, GoTarget, GoKind, GoFresh, SwiftQuestions, SwiftEvent, CommonQuestions
      <3>3. CASE b.kind \in {"rotate", "revoke"}
        BY <2>3, <3>1, <3>3 DEF GoQuestions, GoKind, SwiftQuestions, SwiftEvent
      <3>4. CASE b.kind = "recover"
        BY <1>3, <2>1, <2>3, <3>1, <3>4
           DEF GoQuestions, GoTarget, GoKind, GoFresh, SwiftQuestions, SwiftEvent, CommonQuestions, TypeOK
      <3> QED
        BY <1>3, <3>2, <3>3, <3>4 DEF Kinds
    <2>4. ASSUME NEW i, Active(history) = {i}
          PROVE  GoQuestions(history, b) <=> SwiftQuestions(history, b)
      <3>1. SwiftActive(history) = history.keys[i].key /\ SwiftActive(history) # None
        BY <2>4, ActiveKey
      <3>2. history.keys # <<>> /\ history.revision > 0
        <4>1. i \in DOMAIN history.keys
          BY <2>4 DEF Active
        <4>2. history.keys # <<>>
          BY <4>1
        <4> QED
          BY <2>1, <4>2, ActiveKeys
      <3>3. GoTarget(history, b) <=>
              /\ b.target = SwiftActive(history) /\ b.targetPrevious = "active"
              /\ b.targetNew = IF b.kind = "rotate" THEN "retained" ELSE "revoked"
        BY <1>3, <2>4, <3>1 DEF GoTarget, CommonQuestions
      <3>4. CASE b.kind = "enroll"
        BY <3>1, <3>2, <3>4 DEF GoQuestions, GoKind, SwiftQuestions, SwiftEvent
      <3>5. CASE b.kind = "rotate"
        BY <1>3, <2>4, <3>1, <3>2, <3>3, <3>5 DEF GoQuestions, GoKind, GoFresh, SwiftQuestions, SwiftEvent
      <3>6. CASE b.kind = "revoke"
        BY <1>3, <2>4, <3>1, <3>2, <3>3, <3>6 DEF GoQuestions, GoKind, GoFresh, SwiftQuestions, SwiftEvent
      <3>7. CASE b.kind = "recover"
        BY <1>3, <2>4, <3>1, <3>2, <3>3, <3>7 DEF GoQuestions, GoKind, GoFresh, SwiftQuestions, SwiftEvent
      <3> QED
        BY <1>3, <3>4, <3>5, <3>6, <3>7 DEF Kinds
    <2> QED
      BY <2>2, <2>3, <2>4
  <1>4. GoGrammar(b) => b.kind \in Kinds
    BY DEF GoGrammar
  <1> QED
    BY <1>1, <1>2, <1>3, <1>4, GrammarsAgree DEF GoAccepts, SwiftAccepts

-----------------------------------------------------------------------------
(* The registry: every reachable prefix.                                   *)

LEMMA InvInit == Init => RegistryInv
  <1> SUFFICES ASSUME Init PROVE RegistryInv
    OBVIOUS
  <1>1. /\ records = <<>> /\ history = EmptyHistory /\ mirror = history
        /\ history.keys = <<>> /\ history.revision = 0 /\ history.tip = 0
        /\ DOMAIN records = {} /\ DOMAIN history.keys = {}
    BY DEF Init, EmptyHistory, EmptyTip
  <1>2. TypeOK
    <2>1. <<>> \in Seq({records[n] : n \in DOMAIN records}) /\ Len(<<>>) = 0
      BY EmptySeq
    <2>2. <<>> \in Seq([key : Tuple, status : Statuses])
      BY EmptySeq
    <2> QED
      BY <1>1, <2>1, <2>2, BoundsAssumption DEF TypeOK, EmptyHistory
  <1>3. KeysEnrolled
    BY <1>1 DEF KeysEnrolled
  <1>4. Active(history) = {}
    BY <1>1 DEF Active
  <1>5. OneActive
    BY <1>4, FS_EmptySet DEF OneActive
  <1>6. SameVerdict
    BY <1>1, <1>2, <1>3, VerdictsAgree DEF SameVerdict, RecordsAgree
  <1> QED
    BY <1>1, <1>2, <1>3, <1>5, <1>6, EmptySeq
       DEF RegistryInv, StatusFollowsRecords, NeverReused, PossessionProven, GapFree

(* What a record adds to what the records say of an earlier key.           *)
LEMMA StatusAfterRecord ==
    ASSUME TypeOK, NEW r, records' = Append(records, r), NEW key, key.generation \in Nat,
           key.generation <= Len(records)
    PROVE  StatusByRecords(key)' =
             IF r.body.kind = "recover" \/ (r.body.kind = "revoke" /\ r.body.target = key) THEN "revoked"
             ELSE IF StatusByRecords(key) # "revoked" /\ r.body.target = key THEN "retained"
             ELSE StatusByRecords(key)
  <1>0. PICK m : m = Len(records) + 1
    OBVIOUS
  <1> DEFINE Later == {n \in DOMAIN records : n > key.generation}
             Revokes(n) == \/ records[n].body.kind = "recover"
                           \/ records[n].body.kind = "revoke" /\ records[n].body.target = key
             Names(n) == records[n].body.target = key
  <1>1. /\ Len(records) \in Nat /\ DOMAIN records = 1 .. Len(records)
        /\ DOMAIN records' = 1 .. m /\ records'[m] = r
        /\ \A n \in 1 .. Len(records) : records'[n] = records[n]
    <2>1. records \in Seq({records[n] : n \in DOMAIN records})
      BY DEF TypeOK
    <2>2. Len(records) \in Nat /\ DOMAIN records = 1 .. Len(records)
      BY <2>1, LenProperties
    <2> DEFINE S == {records[n] : n \in DOMAIN records} \cup {r}
    <2>3. records \in Seq(S)
      <3>1. \A n \in 1 .. Len(records) : records[n] \in S
        BY <2>2
      <3> HIDE DEF S
      <3> QED
        BY <2>1, <2>2, <3>1, SeqDef
    <2>4. r \in S
      OBVIOUS
    <2> HIDE DEF S
    <2> QED
      BY <1>0, <2>2, <2>3, <2>4, AppendProperties
  <1>2. Later' = Later \cup {m}
    BY <1>0, <1>1
  <1>3. \A n \in Later : Revokes(n)' = Revokes(n) /\ Names(n)' = Names(n)
    BY <1>1
  <1>4. /\ Revokes(m)' = (r.body.kind = "recover" \/ (r.body.kind = "revoke" /\ r.body.target = key))
        /\ Names(m)' = (r.body.target = key)
    BY <1>1
  <1>5. StatusByRecords(key) = IF \E n \in Later : Revokes(n) THEN "revoked"
                               ELSE IF \E n \in Later : Names(n) THEN "retained" ELSE "active"
    BY DEF StatusByRecords
  <1>6. StatusByRecords(key)' = IF \E n \in Later' : Revokes(n)' THEN "revoked"
                                ELSE IF \E n \in Later' : Names(n)' THEN "retained" ELSE "active"
    BY DEF StatusByRecords
  <1> HIDE DEF Later, Revokes, Names
  <1> QED
    BY <1>2, <1>3, <1>4, <1>5, <1>6

(* A record that is accepted keeps the registry as it should be.           *)
LEMMA SupplyKeeps ==
    ASSUME RegistryInv, NEW r, Supply(r),
           r.body.fresh = None \/ r.body.fresh \in [generation : Nat, id : Nat, spki : Nat]
    PROVE  RegistryInv'
  <1> DEFINE b == r.body
             m == Len(records)
             n == Len(history.keys)
  <1>1. TypeOK /\ GoAccepts(history, r) /\ mirror = history /\ history.tip = m
    BY DEF RegistryInv, SameVerdict, GapFree, Supply
  <1>2. /\ n \in Nat /\ DOMAIN history.keys = 1 .. n /\ m \in Nat
        /\ \A i \in 1 .. n : history.keys[i] \in Entry /\ history.keys[i].key \in Tuple
    BY <1>1, ActiveKeys
  <1>3. /\ history' = [revision |-> m + 1, tip |-> m + 1, descriptor |-> b.descriptor, keys |-> history'.keys]
        /\ history'.keys \in Seq(Entry)
        /\ \A i \in 1 .. n : /\ history'.keys[i].key = history.keys[i].key
                             /\ history'.keys[i].status = GoStatus(history, b, i)
        /\ b.fresh = None => Len(history'.keys) = n
        /\ b.fresh # None => /\ Len(history'.keys) = n + 1 /\ b.fresh \in Tuple
                             /\ history'.keys[n + 1] = [key |-> b.fresh, status |-> "active"]
        /\ mirror' = history'
    <2>1. history' = GoAdvance(history, r) /\ mirror' = SwiftAdvance(history, r)
      BY <1>1 DEF Supply
    <2> HIDE DEF m, n, b
    <2> QED
      BY <1>1, <2>1, Advanced DEF m, n, b
  <1>4. /\ b.kind \in Kinds /\ b.revision = m + 1 /\ b.previous = history.tip /\ m < MaxRecords
        /\ b.kind = "revoke" <=> b.fresh = None
        /\ b.fresh # None => b.fresh.generation = b.revision /\ Unused(history, b.fresh)
        /\ \A i \in Active(history) :
              /\ Active(history) = {i} /\ b.target = history.keys[i].key
              /\ b.kind # "enroll"
              /\ b.targetNew = IF b.kind = "rotate" THEN "retained" ELSE "revoked"
        /\ Active(history) = {} => b.target = None /\ b.kind \in {"enroll", "recover"}
        /\ b.kind = "enroll" => history.keys = <<>>
        /\ history.keys = <<>> => b.kind = "enroll"
        /\ b.kind # "revoke" => r.newSig = Signature(b.fresh, "new", b)
        /\ b.kind \in {"rotate", "revoke"} => r.oldSig = Signature(b.target, "old", b)
    BY <1>1, AcceptedFits
  <1>5. /\ DOMAIN history'.keys = 1 .. Len(history'.keys)
        /\ DOMAIN history'.keys = (1 .. n) \cup (IF b.fresh = None THEN {} ELSE {n + 1})
    <2>1. DOMAIN history'.keys = 1 .. Len(history'.keys)
      BY <1>3, LenProperties
    <2> QED
      BY <1>2, <1>3, <2>1
  <1>6. /\ records' \in Seq({records'[k] : k \in DOMAIN records'}) /\ Len(records') = m + 1
        /\ DOMAIN records = 1 .. m /\ DOMAIN records' = 1 .. m + 1 /\ records'[m + 1] = r
        /\ \A k \in 1 .. m : records'[k] = records[k]
    <2>1. records \in Seq({records[k] : k \in DOMAIN records}) /\ DOMAIN records = 1 .. m
      BY <1>1, LenProperties DEF TypeOK
    <2> DEFINE S == {records[k] : k \in DOMAIN records} \cup {r}
    <2>2. records \in Seq(S)
      <3>1. \A k \in 1 .. m : records[k] \in S
        BY <2>1
      <3> HIDE DEF S
      <3> QED
        BY <2>1, <3>1, SeqDef
    <2>3. r \in S
      OBVIOUS
    <2>4. records' = Append(records, r)
      BY DEF Supply
    <2> HIDE DEF S
    <2>5. /\ records' \in Seq(S) /\ Len(records') = m + 1 /\ records'[m + 1] = r
          /\ \A k \in 1 .. m : records'[k] = records[k]
      BY <1>2, <2>2, <2>3, <2>4, AppendProperties
    <2>6. DOMAIN records' = 1 .. m + 1 /\ m + 1 \in Nat
      BY <1>2, <2>5, LenProperties
    <2>7. records' \in [1 .. m + 1 -> {records'[k] : k \in DOMAIN records'}]
      <3>1. records' \in [1 .. m + 1 -> S]
        BY <2>5, <2>6, LenProperties
      <3> QED
        BY <2>6, <3>1
    <2>8. records' \in Seq({records'[k] : k \in DOMAIN records'})
      <3> DEFINE T == {records'[k] : k \in DOMAIN records'}
      <3>1. records' \in [1 .. m + 1 -> T]
        BY <2>7
      <3> HIDE DEF T
      <3>2. records' \in Seq(T)
        BY <2>6, <3>1, SeqDef
      <3> QED
        BY <3>2 DEF T
    <2> QED
      BY <2>1, <2>5, <2>6, <2>8
  <1> HIDE DEF b, m, n
  <1>7. TypeOK'
    <2>1. history' \in [revision : {Len(records')}, tip : 0 .. MaxRecords, descriptor : {history'.descriptor},
                        keys : Seq([key : Tuple, status : Statuses])]
      BY <1>2, <1>3, <1>4, <1>6, BoundsAssumption DEF Entry
    <2> QED
      BY <1>2, <1>4, <1>6, <2>1, BoundsAssumption DEF TypeOK
  <1>8. KeysEnrolled'
    <2>1. records' # <<>>
      BY <1>2, <1>6
    <2>2. history'.keys # <<>>
      <3>1. CASE b.fresh # None
        BY <1>2, <1>3, <3>1
      <3>2. CASE b.fresh = None
        <4>1. history.keys # <<>>
          BY <1>4, <3>2
        <4>2. n # 0
          BY <4>1, <1>1, ActiveKeys, EmptySeq DEF n
        <4> QED
          BY <1>2, <1>3, <3>2, <4>2
      <3> QED
        BY <3>1, <3>2
    <2>3. ASSUME NEW i \in DOMAIN history'.keys PROVE history'.keys[i].key.generation <= m + 1
      <3>1. CASE i \in 1 .. n
        <4>1. history.keys[i].key.generation <= m /\ history.keys[i].key.generation \in Nat
          BY <1>2, <3>1, BoundsAssumption DEF RegistryInv, KeysEnrolled, Tuple, m
        <4> QED
          BY <1>2, <1>3, <3>1, <4>1
      <3>2. CASE b.fresh # None /\ i = n + 1
        BY <1>2, <1>3, <1>4, <3>2
      <3> QED
        BY <1>5, <2>3, <3>1, <3>2
    <2> QED
      BY <1>6, <2>1, <2>2, <2>3 DEF KeysEnrolled
  <1>9. StatusFollowsRecords'
    <2> SUFFICES ASSUME NEW i \in DOMAIN history'.keys
                 PROVE  (history.keys[i].status = StatusByRecords(history.keys[i].key))'
      BY DEF StatusFollowsRecords
    <2>1. CASE i \in 1 .. n
      <3>0. PICK key : key = history.keys[i].key
        OBVIOUS
      <3>1. /\ key \in Tuple /\ key.generation \in Nat /\ key.generation <= m /\ key # None
            /\ history'.keys[i].key = key /\ history.keys[i].status = StatusByRecords(key)
            /\ history'.keys[i].status = GoStatus(history, b, i)
            /\ history.keys[i].status \in Statuses
        <4>1. key \in Tuple /\ key # None /\ key.generation \in Nat /\ history.keys[i].status \in Statuses
          BY <1>2, <2>1, <3>0, BoundsAssumption, NoneAssumption DEF Tuple, Entry
        <4>2. key.generation <= m
          BY <1>2, <2>1, <3>0 DEF RegistryInv, KeysEnrolled, m
        <4>3. history.keys[i].status = StatusByRecords(key)
          BY <1>2, <2>1, <3>0 DEF RegistryInv, StatusFollowsRecords
        <4> QED
          BY <1>3, <2>1, <3>0, <4>1, <4>2, <4>3
      <3>2. StatusByRecords(key)' =
              IF b.kind = "recover" \/ (b.kind = "revoke" /\ b.target = key) THEN "revoked"
              ELSE IF StatusByRecords(key) # "revoked" /\ b.target = key THEN "retained"
              ELSE StatusByRecords(key)
        <4>1. records' = Append(records, r)
          BY DEF Supply
        <4> QED
          BY <1>1, <3>1, <4>1, StatusAfterRecord DEF b, m
      <3>3. b.kind = "recover" => history'.keys[i].status = StatusByRecords(key)'
        BY <3>1, <3>2 DEF GoStatus
      <3>4. ASSUME b.kind # "recover", i \in Active(history)
            PROVE  history'.keys[i].status = StatusByRecords(key)'
        <4>1. /\ b.target = key /\ b.kind \in {"rotate", "revoke"}
              /\ b.targetNew = IF b.kind = "rotate" THEN "retained" ELSE "revoked"
              /\ history.keys[i].status = "active"
          BY <1>4, <3>0, <3>4 DEF Kinds, Active
        <4> QED
          BY <3>1, <3>2, <3>4, <4>1 DEF GoStatus
      <3>5. ASSUME b.kind # "recover", i \notin Active(history)
            PROVE  history'.keys[i].status = StatusByRecords(key)'
        <4>1. b.target # key
          <5>1. ASSUME NEW j \in Active(history) PROVE b.target # key
            <6>1. j # i /\ j \in 1 .. n /\ b.target = history.keys[j].key
              BY <1>2, <1>4, <3>5, <5>1 DEF Active
            <6>2. history.keys[i].key["id"] # history.keys[j].key["id"]
              BY <1>2, <2>1, <6>1 DEF RegistryInv, NeverReused
            <6> QED
              BY <3>0, <6>1, <6>2
          <5>2. CASE Active(history) = {}
            BY <1>4, <3>1, <5>2
          <5> QED
            BY <5>1, <5>2
        <4> QED
          BY <3>1, <3>2, <3>5, <4>1 DEF GoStatus
      <3>6. history'.keys[i].status = StatusByRecords(key)'
        BY <3>1, <3>3, <3>4, <3>5
      <3> QED
        BY <3>1, <3>6 DEF StatusByRecords
    <2>2. CASE b.fresh # None /\ i = n + 1
      <3>1. /\ history'.keys[i].key = b.fresh /\ history'.keys[i].status = "active"
            /\ b.fresh.generation = m + 1
        BY <1>3, <1>4, <2>2
      <3>2. ASSUME NEW k \in DOMAIN records' PROVE ~(k > b.fresh.generation)
        BY <1>2, <1>6, <3>1, <3>2
      <3>0. PICK key : key = b.fresh
        OBVIOUS
      <3>3. StatusByRecords(key)' = "active"
        BY <3>0, <3>2 DEF StatusByRecords
      <3> QED
        BY <3>0, <3>1, <3>3 DEF StatusByRecords
    <2> QED
      BY <1>5, <2>1, <2>2
  <1>10. OneActive'
    <2>1. ASSUME NEW i \in Active(history') PROVE b.fresh # None /\ i = n + 1
      <3>0. i \in DOMAIN history'.keys /\ history'.keys[i].status = "active"
        BY <2>1 DEF Active
      <3>1. ASSUME i \in 1 .. n PROVE FALSE
        <4>1. GoStatus(history, b, i) = "active"
          BY <1>3, <3>0, <3>1
        <4>2. i \in Active(history) => GoStatus(history, b, i) # "active"
          BY <1>4 DEF GoStatus
        <4>3. i \notin Active(history) => GoStatus(history, b, i) # "active"
          BY <1>2, <3>1 DEF GoStatus, Active
        <4> QED
          BY <4>1, <4>2, <4>3
      <3> QED
        BY <1>5, <3>0, <3>1
    <2>2. Active(history') \subseteq {n + 1}
      BY <2>1
    <2>3. IsFiniteSet({n + 1}) /\ Cardinality({n + 1}) = 1
      BY FS_Singleton
    <2>4. Cardinality(Active(history')) <= 1
      BY <2>2, <2>3, FS_Subset
    <2> QED
      BY <2>4 DEF OneActive, Active
  <1>11. NeverReused'
    <2> SUFFICES ASSUME NEW i \in DOMAIN history'.keys, NEW j \in DOMAIN history'.keys, i # j,
                        NEW x \in {"generation", "id", "spki"}
                 PROVE  history'.keys[i].key[x] # history'.keys[j].key[x]
      BY DEF NeverReused
    <2>1. CASE i \in 1 .. n /\ j \in 1 .. n
      BY <1>2, <1>3, <2>1 DEF RegistryInv, NeverReused
    <2>2. CASE b.fresh # None /\ i = n + 1 /\ j \in 1 .. n
      BY <1>2, <1>3, <1>4, <2>2 DEF Unused
    <2>3. CASE b.fresh # None /\ j = n + 1 /\ i \in 1 .. n
      BY <1>2, <1>3, <1>4, <2>3 DEF Unused
    <2> QED
      BY <1>5, <2>1, <2>2, <2>3
  <1>12. PossessionProven' /\ GapFree'
    <2>1. ASSUME NEW k \in DOMAIN records'
          PROVE  /\ records'[k].body.kind # "revoke" =>
                      records'[k].newSig = Signature(records'[k].body.fresh, "new", records'[k].body)
                 /\ records'[k].body.kind \in {"rotate", "revoke"} =>
                      records'[k].oldSig = Signature(records'[k].body.target, "old", records'[k].body)
                 /\ records'[k].body.revision = k /\ records'[k].body.previous = k - 1
      <3>1. CASE k \in 1 .. m
        BY <1>6, <3>1 DEF RegistryInv, PossessionProven, GapFree
      <3>2. CASE k = m + 1
        BY <1>1, <1>2, <1>4, <1>6, <3>2 DEF b
      <3> QED
        BY <1>2, <1>6, <3>1, <3>2
    <2> QED
      BY <1>3, <1>6, <2>1 DEF PossessionProven, GapFree
  <1>13. SameVerdict'
    <2>1. RecordsAgree'
      BY <1>7, <1>8, VerdictsAgree, PTL
    <2> QED
      BY <1>3, <2>1 DEF SameVerdict, RecordsAgree
  <1> QED
    BY <1>7, <1>8, <1>9, <1>10, <1>11, <1>12, <1>13 DEF RegistryInv

-----------------------------------------------------------------------------
(* The ceremony: what is written.                                          *)

(* A document is the one called for, but for one field at most.            *)
LEMMA EditKeeps ==
    ASSUME NEW h, NEW document, NEW edit \in Edits(h, document), NEW field \in DOMAIN document
    PROVE  LET d == Edited(document, edit) IN
           /\ DOMAIN d = DOMAIN document
           /\ \/ d[field] = document[field]
              \/ field \in DOMAIN Instead(h) /\ d[field] \in Instead(h)[field]
  <1>1. CASE edit[1] = None
    BY <1>1 DEF Edited
  <1>2. CASE edit[1] # None
    <2>1. PICK f \in DOMAIN document \cap DOMAIN Instead(h) :
             edit \in {f} \X (Instead(h)[f] \ {document[f]})
      BY <1>2 DEF Edits
    <2>2. edit[1] = f /\ edit[2] \in Instead(h)[f]
      BY <2>1
    <2> QED
      BY <1>2, <2>2 DEF Edited
  <1> QED
    BY <1>1, <1>2



LEMMA MomentsAreNumbers ==
    ASSUME NEW h
    PROVE  /\ \A field \in {"requested", "expires", "probed", "proposed", "accepted", "committed"} :
                field \in DOMAIN Instead(h) /\ Instead(h)[field] \subseteq Int
           /\ \A key \in Instead(h).fresh : key = None \/ key \in [generation : Nat, id : Nat, spki : Nat]
  <1>1. \A field \in {"requested", "expires", "probed", "proposed", "accepted", "committed"} :
                field \in DOMAIN Instead(h) /\ Instead(h)[field] \subseteq Int
    BY BoundsAssumption DEF Instead
  <1>2. Instead(h).fresh = {None, Key(1), Key(2), [Key(2) EXCEPT !.spki = 1]}
    BY DEF Instead
  <1> QED
    BY <1>1, <1>2 DEF Key

LEMMA DocumentsWritten ==
    ASSUME NEW h, NEW t
    PROVE  /\ {"proposed", "expires"} \subseteq DOMAIN Proposal(h, t) /\ Proposal(h, t).proposed = 1
           /\ "accepted" \in DOMAIN Acceptance(h, t) /\ Acceptance(h, t).accepted = 1
           /\ {"fresh", "committed"} \subseteq DOMAIN Body(h, t)
           /\ Body(h, t).committed = 1 /\ Body(h, t).fresh = Draft(h, t.request.kind).fresh
  <1>1. DOMAIN Common(h, t) = {"kind", "revision", "previous", "descriptor", "request", "challenge", "recovery"}
    BY DEF Common
  <1>2. {"proposed", "expires"} \subseteq DOMAIN Proposal(h, t) /\ Proposal(h, t).proposed = 1
    BY <1>1 DEF Proposal, Joined
  <1>3. "accepted" \in DOMAIN Acceptance(h, t) /\ Acceptance(h, t).accepted = 1
    BY <1>1 DEF Acceptance, Joined
  <1>4. /\ {"fresh", "committed"} \subseteq DOMAIN Body(h, t)
        /\ Body(h, t).committed = 1 /\ Body(h, t).fresh = Draft(h, t.request.kind).fresh
    <2>1. {"fresh", "committed"} \subseteq DOMAIN Draft(h, t.request.kind) /\ Draft(h, t.request.kind).committed = 1
      BY DEF Draft
    <2> DEFINE late == Joined(Common(h, t), Draft(h, t.request.kind))
    <2>2. /\ {"fresh", "committed"} \subseteq DOMAIN late
          /\ late.committed = 1 /\ late.fresh = Draft(h, t.request.kind).fresh
      BY <1>1, <2>1 DEF Joined
    <2>3. Body(h, t) = Joined([proposal |-> domainHash("proposal", [proposal |-> t.proposal, signature |-> t.signature]),
                               acceptance |-> domainHash("acceptance", t.acceptance),
                               requested |-> t.request.requested, accepted |-> t.acceptance.accepted], late)
      BY DEF Body
    <2> HIDE DEF late
    <2> QED
      BY <2>2, <2>3 DEF Joined
  <1> QED
    BY <1>2, <1>3, <1>4

-----------------------------------------------------------------------------
(* The ceremony: every reachable transcript.                               *)

(* The times of the documents written so far are times, and the key that a *)
(* complete one introduces is a key or none.                               *)
TimesWritten ==
    LET t == transcript IN
    /\ step # "request" => t.request.requested \in Int /\ t.request.expires \in Int
    /\ step \notin {"request", "evidence"} => t.evidence = None \/ t.evidence.probed \in Int
    /\ step \in {"acceptance", "record", "complete"} => t.proposal.proposed \in Int
    /\ step \in {"record", "complete"} => t.acceptance.accepted \in Int
    /\ step = "complete" =>
         /\ t.record.body.committed \in Int
         /\ \/ t.record.body.fresh = None
            \/ t.record.body.fresh \in [generation : Nat, id : Nat, spki : Nat]

(* What was accepted was asked of an earlier revision.                     *)
SpentBefore ==
    spent # None => spent.request.expected \in Nat /\ spent.request.expected < history.revision

CeremonyIInv == RegistryInv /\ CeremonyTypeOK /\ TimesWritten /\ SpentBefore

LEMMA RegistryStays == ASSUME RegistryInv, UNCHANGED vars PROVE RegistryInv'
  <1> USE DEF vars
  <1>1. TypeOK'
    BY DEF RegistryInv, TypeOK
  <1>2. KeysEnrolled' /\ OneActive' /\ NeverReused' /\ PossessionProven' /\ GapFree'
    BY DEF RegistryInv, KeysEnrolled, OneActive, NeverReused, PossessionProven, GapFree
  <1>3. StatusFollowsRecords'
    BY DEF RegistryInv, StatusFollowsRecords, StatusByRecords
  <1>4. SameVerdict'
    BY DEF RegistryInv, SameVerdict
  <1> QED
    BY <1>1, <1>2, <1>3, <1>4 DEF RegistryInv

LEMMA CeremonyInitially == CeremonyInit => CeremonyIInv
  <1> SUFFICES ASSUME CeremonyInit PROVE CeremonyIInv
    OBVIOUS
  <1>1. RegistryInv
    BY InvInit DEF CeremonyInit
  <1> QED
    BY <1>1, ChangesAssumption
       DEF CeremonyInit, CeremonyIInv, CeremonyTypeOK, TimesWritten, SpentBefore, RegistryInv

(* A complete transcript that is accepted supplies its record.             *)
LEMMA AcceptSupplies ==
    ASSUME CeremonyIInv, Accept
    PROVE  /\ Supply(transcript.record)
           /\ \/ transcript.record.body.fresh = None
              \/ transcript.record.body.fresh \in [generation : Nat, id : Nat, spki : Nat]
  <1>1. GoAccepts(history, transcript.record)
    BY DEF Accept, GoTranscript, GoTranscriptGrammar, GoAccepts
  <1> QED
    BY <1>1 DEF CeremonyIInv, TimesWritten, Accept, Supply

LEMMA CeremonyKeeps == ASSUME CeremonyIInv, [CeremonyNext]_ceremonyVars PROVE CeremonyIInv'
  <1> DEFINE Steps == {"request", "evidence", "proposal", "acceptance", "record", "complete"}
             Fields == DOMAIN Blank
  <1>1. /\ step \in Steps /\ DOMAIN transcript = Fields /\ changes \in 0 .. MaxChanges
        /\ Fields = {"request", "evidence", "unsigned", "proposal", "signature", "acceptance", "finalBody", "record"}
    BY DEF CeremonyIInv, CeremonyTypeOK, Blank
  <1>2. ASSUME UNCHANGED <<vars, spent>>
        PROVE  RegistryInv' /\ SpentBefore' /\ TypeOK'
    <2>1. RegistryInv'
      BY <1>2, RegistryStays DEF CeremonyIInv
    <2> QED
      BY <1>2, <2>1 DEF CeremonyIInv, SpentBefore, RegistryInv, vars
  <1>3. ASSUME NEW changed, Counted(changed) PROVE changes' \in 0 .. MaxChanges
    BY <1>1, <1>3, ChangesAssumption DEF Counted
  <1>4. ASSUME NEW kind \in Kinds, WriteRequest(kind) PROVE CeremonyIInv'
    <2> DEFINE honest == Request(history, kind)
    <2>1. PICK edit \in Edits(history, honest) :
            Counted(edit[1] # None) /\ transcript' = [Blank EXCEPT !.request = Edited(honest, edit)]
      BY <1>4 DEF WriteRequest
    <2>2. step' \in {"evidence", "proposal"} /\ UNCHANGED <<vars, spent>>
      BY <1>4 DEF WriteRequest, Writing
    <2>3. {"requested", "expires"} \subseteq DOMAIN honest /\ honest.requested \in Int /\ honest.expires \in Int
      BY BoundsAssumption DEF Request
    <2> HIDE DEF honest
    <2>4. Edited(honest, edit).requested \in Int /\ Edited(honest, edit).expires \in Int
      BY <2>3, EditKeeps, MomentsAreNumbers
    <2>5. /\ DOMAIN transcript' = Fields /\ transcript'.evidence = None
          /\ transcript'.request = Edited(honest, edit)
      BY <2>1 DEF Blank
    <2>6. TimesWritten'
      BY <2>2, <2>4, <2>5 DEF TimesWritten
    <2> QED
      BY <1>2, <1>3, <2>1, <2>2, <2>5, <2>6 DEF CeremonyIInv, CeremonyTypeOK
  <1>5. ASSUME WriteEvidence PROVE CeremonyIInv'
    <2> DEFINE Honest(key) == Evidence(history, transcript, key)
    <2>1. step = "evidence" /\ step' = "proposal" /\ UNCHANGED <<vars, spent>>
      BY <1>5 DEF WriteEvidence, Writing
    <2>2. \A key : "probed" \in DOMAIN Honest(key) /\ Honest(key).probed = 1
      BY DEF Evidence
    <2>3. PICK e : /\ transcript' = [transcript EXCEPT !.evidence = e]
                   /\ e = None \/ e.probed \in Int
                   /\ changes' \in 0 .. MaxChanges
      <3>1. CASE \E edit \in Edits(history, Honest(SwiftActive(history))) :
                   /\ Counted(edit[1] # None)
                   /\ transcript' = [transcript EXCEPT !.evidence = Edited(Honest(SwiftActive(history)), edit)]
        <4> HIDE DEF Honest
        <4>1. \A edit \in Edits(history, Honest(SwiftActive(history))) :
                 Edited(Honest(SwiftActive(history)), edit).probed \in Int
          BY <2>2, EditKeeps, MomentsAreNumbers
        <4> QED
          BY <1>3, <3>1, <4>1
      <3>2. CASE \E other \in ({Honest(key) : key \in {Key(1), Key(2), None}} \ {Honest(SwiftActive(history))}) \cup {None} :
                   Counted(TRUE) /\ transcript' = [transcript EXCEPT !.evidence = other]
        <4>1. PICK other : /\ other \in {Honest(key) : key \in {Key(1), Key(2), None}} \cup {None}
                           /\ Counted(TRUE) /\ transcript' = [transcript EXCEPT !.evidence = other]
          BY <3>2, Zenon
        <4>2. other = None \/ \E key : other = Honest(key)
          BY <4>1, Zenon
        <4> HIDE DEF Honest
        <4>3. other = None \/ other.probed = 1
          BY <2>2, <4>2
        <4>4. changes' \in 0 .. MaxChanges
          BY <1>3, <4>1
        <4> WITNESS other
        <4> QED
          BY <4>1, <4>3, <4>4
      <3>3. \/ \E edit \in Edits(history, Honest(SwiftActive(history))) :
                   /\ Counted(edit[1] # None)
                   /\ transcript' = [transcript EXCEPT !.evidence = Edited(Honest(SwiftActive(history)), edit)]
            \/ \E other \in ({Honest(key) : key \in {Key(1), Key(2), None}} \ {Honest(SwiftActive(history))}) \cup {None} :
                   Counted(TRUE) /\ transcript' = [transcript EXCEPT !.evidence = other]
        BY <1>5, Zenon DEF WriteEvidence
      <3> QED
        BY <3>1, <3>2, <3>3
    <2>4. /\ DOMAIN transcript' = Fields /\ transcript'.evidence = e
          /\ transcript'.request = transcript.request
      BY <1>1, <2>3
    <2>5. TimesWritten'
      BY <2>1, <2>3, <2>4 DEF TimesWritten, CeremonyIInv
    <2> QED
      BY <1>2, <2>1, <2>3, <2>4, <2>5 DEF CeremonyIInv, CeremonyTypeOK
  <1>6. ASSUME WriteProposal PROVE CeremonyIInv'
    <2> DEFINE honest == Proposal(history, transcript)
    <2>1. PICK edit \in Edits(history, honest), copied \in BOOLEAN :
            /\ \E changed \in BOOLEAN : Counted(changed)
            /\ \E key : transcript' = [transcript EXCEPT
                  !.proposal = Edited(honest, edit),
                  !.unsigned = IF copied THEN Edited(honest, edit)
                               ELSE [Edited(honest, edit) EXCEPT !.proposed = Edited(honest, edit).expires],
                  !.signature = Signature(key, "proposal", Edited(honest, edit))]
      BY <1>6 DEF WriteProposal
    <2>2. step = "proposal" /\ step' = "acceptance" /\ UNCHANGED <<vars, spent>>
      BY <1>6 DEF WriteProposal, Writing
    <2>3. "proposed" \in DOMAIN honest /\ honest.proposed = 1
      BY DocumentsWritten
    <2> HIDE DEF honest
    <2>4. Edited(honest, edit).proposed \in Int
      BY <2>3, EditKeeps, MomentsAreNumbers
    <2>5. /\ DOMAIN transcript' = Fields /\ transcript'.proposal = Edited(honest, edit)
          /\ transcript'.request = transcript.request /\ transcript'.evidence = transcript.evidence
      BY <1>1, <2>1
    <2>6. TimesWritten'
      BY <2>2, <2>4, <2>5 DEF TimesWritten, CeremonyIInv
    <2> QED
      BY <1>2, <1>3, <2>1, <2>2, <2>5, <2>6 DEF CeremonyIInv, CeremonyTypeOK
  <1>7. ASSUME WriteAcceptance PROVE CeremonyIInv'
    <2> DEFINE honest == Acceptance(history, transcript)
    <2>1. PICK edit \in Edits(history, honest) :
            /\ Counted(edit[1] # None)
            /\ transcript' = [transcript EXCEPT !.acceptance = Edited(honest, edit)]
      BY <1>7 DEF WriteAcceptance
    <2>2. step = "acceptance" /\ step' = "record" /\ UNCHANGED <<vars, spent>>
      BY <1>7 DEF WriteAcceptance, Writing
    <2>3. "accepted" \in DOMAIN honest /\ honest.accepted = 1
      BY DocumentsWritten
    <2> HIDE DEF honest
    <2>4. Edited(honest, edit).accepted \in Int
      BY <2>3, EditKeeps, MomentsAreNumbers
    <2>5. /\ DOMAIN transcript' = Fields /\ transcript'.acceptance = Edited(honest, edit)
          /\ transcript'.request = transcript.request /\ transcript'.evidence = transcript.evidence
          /\ transcript'.proposal = transcript.proposal
      BY <1>1, <2>1
    <2>6. TimesWritten'
      BY <2>2, <2>4, <2>5 DEF TimesWritten, CeremonyIInv
    <2> QED
      BY <1>2, <1>3, <2>1, <2>2, <2>5, <2>6 DEF CeremonyIInv, CeremonyTypeOK
  <1>8. ASSUME WriteRecord PROVE CeremonyIInv'
    <2> DEFINE honest == Body(history, transcript)
    <2>1. PICK edit \in Edits(history, honest), copied \in BOOLEAN :
            /\ Counted(edit[1] # None \/ ~copied)
            /\ transcript' = [transcript EXCEPT
                                !.finalBody = IF copied THEN Edited(honest, edit)
                                              ELSE [Edited(honest, edit) EXCEPT !.committed = Edited(honest, edit).committed + 1],
                                !.record = Sealed(Edited(honest, edit))]
      BY <1>8 DEF WriteRecord
    <2>2. step = "record" /\ step' = "complete" /\ UNCHANGED <<vars, spent>>
      BY <1>8 DEF WriteRecord, Writing
    <2>3. /\ {"fresh", "committed"} \subseteq DOMAIN honest /\ honest.committed = 1
          /\ honest.fresh = None \/ honest.fresh \in [generation : Nat, id : Nat, spki : Nat]
      <3>1. Draft(history, transcript.request.kind).fresh \in {None, Key(history.revision + 1)}
        BY DEF Draft
      <3>2. history.revision + 1 \in Nat
        BY ActiveKeys DEF CeremonyIInv, RegistryInv
      <3>3. Key(history.revision + 1) \in [generation : Nat, id : Nat, spki : Nat]
        BY <3>2 DEF Key
      <3> QED
        BY <3>1, <3>3, DocumentsWritten
    <2> HIDE DEF honest
    <2>4. /\ Edited(honest, edit).committed \in Int
          /\ \/ Edited(honest, edit).fresh = None
             \/ Edited(honest, edit).fresh \in [generation : Nat, id : Nat, spki : Nat]
      <3>1. Edited(honest, edit).committed \in Int
        BY <2>3, EditKeeps, MomentsAreNumbers
      <3>2. Edited(honest, edit).fresh = honest.fresh \/ Edited(honest, edit).fresh \in Instead(history).fresh
        BY <2>3, EditKeeps
      <3> QED
        BY <2>3, <3>1, <3>2, MomentsAreNumbers
    <2>5. /\ DOMAIN transcript' = Fields /\ transcript'.record.body = Edited(honest, edit)
          /\ transcript'.request = transcript.request /\ transcript'.evidence = transcript.evidence
          /\ transcript'.proposal = transcript.proposal /\ transcript'.acceptance = transcript.acceptance
      BY <1>1, <2>1 DEF Sealed
    <2>6. TimesWritten'
      BY <2>2, <2>4, <2>5 DEF TimesWritten, CeremonyIInv
    <2> QED
      BY <1>2, <1>3, <2>1, <2>2, <2>5, <2>6 DEF CeremonyIInv, CeremonyTypeOK
  <1>9. ASSUME Accept PROVE CeremonyIInv'
    <2>1. Supply(transcript.record) /\ RegistryInv'
      BY <1>9, AcceptSupplies, SupplyKeeps DEF CeremonyIInv
    <2>2. TypeOK /\ TypeOK' /\ history.revision = Len(records) /\ Len(records) \in Nat
      BY <2>1, ActiveKeys DEF CeremonyIInv, RegistryInv
    <2>3. history'.revision = history.revision + 1
      <3>1. history' = GoAdvance(history, transcript.record) /\ GoAccepts(history, transcript.record)
        BY <2>1 DEF Supply
      <3> QED
        BY <2>2, <3>1, AcceptedFits DEF GoAdvance
    <2>4. transcript.request.expected = history.revision
      BY <1>9 DEF Accept, GoTranscript, GoHead
    <2>5. SpentBefore'
      BY <1>9, <2>2, <2>3, <2>4 DEF Accept, SpentBefore
    <2>6. step' = "request" /\ transcript' = Blank /\ changes' = changes
      BY <1>9 DEF Accept
    <2> QED
      BY <1>1, <2>1, <2>2, <2>5, <2>6 DEF CeremonyIInv, CeremonyTypeOK, TimesWritten
  <1>10. ASSUME Refuse PROVE CeremonyIInv'
    <2>1. step' = "request" /\ transcript' = Blank /\ changes' = changes /\ UNCHANGED <<vars, spent>>
      BY <1>10 DEF Refuse
    <2> QED
      BY <1>1, <1>2, <2>1 DEF CeremonyIInv, CeremonyTypeOK, TimesWritten
  <1>11. ASSUME UNCHANGED ceremonyVars PROVE CeremonyIInv'
    <2>1. UNCHANGED <<vars, spent>> /\ UNCHANGED <<step, transcript, changes>>
      BY <1>11 DEF ceremonyVars
    <2> QED
      BY <1>2, <2>1 DEF CeremonyIInv, CeremonyTypeOK, TimesWritten
  <1> QED
    BY <1>4, <1>5, <1>6, <1>7, <1>8, <1>9, <1>10, <1>11 DEF CeremonyNext

-----------------------------------------------------------------------------
(* The ceremony: both verifiers.                                           *)

(* What both verifiers ask of the documents of a transcript, and what only *)
(* one of them puts this way.                                              *)
Agreeing(h, t) ==
    LET q == t.request  p == t.proposal  a == t.acceptance  b == t.record.body IN
    /\ t.proposal = t.unsigned /\ t.record.body = t.finalBody
    /\ q.expected = h.revision /\ q.previous = h.tip
    /\ \A document \in {p, a, b} :
         /\ document.kind = q.kind /\ document.revision = h.revision + 1 /\ document.previous = h.tip
         /\ document.descriptor = q.descriptor /\ document.request = domainHash("request", q)
         /\ document.challenge = domainHash("", q.challengeBytes)
         /\ document.recovery = EvidenceDigest(t)
    /\ a.targetGeneration = q.targetGeneration /\ a.newGeneration = q.newGeneration
    /\ Generation(b.target) = q.targetGeneration /\ Generation(b.fresh) = q.newGeneration
    /\ p.target = b.target /\ p.fresh = b.fresh
    /\ a.isAccepted
    /\ a.proposal = domainHash("proposal", [proposal |-> p, signature |-> t.signature])
    /\ b.proposal = domainHash("proposal", [proposal |-> p, signature |-> t.signature])
    /\ b.acceptance = domainHash("acceptance", a)
    /\ b.requested = q.requested /\ b.accepted = a.accepted

LEMMA GoAgreeing ==
    ASSUME NEW h, NEW t
    PROVE  Agreeing(h, t) <=>
             /\ GoHead(h, t) /\ GoShared(h, t) /\ GoConsent(t)
             /\ t.record.body.requested = t.request.requested
             /\ t.record.body.accepted = t.acceptance.accepted
  <1> DEFINE q == t.request  p == t.proposal  a == t.acceptance  b == t.record.body
             Same(view) ==
               /\ view.kind = q.kind /\ view.revision = h.revision + 1 /\ view.previous = h.tip
               /\ view.descriptor = q.descriptor
               /\ view.request = domainHash("request", q) /\ view.challenge = domainHash("", q.challengeBytes)
               /\ view.target = q.targetGeneration /\ view.fresh = q.newGeneration
               /\ view.recovery = EvidenceDigest(t)
             Alike(document) ==
               /\ document.kind = q.kind /\ document.revision = h.revision + 1 /\ document.previous = h.tip
               /\ document.descriptor = q.descriptor /\ document.request = domainHash("request", q)
               /\ document.challenge = domainHash("", q.challengeBytes)
               /\ document.recovery = EvidenceDigest(t)
  <1>1. \A document, target, fresh :
          Same(Shared(document, target, fresh)) <=>
            Alike(document) /\ target = q.targetGeneration /\ fresh = q.newGeneration
    <2> SUFFICES ASSUME NEW document, NEW target, NEW fresh
                 PROVE  Same(Shared(document, target, fresh)) <=>
                          Alike(document) /\ target = q.targetGeneration /\ fresh = q.newGeneration
      OBVIOUS
    <2>1. PICK view : view = Shared(document, target, fresh)
      OBVIOUS
    <2>2. /\ view.kind = document.kind /\ view.revision = document.revision /\ view.previous = document.previous
          /\ view.descriptor = document.descriptor /\ view.request = document.request
          /\ view.challenge = document.challenge /\ view.recovery = document.recovery
          /\ view.target = target /\ view.fresh = fresh
      BY <2>1 DEF Shared
    <2>3. Same(view) <=> Alike(document) /\ target = q.targetGeneration /\ fresh = q.newGeneration
      <3> HIDE DEF q
      <3> QED
        BY <2>2
    <2> HIDE DEF Same
    <2> QED
      BY <2>1, <2>3
  <1>2. GoShared(h, t) <=> \A view \in Views(t) : Same(view)
    BY DEF GoShared
  <1>3. GoShared(h, t) <=>
          /\ Same(Shared(p, Generation(p.target), Generation(p.fresh)))
          /\ Same(Shared(a, a.targetGeneration, a.newGeneration))
          /\ Same(Shared(b, Generation(b.target), Generation(b.fresh)))
    <2> HIDE DEF Same
    <2> QED
      BY <1>2 DEF Views
  <1>4. GoShared(h, t) <=>
          /\ Alike(p) /\ Alike(a) /\ Alike(b)
          /\ Generation(p.target) = q.targetGeneration /\ Generation(p.fresh) = q.newGeneration
          /\ a.targetGeneration = q.targetGeneration /\ a.newGeneration = q.newGeneration
          /\ Generation(b.target) = q.targetGeneration /\ Generation(b.fresh) = q.newGeneration
    <2> HIDE DEF Same, Alike, q, p, a, b
    <2> QED
      BY <1>1, <1>3
  <1>5. Agreeing(h, t) <=>
          /\ t.proposal = t.unsigned /\ t.record.body = t.finalBody
          /\ q.expected = h.revision /\ q.previous = h.tip
          /\ Alike(p) /\ Alike(a) /\ Alike(b)
          /\ a.targetGeneration = q.targetGeneration /\ a.newGeneration = q.newGeneration
          /\ Generation(b.target) = q.targetGeneration /\ Generation(b.fresh) = q.newGeneration
          /\ p.target = b.target /\ p.fresh = b.fresh
          /\ a.isAccepted
          /\ a.proposal = domainHash("proposal", [proposal |-> p, signature |-> t.signature])
          /\ b.proposal = domainHash("proposal", [proposal |-> p, signature |-> t.signature])
          /\ b.acceptance = domainHash("acceptance", a)
          /\ b.requested = q.requested /\ b.accepted = a.accepted
    BY DEF Agreeing
  <1> HIDE DEF Alike
  <1> QED
    BY <1>4, <1>5 DEF GoHead, GoConsent

LEMMA SwiftAgreeing ==
    ASSUME NEW h, NEW t
    PROVE  Agreeing(h, t) /\ ((t.evidence # None) <=> (t.request.kind = "recover")) <=>
             SwiftHead(h, t) /\ SwiftKeys(h, t) /\ SwiftShared(t) /\ SwiftDigests(t)
  BY DEF Agreeing, SwiftHead, SwiftKeys, SwiftShared, SwiftDigests

(* Both verifiers accept the same transcripts, any at all, over a history  *)
(* that both have accepted (VerifySuppliedRegistryCeremony and             *)
(* verifySuppliedRegistryCeremony).                                        *)
LEMMA TranscriptsAgree ==
    ASSUME RegistryInv, NEW t
    PROVE  GoTranscript(history, t) <=> SwiftTranscript(history, t)
  <1> DEFINE h == history
             q == t.request  p == t.proposal  a == t.acceptance  b == t.record.body  e == t.evidence
  <1>1. h.revision < MaxRecords /\ GoGrammar(b) => (GoReplay(h, t.record) <=> SwiftReplay(h, t.record))
    BY VerdictsAgree, GrammarsAgree DEF RegistryInv, RecordsAgree, GoAccepts, SwiftAccepts
  <1>2. ASSUME Agreeing(h, t) PROVE GoTranscriptGrammar(t) <=> SwiftTranscriptGrammar(t)
    <2>1. t.proposal = t.unsigned /\ t.record.body = t.finalBody
      BY <1>2 DEF Agreeing
    <2> QED
      BY <2>1, GrammarsAgree DEF GoTranscriptGrammar, SwiftTranscriptGrammar
  <1>3. ASSUME Agreeing(h, t) PROVE GoTimes(t) <=> SwiftTimes(t)
    BY <1>3 DEF Agreeing, GoTimes, SwiftTimes
  <1>4. ASSUME Agreeing(h, t) PROVE GoSigner(t) <=> SwiftSigner(t)
    BY <1>4 DEF Agreeing, GoSigner, SwiftSigner
  <1>5. GoFinding(h, e) <=>
          IF SwiftActive(h) = None
          THEN e.targetGeneration = None /\ e.tag = None /\ Finding(e) = Disabled
          ELSE e.targetGeneration = SwiftActive(h).generation /\ e.tag = SwiftActive(h).id /\ Finding(e) = KeyNotFound
    <2>1. TypeOK /\ (Active(h) = {} \/ \E i : Active(h) = {i})
      BY ActiveKeys, OneOrNone DEF RegistryInv, OneActive
    <2>2. CASE Active(h) = {}
      BY <2>1, <2>2, ActiveKey DEF GoFinding
    <2>3. ASSUME NEW i, Active(h) = {i}
          PROVE  GoFinding(h, e) <=>
                   /\ e.targetGeneration = SwiftActive(h).generation /\ e.tag = SwiftActive(h).id
                   /\ Finding(e) = KeyNotFound /\ SwiftActive(h) # None
      BY <2>1, <2>3, ActiveKey DEF GoFinding
    <2>4. Active(h) # {} => SwiftActive(h) # None
      BY <2>1, ActiveKey
    <2> QED
      BY <2>1, <2>2, <2>3, <2>4
  <1>6. ASSUME Agreeing(h, t)
        PROVE  GoRecovery(h, t) <=> ((e # None) <=> (q.kind = "recover")) /\ SwiftEvidence(h, t)
    <2>1. q.expected = h.revision /\ q.previous = h.tip
      BY <1>6 DEF Agreeing
    <2> HIDE DEF h
    <2>2. CASE e = None
      BY <2>2 DEF GoRecovery, SwiftEvidence
    <2>3. CASE e # None
      <3>1. SwiftEvidence(h, t) <=>
              /\ q.mode = Lost
              /\ e.request = domainHash("request", q) /\ e.challenge = domainHash("", q.challengeBytes)
              /\ e.previous = q.previous /\ e.descriptor = q.descriptor /\ e.revision = q.expected
              /\ e.probed >= q.requested /\ e.probed <= t.proposal.proposed /\ e.probed < q.expires
              /\ GoFinding(h, e)
        BY <1>5, <2>3 DEF SwiftEvidence
      <3> QED
        BY <2>1, <2>3, <3>1 DEF GoRecovery
    <2> QED
      BY <2>2, <2>3
  <1>7. GoTimes(t) => b.requested = q.requested /\ b.accepted = a.accepted
    BY DEF GoTimes
  <1>8. GoTranscript(h, t) <=>
          /\ h.revision < MaxRecords /\ Agreeing(h, t) /\ GoTranscriptGrammar(t)
          /\ GoTimes(t) /\ GoRecovery(h, t) /\ GoSigner(t) /\ GoReplay(h, t.record)
    BY <1>7, GoAgreeing DEF GoTranscript
  <1>9. SwiftTranscript(h, t) <=>
          /\ h.revision < MaxRecords /\ Agreeing(h, t) /\ ((e # None) <=> (q.kind = "recover"))
          /\ SwiftTranscriptGrammar(t)
          /\ SwiftTimes(t) /\ SwiftEvidence(h, t) /\ SwiftSigner(t) /\ SwiftReplay(h, t.record)
    BY SwiftAgreeing DEF SwiftTranscript
  <1>10. GoTranscriptGrammar(t) => GoGrammar(b)
    BY DEF GoTranscriptGrammar
  <1> HIDE DEF h, q, p, a, b, e
  <1> QED
    BY <1>1, <1>2, <1>3, <1>4, <1>6, <1>8, <1>9, <1>10 DEF h

LEMMA AcceptedIsSound ==
    ASSUME CeremonyIInv, Accepted
    PROVE  ConsentCoversRecord /\ ProposerHoldsKey /\ OneWindow /\ RecoveryJustified
  <1> DEFINE t == transcript
             q == t.request  p == t.proposal  a == t.acceptance  b == t.record.body  e == t.evidence
  <1>1. /\ GoTranscriptGrammar(t) /\ GoHead(history, t) /\ GoTimes(t) /\ GoShared(history, t) /\ GoConsent(t)
        /\ GoRecovery(history, t) /\ GoSigner(t) /\ GoReplay(history, t.record) /\ history.revision < MaxRecords
    BY DEF Accepted, GoTranscript
  <1>2. Agreeing(history, t)
    BY <1>1, GoAgreeing DEF GoTimes
  <1>3. ConsentCoversRecord
    <2>1. \A domain, document : domainHash(domain, document).document = document
      BY DEF domainHash
    <2>2. /\ <<b.kind, b.descriptor, b.previous>> = <<q.kind, q.descriptor, q.previous>>
          /\ <<p.kind, p.descriptor, p.previous>> = <<q.kind, q.descriptor, q.previous>>
          /\ <<p.target, p.fresh>> = <<b.target, b.fresh>>
      BY <1>2 DEF Agreeing
    <2>3. /\ a.isAccepted
          /\ a.proposal = domainHash("proposal", [proposal |-> p, signature |-> t.signature])
          /\ b.acceptance = domainHash("acceptance", a)
      BY <1>2 DEF Agreeing
    <2> HIDE DEF q, p, a, b
    <2>4. a.isAccepted /\ b.acceptance.document = a
          /\ a.proposal.document = [proposal |-> p, signature |-> t.signature]
      BY <2>1, <2>3
    <2> QED
      BY <2>2, <2>4 DEF ConsentCoversRecord, q, p, a, b
  <1>4. ProposerHoldsKey
    <2>1. GoAccepts(history, t.record) /\ TypeOK
      BY <1>1 DEF GoAccepts, GoTranscriptGrammar, CeremonyIInv, RegistryInv
    <2>2. t.proposal = t.unsigned /\ b.kind = q.kind
      BY <1>2 DEF Agreeing
    <2>3. CASE q.kind = "revoke"
      <3>1. PICK i : i \in Active(history) /\ Active(history) = {i} /\ b.target = history.keys[i].key
        BY <2>1, <2>2, <2>3, AcceptedFits
      <3>2. SwiftActive(history) = b.target /\ b.target # None
        BY <2>1, <3>1, ActiveKey
      <3> QED
        BY <1>1, <2>2, <2>3, <3>2 DEF ProposerHoldsKey, GoSigner, Signed
    <2>4. CASE q.kind # "revoke"
      BY <1>1, <2>2, <2>4 DEF ProposerHoldsKey, GoSigner, Signed
    <2> QED
      BY <2>3, <2>4
  <1>5. OneWindow
    <2>1. /\ q.requested \in Int /\ q.expires \in Int /\ p.proposed \in Int /\ a.accepted \in Int
          /\ b.committed \in Int /\ (e = None \/ e.probed \in Int)
      BY DEF CeremonyIInv, TimesWritten, Accepted
    <2>2. /\ q.expires - q.requested <= Window
          /\ p.proposed >= q.requested /\ a.accepted >= p.proposed /\ b.committed >= a.accepted
          /\ b.committed < q.expires
      BY <1>1 DEF GoTimes
    <2>3. e # None => q.requested <= e.probed /\ e.probed <= p.proposed
      BY <1>1 DEF GoRecovery
    <2>4. Window \in Int
      BY BoundsAssumption
    <2> HIDE DEF q, p, a, b, e
    <2>5. q.expires <= q.requested + Window
      BY <2>1, <2>2, <2>4
    <2>6. LET probed == IF e = None THEN q.requested ELSE e.probed
          IN  q.requested <= probed /\ probed <= p.proposed
      BY <2>1, <2>2, <2>3
    <2>7. p.proposed <= a.accepted /\ a.accepted <= b.committed /\ b.committed < q.expires
      BY <2>1, <2>2
    <2> QED
      BY <2>5, <2>6, <2>7 DEF OneWindow, q, p, a, b, e
  <1>6. RecoveryJustified
    <2> SUFFICES ASSUME q.kind = "recover"
                 PROVE  /\ e # None
                        /\ e.lookup = KeyNotFound.lookup => \E i \in Active(history) : e.tag = history.keys[i].key.id
                        /\ e.lookup # KeyNotFound.lookup => Active(history) = {}
      BY DEF RecoveryJustified
    <2>1. e # None /\ GoFinding(history, e)
      BY <1>1 DEF GoRecovery
    <2>2. Finding(e) = Disabled => e.lookup # KeyNotFound.lookup
      BY DEF Finding, Disabled, KeyNotFound
    <2>3. Finding(e) = KeyNotFound => e.lookup = KeyNotFound.lookup
      BY DEF Finding, KeyNotFound
    <2> HIDE DEF e
    <2> QED
      BY <2>1, <2>2, <2>3 DEF GoFinding
  <1> QED
    BY <1>3, <1>4, <1>5, <1>6

LEMMA CeremonyIsSound == CeremonyIInv => RegistryInv /\ SameCeremonyVerdict /\ CeremonyInv
  <1> SUFFICES ASSUME CeremonyIInv PROVE RegistryInv /\ SameCeremonyVerdict /\ CeremonyInv
    OBVIOUS
  <1>1. RegistryInv /\ mirror = history /\ history.revision \in Nat
    BY ActiveKeys DEF CeremonyIInv, RegistryInv, SameVerdict
  <1>2. SameCeremonyVerdict
    BY <1>1, TranscriptsAgree DEF SameCeremonyVerdict
  <1>3. SpentOnce
    <2> SUFFICES ASSUME spent # None PROVE ~GoTranscript(history, spent) /\ ~SwiftTranscript(history, spent)
      BY <1>1 DEF SpentOnce
    <2>1. spent.request.expected # history.revision
      BY <1>1 DEF CeremonyIInv, SpentBefore
    <2> QED
      BY <2>1 DEF GoTranscript, GoHead, SwiftTranscript, SwiftHead
  <1> QED
    BY <1>1, <1>2, <1>3, AcceptedIsSound DEF CeremonyInv, CeremonyIInv

LEMMA SupplyForgetsNothing ==
    ASSUME RegistryInv, NEW r, Supply(r),
           r.body.fresh = None \/ r.body.fresh \in [generation : Nat, id : Nat, spki : Nat]
    PROVE  \A i \in DOMAIN history.keys :
             LET before == history.keys[i]  after == history'.keys[i] IN
             /\ i \in DOMAIN history'.keys
             /\ after.key = before.key
             /\ after.status = "active" => before.status = "active"
             /\ before.status = "revoked" => after.status = "revoked"
  <1> SUFFICES ASSUME NEW i \in DOMAIN history.keys
               PROVE  LET before == history.keys[i]  after == history'.keys[i] IN
                      /\ i \in DOMAIN history'.keys
                      /\ after.key = before.key
                      /\ after.status = "active" => before.status = "active"
                      /\ before.status = "revoked" => after.status = "revoked"
    OBVIOUS
  <1>1. TypeOK /\ GoAccepts(history, r) /\ history' = GoAdvance(history, r)
    BY DEF RegistryInv, Supply
  <1>2. DOMAIN history.keys = 1 .. Len(history.keys) /\ Len(history.keys) \in Nat
    BY <1>1, ActiveKeys
  <1>3. /\ history'.keys \in Seq(Entry)
        /\ history'.keys[i].key = history.keys[i].key
        /\ history'.keys[i].status = GoStatus(history, r.body, i)
        /\ Len(history'.keys) \in {Len(history.keys), Len(history.keys) + 1}
    BY <1>1, <1>2, Advanced
  <1>4. i \in DOMAIN history'.keys
    BY <1>2, <1>3, LenProperties
  <1>5. /\ GoStatus(history, r.body, i) = "active" => history.keys[i].status = "active"
        /\ history.keys[i].status = "revoked" => GoStatus(history, r.body, i) = "revoked"
    <2>1. i \in Active(history) <=> history.keys[i].status = "active"
      BY DEF Active
    <2>2. i \in Active(history) => r.body.targetNew \in {"retained", "revoked"}
      BY <1>1, AcceptedFits
    <2> QED
      BY <2>1, <2>2 DEF GoStatus
  <1> QED
    BY <1>3, <1>4, <1>5

-----------------------------------------------------------------------------
(* The exchange: what was signed, sent and taken.                          *)

Asked(r) ==
    asked[r] # None =>
        /\ asked[r] = [plan |-> asked[r].plan, key |-> asked[r].binding.revision, binding |-> asked[r].binding]
        /\ asked[r].plan \in Plans /\ asked[r].binding \in Exchange!Authorities

Shown(r) ==
    helper[r] # None =>
        /\ asked[r] # None
        /\ helper[r] = [pc |-> helper[r].pc, plan |-> asked[r].plan, binding |-> helper[r].binding]
        /\ helper[r].pc \in {"shown", "failed", "approved"} /\ helper[r].binding \in Exchange!Authorities

(* A receipt says what its approval was about.                             *)
Signs(c, r) ==
    /\ helper[r] # None /\ helper[r].pc = "approved"
    /\ c = [challenge |-> r, plan |-> helper[r].plan,
            revision |-> helper[r].binding.revision, context |-> helper[r].binding.context,
            key |-> helper[r].binding.revision, issued |-> c.issued, expires |-> c.issued + Lifetime * 2]
    /\ \E k \in Int : c.issued = 2 * k
    /\ c.issued <= now

ReceiptsSigned == \A c \in receipts : c.challenge \in Requests /\ Signs(c, c.challenge)

FailedWith(r, code) ==
    code \in {1, 5} /\ helper[r] # None /\ helper[r].pc = "failed" /\ Exchange!failureFrame(r, code) \in wire

WireSent ==
    \A f \in wire :
        \/ \E c \in receipts : f = Exchange!successFrame(c.challenge, c)
        \/ \E r \in Requests, code \in {1, 5} : f = Exchange!failureFrame(r, code) /\ FailedWith(r, code)

TakenTruly(r) ==
    taken[r] # None =>
        /\ asked[r] # None /\ taken[r].at \in Int
        /\ \/ taken[r].result = Exchange!Refused
           \/ \E code \in {1, 5} :
                taken[r].result = [verdict |-> "failure", code |-> code] /\ FailedWith(r, code)
           \/ \E c \in receipts :
                /\ taken[r].result = [verdict |-> "receipt", receipt |-> c]
                /\ c.challenge = r /\ c.revision = asked[r].binding.revision
                /\ c.context = asked[r].binding.context
                /\ taken[r].at + offset < c.expires

ExchangeTypes ==
    /\ now \in 0 .. MaxTime /\ offset \in Offsets /\ authority \in Exchange!Authorities
    /\ asked \in [Requests -> {asked[r] : r \in Requests}]
    /\ helper \in [Requests -> {helper[r] : r \in Requests}]
    /\ taken \in [Requests -> {taken[r] : r \in Requests}]

ExchangeIInv ==
    /\ ExchangeTypes
    /\ \A r \in Requests : Asked(r) /\ Shown(r) /\ TakenTruly(r)
    /\ ReceiptsSigned /\ WireSent

(* Half seconds and whole ones.                                            *)
LEMMA WholeSeconds ==
    ASSUME NEW time \in Int
    PROVE  /\ Exchange!floor(time) \in Int
           /\ Exchange!floor(time) <= time /\ time < Exchange!floor(time) + 2
           /\ \E k \in Int : Exchange!floor(time) = 2 * k
  BY DEF Exchange!floor, Exchange!second

(* A receipt that lives by whole seconds lives by half ones, the other way *)
(* round too, because it is issued and expires on whole ones.              *)
LEMMA SameLife ==
    ASSUME NEW issued \in Int, NEW expires \in Int, NEW time \in Int,
           \E k \in Int : issued = 2 * k, \E k \in Int : expires = 2 * k
    PROVE  /\ time >= issued - Skew * 2 <=> issued <= Exchange!floor(time) + Skew * 2
           /\ time < expires <=> Exchange!floor(time) < expires
  <1>1. Skew \in Int
    BY ExchangeAssumption DEF Exchange!ApprovalAssumption
  <1>2. PICK i \in Int, j \in Int, k \in Int : issued = 2 * i /\ expires = 2 * j /\ Exchange!floor(time) = 2 * k
    BY WholeSeconds
  <1>3. 2 * k <= time /\ time < 2 * k + 2
    BY <1>2, WholeSeconds
  <1> QED
    BY <1>1, <1>2, <1>3

-----------------------------------------------------------------------------
(* The exchange: every step.                                               *)

Sent(f) ==
    \/ \E c \in receipts : f = Exchange!successFrame(c.challenge, c)
    \/ \E r \in Requests, code \in {1, 5} : f = Exchange!failureFrame(r, code) /\ FailedWith(r, code)

(* What has been answered stays so.                                        *)
Onward ==
    /\ now' \in 0 .. MaxTime /\ now <= now' /\ offset' = offset
    /\ receipts \subseteq receipts' /\ wire \subseteq wire'
    /\ \A r \in Requests : asked[r] # None => asked'[r] = asked[r]
    /\ \A r \in Requests : helper[r] # None /\ helper[r].pc \in {"failed", "approved"} => helper'[r] = helper[r]

LEMMA StaysSent ==
    ASSUME ExchangeIInv, Onward
    PROVE  /\ \A c \in receipts : c.challenge \in Requests /\ Signs(c, c.challenge)'
           /\ \A f \in wire : Sent(f)'
           /\ \A r \in Requests : taken'[r] = taken[r] => TakenTruly(r)'
  <1>1. ASSUME NEW c \in receipts PROVE c.challenge \in Requests /\ Signs(c, c.challenge)'
    <2>1. c.challenge \in Requests /\ Signs(c, c.challenge)
      BY DEF ExchangeIInv, ReceiptsSigned
    <2>2. PICK r \in Requests : r = c.challenge
      BY <2>1
    <2>3. helper'[r] = helper[r] /\ c.issued \in Int
      BY <2>1, <2>2 DEF Onward, Signs
    <2>4. now \in Int /\ now' \in Int /\ now <= now'
      BY DEF Onward, ExchangeIInv, ExchangeTypes
    <2>5. c.issued <= now'
      BY <2>1, <2>3, <2>4 DEF Signs
    <2>6. Signs(c, r)'
      BY <2>1, <2>2, <2>3, <2>5 DEF Signs
    <2> QED
      BY <2>1, <2>2, <2>6
  <1>2. ASSUME NEW r \in Requests, NEW code, FailedWith(r, code) PROVE FailedWith(r, code)'
    BY <1>2 DEF FailedWith, Onward, Exchange!failureFrame
  <1>3. ASSUME NEW f \in wire PROVE Sent(f)'
    <2>1. Sent(f)
      BY DEF ExchangeIInv, WireSent, Sent
    <2>2. CASE \E c \in receipts : f = Exchange!successFrame(c.challenge, c)
      BY <2>2 DEF Sent, Onward, Exchange!successFrame
    <2>3. CASE \E r \in Requests, code \in {1, 5} : f = Exchange!failureFrame(r, code) /\ FailedWith(r, code)
      BY <1>2, <2>3 DEF Sent, Exchange!failureFrame
    <2> QED
      BY <2>1, <2>2, <2>3 DEF Sent
  <1>4. ASSUME NEW r \in Requests, taken'[r] = taken[r] PROVE TakenTruly(r)'
    <2>1. SUFFICES ASSUME taken[r] # None
                   PROVE  TakenTruly(r)'
      BY <1>4 DEF TakenTruly
    <2>2. /\ asked[r] # None /\ taken[r].at \in Int
          /\ \/ taken[r].result = Exchange!Refused
             \/ \E code \in {1, 5} :
                  taken[r].result = [verdict |-> "failure", code |-> code] /\ FailedWith(r, code)
             \/ \E c \in receipts :
                  /\ taken[r].result = [verdict |-> "receipt", receipt |-> c]
                  /\ c.challenge = r /\ c.revision = asked[r].binding.revision
                  /\ c.context = asked[r].binding.context
                  /\ taken[r].at + offset < c.expires
      BY <2>1 DEF ExchangeIInv, TakenTruly
    <2>3. asked'[r] = asked[r] /\ offset' = offset /\ receipts \subseteq receipts'
      BY <2>2 DEF Onward
    <2>4. CASE taken[r].result = Exchange!Refused
      BY <1>4, <2>2, <2>3, <2>4 DEF TakenTruly, Exchange!Refused
    <2>5. CASE \E code \in {1, 5} : taken[r].result = [verdict |-> "failure", code |-> code] /\ FailedWith(r, code)
      <3>1. PICK code \in {1, 5} : taken[r].result = [verdict |-> "failure", code |-> code] /\ FailedWith(r, code)'
        BY <1>2, <2>5
      <3> QED
        BY <1>4, <2>2, <2>3, <3>1 DEF TakenTruly
    <2>6. CASE \E c \in receipts :
                  /\ taken[r].result = [verdict |-> "receipt", receipt |-> c]
                  /\ c.challenge = r /\ c.revision = asked[r].binding.revision
                  /\ c.context = asked[r].binding.context
                  /\ taken[r].at + offset < c.expires
      <3>1. \E c \in receipts' :
                  /\ taken'[r].result = [verdict |-> "receipt", receipt |-> c]
                  /\ c.challenge = r /\ c.revision = asked'[r].binding.revision
                  /\ c.context = asked'[r].binding.context
                  /\ taken'[r].at + offset' < c.expires
        BY <1>4, <2>3, <2>6
      <3> QED
        BY <1>4, <2>2, <2>3, <3>1 DEF TakenTruly
    <2> QED
      BY <2>2, <2>4, <2>5, <2>6
  <1> QED
    BY <1>1, <1>3, <1>4

LEMMA ExchangeInitially == Exchange!Init => ExchangeIInv
  <1> SUFFICES ASSUME Exchange!Init PROVE ExchangeIInv
    OBVIOUS
  <1>1. MaxTime \in Nat /\ MaxRevision \in Nat \ {0}
    BY ExchangeAssumption DEF Exchange!ApprovalAssumption
  <1>2. \A r \in Requests : asked[r] = None /\ helper[r] = None /\ taken[r] = None
    BY DEF Exchange!Init
  <1>3. /\ asked \in [Requests -> {asked[r] : r \in Requests}]
        /\ helper \in [Requests -> {helper[r] : r \in Requests}]
        /\ taken \in [Requests -> {taken[r] : r \in Requests}]
    BY DEF Exchange!Init
  <1>4. now \in 0 .. MaxTime /\ offset \in Offsets /\ authority \in Exchange!Authorities
    BY <1>1 DEF Exchange!Init, Exchange!Authorities
  <1> QED
    BY <1>2, <1>3, <1>4 DEF ExchangeIInv, ExchangeTypes, Asked, Shown, TakenTruly, ReceiptsSigned, WireSent, Exchange!Init

(* The answers that can reach a client.                                    *)
LEMMA FrameKinds ==
    ASSUME NEW answer \in Exchange!Frames
    PROVE  \/ \E g \in wire, c \in Requests, s \in Exchange!Spellings :
               g.kind = "success" /\ answer = Exchange!Success(g, c, s)
           \/ \E g \in wire : g.kind = "error" /\ answer \in {Exchange!Failure(g, g.code), Exchange!Failure(g, 7)}
           \/ answer \in [whole : {TRUE}, kind : {"request"}, challenge : {q \in Requests : asked[q] # None}]
           \/ answer \in [whole : {FALSE}, kind : {"success"}, challenge : {q \in Requests : asked[q] # None}]
  <1> DEFINE successes == {Exchange!Success(f, c, s) : f \in {g \in wire : g.kind = "success"},
                                                       c \in Requests, s \in Exchange!Spellings}
             failures == UNION {{Exchange!Failure(f, f.code), Exchange!Failure(f, 7)} :
                                 f \in {g \in wire : g.kind = "error"}}
             requests == [whole : {TRUE}, kind : {"request"}, challenge : {r \in Requests : asked[r] # None}]
             torn == [whole : {FALSE}, kind : {"success"}, challenge : {r \in Requests : asked[r] # None}]
  <1>1. Exchange!Frames = successes \cup failures \cup requests \cup torn
    BY DEF Exchange!Frames
  <1>2. answer \in successes => \E g \in wire, c \in Requests, s \in Exchange!Spellings :
                                   g.kind = "success" /\ answer = Exchange!Success(g, c, s)
    OBVIOUS
  <1>3. answer \in failures => \E g \in wire : /\ g.kind = "error"
                                                 /\ answer \in {Exchange!Failure(g, g.code), Exchange!Failure(g, 7)}
    OBVIOUS
  <1> HIDE DEF successes, failures
  <1> QED
    BY <1>1, <1>2, <1>3

(* What the client makes of an answer: the receipt that was signed in      *)
(* answer to its challenge, the failure that was sent to it, or nothing.   *)
LEMMA AnswersRead ==
    ASSUME ExchangeIInv, NEW r \in Requests, asked[r] # None, NEW f \in Exchange!Frames
    PROVE  LET result == Exchange!DecodeAndValidateIPCResponse(r, f, Exchange!clientNow) IN
           \/ result = Exchange!Refused
           \/ \E code \in {1, 5} : result = [verdict |-> "failure", code |-> code] /\ FailedWith(r, code)
           \/ \E c \in receipts :
                /\ result = [verdict |-> "receipt", receipt |-> c]
                /\ c.challenge = r /\ c.revision = asked[r].binding.revision
                /\ c.context = asked[r].binding.context
                /\ now + offset < c.expires
  <1> DEFINE result == Exchange!DecodeAndValidateIPCResponse(r, f, Exchange!clientNow)
  <1>0. /\ \A c \in receipts : Exchange!successFrame(c.challenge, c).kind = "success"
        /\ \A q \in Requests, code \in {1, 5} : Exchange!failureFrame(q, code).kind = "error"
    BY DEF Exchange!successFrame, Exchange!failureFrame
  <1>1. CASE \E g \in wire, c \in Requests, s \in Exchange!Spellings :
               g.kind = "success" /\ f = Exchange!Success(g, c, s)
    <2>1. PICK g \in wire, c \in Requests, s \in Exchange!Spellings :
               g.kind = "success" /\ f = Exchange!Success(g, c, s)
      BY <1>1
    <2>2. PICK receipt \in receipts : g = Exchange!successFrame(receipt.challenge, receipt)
      BY <1>0, <2>1 DEF ExchangeIInv, WireSent
    <2>3. f.whole /\ f.kind = "success" /\ f.receipt = receipt
      BY <2>1, <2>2 DEF Exchange!Success, Exchange!successFrame
    <2>4. result \in {Exchange!Refused, Exchange!validateIPCSuccess(r, f, Exchange!clientNow)}
      BY <2>3 DEF Exchange!DecodeAndValidateIPCResponse
    <2>5. ASSUME result # Exchange!Refused
          PROVE  /\ result = [verdict |-> "receipt", receipt |-> receipt]
                 /\ receipt.challenge = r /\ receipt.revision = asked[r].binding.revision
                 /\ receipt.context = asked[r].binding.context
                 /\ now + offset < receipt.expires
      <3>1. result = Exchange!validateIPCSuccess(r, f, Exchange!clientNow)
        BY <2>4, <2>5
      <3> HIDE DEF result
      <3> QED
        BY <2>3, <2>5, <3>1 DEF Exchange!validateIPCSuccess, Exchange!ReceiptOfChallenge, Exchange!ReceiptOfBinding,
                                Exchange!ReceiptLives, Exchange!clientNow
    <2> HIDE DEF result
    <2> QED
      BY <2>5 DEF result
  <1>2. CASE \E g \in wire : g.kind = "error" /\ f \in {Exchange!Failure(g, g.code), Exchange!Failure(g, 7)}
    <2>1. PICK g \in wire : g.kind = "error" /\ f \in {Exchange!Failure(g, g.code), Exchange!Failure(g, 7)}
      BY <1>2
    <2>2. PICK q \in Requests, code \in {1, 5} : g = Exchange!failureFrame(q, code) /\ FailedWith(q, code)
      BY <1>0, <2>1 DEF ExchangeIInv, WireSent
    <2>3. f.whole /\ f.kind = "error" /\ f.challenge = q /\ f.code \in {code, 7}
      BY <2>1, <2>2 DEF Exchange!Failure, Exchange!failureFrame
    <2>4. result = IF q = r /\ f.code = code THEN [verdict |-> "failure", code |-> code] ELSE Exchange!Refused
      <3>1. f.code \in Exchange!ErrorCodes <=> f.code = code
        BY <2>3 DEF Exchange!ErrorCodes
      <3> QED
        BY <2>3, <3>1 DEF Exchange!DecodeAndValidateIPCResponse, Exchange!FrameChallenge
    <2> HIDE DEF result
    <2> QED
      BY <2>2, <2>4 DEF result
  <1>3. CASE f \in [whole : {TRUE}, kind : {"request"}, challenge : {q \in Requests : asked[q] # None}]
    BY <1>3 DEF Exchange!DecodeAndValidateIPCResponse
  <1>4. CASE f \in [whole : {FALSE}, kind : {"success"}, challenge : {q \in Requests : asked[q] # None}]
    BY <1>4 DEF Exchange!DecodeAndValidateIPCResponse
  <1> HIDE DEF result
  <1>5. \/ \E g \in wire, c \in Requests, s \in Exchange!Spellings :
               g.kind = "success" /\ f = Exchange!Success(g, c, s)
        \/ \E g \in wire : g.kind = "error" /\ f \in {Exchange!Failure(g, g.code), Exchange!Failure(g, 7)}
        \/ f \in [whole : {TRUE}, kind : {"request"}, challenge : {q \in Requests : asked[q] # None}]
        \/ f \in [whole : {FALSE}, kind : {"success"}, challenge : {q \in Requests : asked[q] # None}]
    BY FrameKinds
  <1> QED
    BY <1>1, <1>2, <1>3, <1>4, <1>5

LEMMA PcSet ==
    ASSUME NEW h, NEW plan, NEW binding, NEW pc, h = [pc |-> h.pc, plan |-> plan, binding |-> binding]
    PROVE  [h EXCEPT !.pc = pc] = [pc |-> pc, plan |-> plan, binding |-> binding]
  <1>1. PICK old : old = h.pc
    OBVIOUS
  <1>2. h = [pc |-> old, plan |-> plan, binding |-> binding]
    BY <1>1
  <1> QED
    BY <1>2

LEMMA ExchangeKeeps == ASSUME ExchangeIInv, [Exchange!Next]_(Exchange!vars) PROVE ExchangeIInv'
  <1>1. /\ now \in 0 .. MaxTime /\ MaxTime \in Nat /\ authority \in Exchange!Authorities
        /\ asked \in [Requests -> {asked[r] : r \in Requests}]
        /\ helper \in [Requests -> {helper[r] : r \in Requests}]
        /\ taken \in [Requests -> {taken[r] : r \in Requests}]
        /\ \A r \in Requests : Asked(r) /\ Shown(r) /\ TakenTruly(r)
        /\ ReceiptsSigned /\ WireSent
    BY ExchangeAssumption DEF ExchangeIInv, ExchangeTypes, Exchange!ApprovalAssumption
  <1>a. now' = now => now' \in 0 .. MaxTime /\ now <= now'
    BY <1>1
  <1>2. ASSUME NEW f, NEW r \in Requests, NEW x, f \in [Requests -> {f[q] : q \in Requests}]
        PROVE  /\ [f EXCEPT ![r] = x] \in [Requests -> {[f EXCEPT ![r] = x][q] : q \in Requests}]
               /\ \A q \in Requests : [f EXCEPT ![r] = x][q] = IF q = r THEN x ELSE f[q]
    <2>1. DOMAIN f = Requests
      BY <1>2
    <2>2. DOMAIN [f EXCEPT ![r] = x] = Requests
      BY <2>1
    <2> DEFINE g == [f EXCEPT ![r] = x]
    <2>3. g = [q \in Requests |-> g[q]]
      BY <2>1
    <2>4. \A q \in Requests : g[q] = IF q = r THEN x ELSE f[q]
      BY <2>1
    <2> HIDE DEF g
    <2>5. g \in [Requests -> {g[q] : q \in Requests}]
      BY <2>3
    <2> QED
      BY <2>4, <2>5 DEF g
  <1>3. ASSUME NEW r \in Requests, Exchange!Ask(r) PROVE ExchangeIInv'
    <2>1. PICK p \in Plans : asked' = [asked EXCEPT ![r] = Exchange!expectation(p)]
      BY <1>3 DEF Exchange!Ask
    <2> DEFINE expected == [plan |-> p, key |-> authority.revision, binding |-> authority]
    <2>2. asked[r] = None /\ UNCHANGED <<now, offset, authority, helper, receipts, wire, taken>>
      BY <1>3 DEF Exchange!Ask
    <2>3. /\ asked' \in [Requests -> {asked'[q] : q \in Requests}]
          /\ \A q \in Requests : asked'[q] = IF q = r THEN expected ELSE asked[q]
      <3>1. asked' = [asked EXCEPT ![r] = expected]
        BY <2>1 DEF Exchange!expectation
      <3> HIDE DEF expected
      <3> QED
        BY <1>1, <1>2, <3>1
    <2> HIDE DEF expected
    <2>4. Onward
      BY <1>a, <2>2, <2>3 DEF Onward
    <2>5. ASSUME NEW q \in Requests PROVE Asked(q)' /\ Shown(q)'
      <3>0. /\ expected.plan = p /\ expected.binding = authority
            /\ expected = [plan |-> p, key |-> authority.revision, binding |-> authority]
        BY DEF expected
      <3>1. Asked(q)'
        <4>1. CASE q = r
          BY <1>1, <2>3, <3>0, <4>1 DEF Asked
        <4>2. CASE q # r
          BY <1>1, <2>3, <4>2 DEF Asked
        <4> QED
          BY <4>1, <4>2
      <3>2. Shown(q)'
        BY <1>1, <2>2, <2>3 DEF Shown
      <3> QED
        BY <3>1, <3>2
    <2>6. ExchangeTypes'
      BY <2>2, <2>3 DEF ExchangeIInv, ExchangeTypes
    <2> QED
      BY <2>2, <2>4, <2>5, <2>6, StaysSent DEF ExchangeIInv, ReceiptsSigned, WireSent, Sent
  <1>4. ASSUME NEW r \in Requests, Exchange!Show(r) PROVE ExchangeIInv'
    <2> DEFINE shown == [pc |-> "shown", plan |-> asked[r].plan, binding |-> authority]
    <2>1. /\ asked[r] # None /\ helper[r] = None /\ helper' = [helper EXCEPT ![r] = shown]
          /\ UNCHANGED <<now, offset, authority, asked, receipts, wire, taken>>
      BY <1>4 DEF Exchange!Show
    <2> HIDE DEF shown
    <2>2. /\ helper' \in [Requests -> {helper'[q] : q \in Requests}]
          /\ \A q \in Requests : helper'[q] = IF q = r THEN shown ELSE helper[q]
      BY <1>1, <1>2, <2>1
    <2>3. Onward
      BY <1>a, <2>1, <2>2 DEF Onward
    <2>4. ASSUME NEW q \in Requests PROVE Asked(q)' /\ Shown(q)'
      <3>1. Asked(q)'
        BY <1>1, <2>1 DEF Asked
      <3>2. Shown(q)'
        BY <1>1, <2>1, <2>2 DEF Shown, shown
      <3> QED
        BY <3>1, <3>2
    <2>5. ExchangeTypes'
      BY <2>1, <2>2 DEF ExchangeIInv, ExchangeTypes
    <2> QED
      BY <2>1, <2>3, <2>4, <2>5, StaysSent DEF ExchangeIInv, ReceiptsSigned, WireSent, Sent
  <1>5. ASSUME NEW r \in Requests, Exchange!Fail(r) PROVE ExchangeIInv'
    <2>1. /\ helper[r] # None /\ helper[r].pc = "shown" /\ helper' = [helper EXCEPT ![r].pc = "failed"]
          /\ UNCHANGED <<now, offset, authority, asked, receipts, taken>>
      BY <1>5 DEF Exchange!Fail, Exchange!Answered
    <2>2. PICK code \in {1, 5} : wire' = wire \cup {Exchange!failureFrame(r, code)}
      BY <1>5 DEF Exchange!Fail
    <2> DEFINE failed == [helper[r] EXCEPT !.pc = "failed"]
    <2>3. helper' = [helper EXCEPT ![r] = failed]
      BY <2>1
    <2>4. failed = [pc |-> "failed", plan |-> asked[r].plan, binding |-> helper[r].binding]
      <3>1. helper[r] = [pc |-> helper[r].pc, plan |-> asked[r].plan, binding |-> helper[r].binding]
        BY <1>1, <2>1 DEF Shown
      <3> QED
        BY <3>1, PcSet
    <2> HIDE DEF failed
    <2>5. /\ helper' \in [Requests -> {helper'[q] : q \in Requests}]
          /\ \A q \in Requests : helper'[q] = IF q = r THEN failed ELSE helper[q]
      BY <1>1, <1>2, <2>3
    <2>6. Onward
      BY <1>a, <2>1, <2>2, <2>5 DEF Onward
    <2>7. ASSUME NEW q \in Requests PROVE Asked(q)' /\ Shown(q)'
      <3>1. Asked(q)'
        BY <1>1, <2>1 DEF Asked
      <3>2. Shown(q)'
        <4>1. CASE q = r
          <5>1. asked[r] # None /\ helper[r].binding \in Exchange!Authorities
            BY <1>1, <2>1 DEF Shown
          <5>2. /\ failed.pc = "failed" /\ failed.binding = helper[r].binding
                /\ failed = [pc |-> failed.pc, plan |-> asked[r].plan, binding |-> failed.binding]
            BY <2>4
          <5> QED
            BY <2>1, <2>5, <4>1, <5>1, <5>2 DEF Shown
        <4>2. CASE q # r
          BY <1>1, <2>1, <2>5, <4>2 DEF Shown
        <4> QED
          BY <4>1, <4>2
      <3> QED
        BY <3>1, <3>2
    <2>8. Sent(Exchange!failureFrame(r, code))'
      <3>1. FailedWith(r, code)' \/ failed = None
        BY <2>2, <2>4, <2>5 DEF FailedWith, Exchange!failureFrame
      <3>2. failed # None
        <4>1. asked[r].plan \in Plans /\ helper[r].binding \in Exchange!Authorities
          BY <1>1, <2>1 DEF Shown, Asked
        <4> QED
          BY <2>4, <4>1, ExchangeAssumption DEF Exchange!ApprovalAssumption, Exchange!Helpers
      <3> QED
        BY <3>1, <3>2 DEF Sent, Exchange!failureFrame
    <2>9. WireSent'
      BY <2>2, <2>6, <2>8, StaysSent DEF WireSent, Sent
    <2>10. ReceiptsSigned' /\ \A q \in Requests : TakenTruly(q)'
      BY <2>1, <2>6, StaysSent DEF ReceiptsSigned
    <2>11. ExchangeTypes'
      BY <2>1, <2>5 DEF ExchangeIInv, ExchangeTypes
    <2> QED
      BY <2>7, <2>9, <2>10, <2>11 DEF ExchangeIInv
  <1>6. ASSUME NEW r \in Requests, Exchange!makeReceipt(r) PROVE ExchangeIInv'
    <2>1. PICK receipt : /\ receipt = Exchange!unsignedReceipt(r, authority.revision)
                         /\ receipts' = receipts \cup {receipt}
                         /\ wire' = wire \cup {Exchange!successFrame(r, receipt)}
      BY <1>6 DEF Exchange!makeReceipt
    <2>2. /\ helper[r] # None /\ helper[r].pc = "shown" /\ helper' = [helper EXCEPT ![r].pc = "approved"]
          /\ UNCHANGED <<now, offset, authority, asked, taken>>
          /\ Exchange!generationBound(r, authority.revision)
      BY <1>6 DEF Exchange!makeReceipt, Exchange!Answered
    <2> DEFINE approved == [helper[r] EXCEPT !.pc = "approved"]
    <2>3. helper' = [helper EXCEPT ![r] = approved]
      BY <2>2
    <2>4. /\ asked[r] # None /\ helper[r].binding \in Exchange!Authorities /\ asked[r].plan \in Plans
          /\ helper[r].plan = asked[r].plan
          /\ approved = [pc |-> "approved", plan |-> asked[r].plan, binding |-> helper[r].binding]
      <3>1. /\ helper[r] = [pc |-> helper[r].pc, plan |-> asked[r].plan, binding |-> helper[r].binding]
            /\ asked[r] # None /\ helper[r].binding \in Exchange!Authorities /\ asked[r].plan \in Plans
        BY <1>1, <2>2 DEF Shown, Asked
      <3>2. helper[r].plan = asked[r].plan
        BY <3>1
      <3> QED
        BY <3>1, <3>2, PcSet
    <2> HIDE DEF approved
    <2>5. /\ helper' \in [Requests -> {helper'[q] : q \in Requests}]
          /\ \A q \in Requests : helper'[q] = IF q = r THEN approved ELSE helper[q]
      BY <1>1, <1>2, <2>3
    <2>6. Onward
      BY <1>a, <2>1, <2>2, <2>5 DEF Onward
    <2>7. ASSUME NEW q \in Requests PROVE Asked(q)' /\ Shown(q)'
      <3>1. Asked(q)'
        BY <1>1, <2>2 DEF Asked
      <3>2. Shown(q)'
        <4>1. CASE q = r
          <5>1. /\ approved.pc = "approved" /\ approved.binding = helper[r].binding
                /\ approved = [pc |-> approved.pc, plan |-> asked[r].plan, binding |-> approved.binding]
            BY <2>4
          <5> QED
            BY <2>2, <2>4, <2>5, <4>1, <5>1 DEF Shown
        <4>2. CASE q # r
          BY <1>1, <2>2, <2>5, <4>2 DEF Shown
        <4> QED
          BY <4>1, <4>2
      <3> QED
        BY <3>1, <3>2
    <2>8. receipt.challenge = r /\ Signs(receipt, r)'
      <3>1. /\ receipt = [challenge |-> r, plan |-> helper[r].plan,
                          revision |-> helper[r].binding.revision, context |-> helper[r].binding.context,
                          key |-> authority.revision, issued |-> Exchange!floor(now),
                          expires |-> Exchange!floor(now) + Lifetime * 2]
        BY <2>1 DEF Exchange!unsignedReceipt, Exchange!second
      <3>2. authority.revision = helper[r].binding.revision
        BY <1>1, <2>2 DEF Exchange!generationBound, Exchange!keyGenerationRevision, Exchange!Authorities
      <3>3. now \in Int /\ now' = now
        BY <1>1, <2>2
      <3>4. Exchange!floor(now) <= now /\ \E k \in Int : Exchange!floor(now) = 2 * k
        BY <3>3, WholeSeconds
      <3>5. approved # None /\ approved.pc = "approved" /\ approved.plan = helper[r].plan
            /\ approved.binding = helper[r].binding
        BY <2>4, ExchangeAssumption DEF Exchange!ApprovalAssumption, Exchange!Helpers
      <3>6. helper'[r] = approved
        BY <2>5
      <3>7. PICK issued : issued = Exchange!floor(now)
        OBVIOUS
      <3> QED
        BY <3>1, <3>2, <3>3, <3>4, <3>5, <3>6, <3>7 DEF Signs
    <2>9. ReceiptsSigned' /\ \A q \in Requests : TakenTruly(q)'
      BY <2>1, <2>2, <2>6, <2>8, StaysSent DEF ReceiptsSigned
    <2>10. WireSent'
      <3>1. Sent(Exchange!successFrame(r, receipt))'
        BY <2>1, <2>8 DEF Sent, Exchange!successFrame
      <3> QED
        BY <2>1, <2>6, <3>1, StaysSent DEF WireSent, Sent
    <2>11. ExchangeTypes'
      BY <2>2, <2>5 DEF ExchangeIInv, ExchangeTypes
    <2> QED
      BY <2>7, <2>9, <2>10, <2>11 DEF ExchangeIInv
  <1>7. ASSUME NEW r \in Requests, Exchange!Take(r) PROVE ExchangeIInv'
    <2>1. /\ asked[r] # None /\ taken[r] = None
          /\ UNCHANGED <<now, offset, authority, asked, helper, receipts, wire>>
      BY <1>7 DEF Exchange!Take
    <2>2. PICK f \in Exchange!Frames :
            taken' = [taken EXCEPT ![r] =
               [result |-> Exchange!DecodeAndValidateIPCResponse(r, f, Exchange!clientNow), at |-> now]]
      BY <1>7 DEF Exchange!Take
    <2>3. PICK result : result = Exchange!DecodeAndValidateIPCResponse(r, f, Exchange!clientNow)
      OBVIOUS
    <2>4. \/ result = Exchange!Refused
          \/ \E code \in {1, 5} : result = [verdict |-> "failure", code |-> code] /\ FailedWith(r, code)
          \/ \E c \in receipts :
                /\ result = [verdict |-> "receipt", receipt |-> c]
                /\ c.challenge = r /\ c.revision = asked[r].binding.revision
                /\ c.context = asked[r].binding.context
                /\ now + offset < c.expires
      BY <2>1, <2>2, <2>3, AnswersRead
    <2> DEFINE answer == [result |-> result, at |-> now]
    <2>5. taken' = [taken EXCEPT ![r] = answer]
      BY <2>2, <2>3
    <2>6. answer.result = result /\ answer.at = now
      OBVIOUS
    <2> HIDE DEF answer
    <2>7. /\ taken' \in [Requests -> {taken'[q] : q \in Requests}]
          /\ \A q \in Requests : taken'[q] = IF q = r THEN answer ELSE taken[q]
      BY <1>1, <1>2, <2>5
    <2>8. Onward
      BY <1>a, <2>1 DEF Onward
    <2>9. TakenTruly(r)'
      <3>1. taken'[r].result = result /\ taken'[r].at = now /\ now \in Int
        <4>1. taken'[r] = answer
          BY <2>7
        <4>2. now \in Int
          BY <1>1
        <4> QED
          BY <2>6, <4>1, <4>2
      <3>2. \A code : FailedWith(r, code) => FailedWith(r, code)'
        BY <2>1 DEF FailedWith, Exchange!failureFrame
      <3>3. CASE result = Exchange!Refused
        BY <2>1, <3>1, <3>3 DEF TakenTruly, Exchange!Refused
      <3>4. CASE \E code \in {1, 5} : result = [verdict |-> "failure", code |-> code] /\ FailedWith(r, code)
        BY <2>1, <3>1, <3>2, <3>4 DEF TakenTruly
      <3>5. CASE \E c \in receipts :
                /\ result = [verdict |-> "receipt", receipt |-> c]
                /\ c.challenge = r /\ c.revision = asked[r].binding.revision
                /\ c.context = asked[r].binding.context
                /\ now + offset < c.expires
        BY <2>1, <3>1, <3>5 DEF TakenTruly
      <3> QED
        BY <2>4, <3>3, <3>4, <3>5
    <2>10. \A q \in Requests : TakenTruly(q)'
      <3>1. ASSUME NEW q \in Requests, q # r PROVE TakenTruly(q)'
        <4>1. taken'[q] = taken[q]
          BY <2>7, <3>1
        <4> QED
          BY <2>8, <4>1, StaysSent
      <3> QED
        BY <2>9, <3>1
    <2>11. \A q \in Requests : Asked(q)' /\ Shown(q)'
      BY <1>1, <2>1 DEF Asked, Shown
    <2>12. ReceiptsSigned' /\ WireSent'
      BY <2>1, <2>8, StaysSent DEF ReceiptsSigned, WireSent, Sent
    <2>13. ExchangeTypes'
      BY <2>1, <2>7 DEF ExchangeIInv, ExchangeTypes
    <2> QED
      BY <2>10, <2>11, <2>12, <2>13 DEF ExchangeIInv
  <1>8. ASSUME now' \in 0 .. MaxTime, now <= now', authority' \in Exchange!Authorities,
               UNCHANGED <<offset, asked, helper, receipts, wire, taken>>
        PROVE  ExchangeIInv'
    <2>1. Onward
      BY <1>8 DEF Onward
    <2>2. \A q \in Requests : Asked(q)' /\ Shown(q)'
      BY <1>1, <1>8 DEF Asked, Shown
    <2>3. ReceiptsSigned' /\ WireSent' /\ \A q \in Requests : TakenTruly(q)'
      BY <1>8, <2>1, StaysSent DEF ReceiptsSigned, WireSent, Sent
    <2>4. ExchangeTypes'
      BY <1>8 DEF ExchangeIInv, ExchangeTypes
    <2> QED
      BY <2>2, <2>3, <2>4 DEF ExchangeIInv
  <1>9. CASE Exchange!Tick
    BY <1>1, <1>8, <1>9 DEF Exchange!Tick
  <1>10. CASE Exchange!Reauthorize
    <2>1. authority' \in Exchange!Authorities
      <3>1. /\ authority.revision \in 1 .. MaxRevision /\ MaxRevision \in Nat
            /\ authority = [revision |-> authority.revision, context |-> authority.context]
        BY <1>1, ExchangeAssumption DEF Exchange!Authorities, Exchange!ApprovalAssumption
      <3> QED
        BY <1>10, <3>1 DEF Exchange!Reauthorize, Exchange!Authorities
    <2> QED
      BY <1>a, <1>8, <1>10, <2>1 DEF Exchange!Reauthorize
  <1>11. CASE UNCHANGED Exchange!vars
    BY <1>1, <1>a, <1>8, <1>11 DEF Exchange!vars
  <1> QED
    BY <1>3, <1>4, <1>5, <1>6, <1>7, <1>9, <1>10, <1>11 DEF Exchange!Next

-----------------------------------------------------------------------------
(* The exchange: what follows.                                             *)

(* A taken answer is of one kind.                                          *)
LEMMA Verdicts ==
    /\ Exchange!Refused.verdict = "refused"
    /\ \A code : [verdict |-> "failure", code |-> code].verdict = "failure"
    /\ \A c : [verdict |-> "receipt", receipt |-> c].verdict = "receipt"
  BY DEF Exchange!Refused

LEMMA TakenReceipt ==
    ASSUME ExchangeIInv, NEW r \in Requests, Exchange!Accepted(r)
    PROVE  LET c == Exchange!Answer(r).receipt IN
           /\ asked[r] # None /\ taken[r].at \in Int
           /\ c \in receipts /\ c.challenge = r /\ Signs(c, r)
           /\ c.revision = asked[r].binding.revision /\ c.context = asked[r].binding.context
           /\ taken[r].at + offset < c.expires
  <1>1. taken[r] # None /\ taken[r].result.verdict = "receipt"
    BY DEF Exchange!Accepted, Exchange!Answer
  <1>2. TakenTruly(r)
    BY DEF ExchangeIInv
  <1>3. PICK c \in receipts : /\ taken[r].result = [verdict |-> "receipt", receipt |-> c]
                              /\ c.challenge = r /\ c.revision = asked[r].binding.revision
                              /\ c.context = asked[r].binding.context
                              /\ taken[r].at + offset < c.expires
    BY <1>1, <1>2, Verdicts DEF TakenTruly
  <1>4. Exchange!Answer(r).receipt = c
    BY <1>3 DEF Exchange!Answer
  <1>5. Signs(c, r)
    BY <1>3 DEF ExchangeIInv, ReceiptsSigned
  <1> QED
    BY <1>1, <1>2, <1>3, <1>4, <1>5 DEF TakenTruly

(* What a receipt of an approval says, field by field.                     *)
LEMMA ReceiptFields ==
    ASSUME NEW c, NEW r, Signs(c, r)
    PROVE  /\ c.challenge = r /\ c.plan = helper[r].plan
           /\ c.revision = helper[r].binding.revision /\ c.context = helper[r].binding.context
           /\ c.key = helper[r].binding.revision /\ c.expires = c.issued + Lifetime * 2
           /\ c.issued \in Int /\ c.issued <= now
           /\ \E k \in Int : c.issued = 2 * k
  <1>1. PICK issued, expires : issued = c.issued /\ expires = c.issued + Lifetime * 2
    OBVIOUS
  <1>2. c = [challenge |-> r, plan |-> helper[r].plan,
             revision |-> helper[r].binding.revision, context |-> helper[r].binding.context,
             key |-> helper[r].binding.revision, issued |-> issued, expires |-> expires]
    BY <1>1 DEF Signs
  <1> QED
    BY <1>1, <1>2 DEF Signs

(* Both validators, of any answer that can reach the client.               *)
LEMMA ValidatorsAgree ==
    ASSUME ExchangeIInv, NEW r \in Requests, asked[r] # None, NEW f \in Exchange!Frames,
           NEW time \in Int
    PROVE  Exchange!DecodeAndValidateIPCResponse(r, f, time) = Exchange!decodeAndValidateResponse(r, f, time)
  <1>0. /\ \A c \in receipts : /\ Exchange!successFrame(c.challenge, c).kind = "success"
                               /\ Exchange!successFrame(c.challenge, c).receipt = c
        /\ \A q \in Requests, code \in {1, 5} : Exchange!failureFrame(q, code).kind = "error"
    BY DEF Exchange!successFrame, Exchange!failureFrame
  <1>1. CASE \E g \in wire, c \in Requests, s \in Exchange!Spellings :
               g.kind = "success" /\ f = Exchange!Success(g, c, s)
    <2>1. PICK g \in wire, challenge \in Requests, s \in Exchange!Spellings :
               g.kind = "success" /\ f = Exchange!Success(g, challenge, s)
      BY <1>1
    <2>2. PICK c \in receipts : g = Exchange!successFrame(c.challenge, c)
      BY <1>0, <2>1 DEF ExchangeIInv, WireSent
    <2>3. f.whole /\ f.kind = "success" /\ f.receipt = c
      BY <1>0, <2>1, <2>2 DEF Exchange!Success
    <2>4. /\ c.issued \in Int /\ c.expires \in Int
          /\ \E k \in Int : c.issued = 2 * k
          /\ \E k \in Int : c.expires = 2 * k
      <3>1. Signs(c, c.challenge)
        BY DEF ExchangeIInv, ReceiptsSigned
      <3>2. /\ c.issued \in Int /\ c.expires = c.issued + Lifetime * 2
            /\ \E k \in Int : c.issued = 2 * k
        BY <3>1, ReceiptFields
      <3>3. Lifetime \in Int
        BY ExchangeAssumption DEF Exchange!ApprovalAssumption
      <3>4. PICK k \in Int : c.issued = 2 * k
        BY <3>2
      <3>5. c.expires = 2 * (k + Lifetime) /\ k + Lifetime \in Int
        BY <3>2, <3>3, <3>4
      <3> QED
        BY <3>2, <3>3, <3>5
    <2>5. /\ time >= c.issued - Skew * 2 <=> c.issued <= Exchange!floor(time) + Skew * 2
          /\ time < c.expires <=> Exchange!floor(time) < c.expires
      BY <2>4, SameLife
    <2>6. Exchange!ReceiptLives(c, time) <=>
            /\ c.expires > c.issued
            /\ c.expires - c.issued <= MaximumReceiptTTL * Exchange!second
            /\ c.issued <= Exchange!floor(time) + Skew * Exchange!second
            /\ Exchange!floor(time) < c.expires
      BY <2>5 DEF Exchange!ReceiptLives, Exchange!second
    <2>7. (/\ f.spki = asked[r].key /\ f.spelling = "canonical"
           /\ Exchange!ReceiptOfChallenge(r, c)
           /\ c.key = asked[r].key
           /\ Exchange!ReceiptOfBinding(r, c)
           /\ c.plan = asked[r].plan
           /\ Exchange!ReceiptLives(c, time)) <=>
          (f.spki = asked[r].key /\ f.spelling = "canonical" /\ Exchange!swiftValidate(r, c, time))
      BY <2>6 DEF Exchange!swiftValidate, Exchange!ReceiptOfChallenge, Exchange!ReceiptOfBinding
    <2>8. Exchange!validateIPCSuccess(r, f, time) =
            IF f.spki = asked[r].key /\ f.spelling = "canonical" /\ Exchange!swiftValidate(r, c, time)
            THEN [verdict |-> "receipt", receipt |-> c] ELSE Exchange!Refused
      BY <2>3, <2>7 DEF Exchange!validateIPCSuccess
    <2>9. Exchange!DecodeAndValidateIPCResponse(r, f, time) =
            IF f.challenge = r /\ Exchange!ExpectedKeyBound(r)
            THEN Exchange!validateIPCSuccess(r, f, time) ELSE Exchange!Refused
      BY <2>3 DEF Exchange!DecodeAndValidateIPCResponse, Exchange!FrameChallenge
    <2>10. Exchange!decodeAndValidateResponse(r, f, time) =
             IF /\ f.challenge = r /\ Exchange!ExpectedKeyBound(r) /\ f.spki = asked[r].key
                /\ f.spelling = "canonical" /\ Exchange!swiftValidate(r, c, time)
             THEN [verdict |-> "receipt", receipt |-> c] ELSE Exchange!Refused
      BY <2>3 DEF Exchange!decodeAndValidateResponse
    <2> QED
      BY <2>8, <2>9, <2>10
  <1>2. CASE \E g \in wire : g.kind = "error" /\ f \in {Exchange!Failure(g, g.code), Exchange!Failure(g, 7)}
    <2>1. f.whole /\ f.kind = "error"
      BY <1>2 DEF Exchange!Failure
    <2> QED
      BY <2>1 DEF Exchange!DecodeAndValidateIPCResponse, Exchange!decodeAndValidateResponse, Exchange!FrameChallenge
  <1>3. CASE f \in [whole : {TRUE}, kind : {"request"}, challenge : {q \in Requests : asked[q] # None}]
    BY <1>3 DEF Exchange!DecodeAndValidateIPCResponse, Exchange!decodeAndValidateResponse
  <1>4. CASE f \in [whole : {FALSE}, kind : {"success"}, challenge : {q \in Requests : asked[q] # None}]
    BY <1>4 DEF Exchange!DecodeAndValidateIPCResponse, Exchange!decodeAndValidateResponse
  <1> QED
    BY <1>1, <1>2, <1>3, <1>4, FrameKinds

LEMMA ExchangeIsSound ==
    ExchangeIInv => Exchange!ExchangeInv
  <1> SUFFICES ASSUME ExchangeIInv PROVE Exchange!ExchangeInv
    OBVIOUS
  <1>1. /\ now \in Int /\ offset \in Int /\ Lifetime \in Nat \ {0} /\ Skew \in Nat /\ MaximumReceiptTTL \in Nat
        /\ Lifetime <= MaximumReceiptTTL
    BY ExchangeAssumption DEF ExchangeIInv, ExchangeTypes, Exchange!ApprovalAssumption
  <1>2. \A r \in Requests : Asked(r) /\ Shown(r) /\ TakenTruly(r)
    BY DEF ExchangeIInv
  <1>3. Exchange!TypeOK
    <2>1. ASSUME NEW c \in receipts PROVE c.expires - c.issued = Lifetime * Exchange!second
      <3>1. Signs(c, c.challenge)
        BY DEF ExchangeIInv, ReceiptsSigned
      <3> QED
        BY <1>1, <3>1, ReceiptFields DEF Exchange!second
    <2> QED
      BY <1>2, <2>1 DEF Exchange!TypeOK, ExchangeIInv, ExchangeTypes, Asked, Shown
  <1>4. ASSUME NEW r \in Requests, Exchange!Accepted(r)
        PROVE  /\ helper[r] # None /\ helper[r].pc = "approved"
               /\ helper[r].plan = asked[r].plan /\ helper[r].binding = asked[r].binding
    <2>1. PICK c : c = Exchange!Answer(r).receipt
      OBVIOUS
    <2>2. /\ asked[r] # None /\ Signs(c, r)
          /\ c.revision = asked[r].binding.revision /\ c.context = asked[r].binding.context
      BY <1>4, <2>1, TakenReceipt
    <2>3. helper[r] # None /\ helper[r].pc = "approved"
      BY <2>2 DEF Signs
    <2>4. /\ helper[r] = [pc |-> helper[r].pc, plan |-> asked[r].plan, binding |-> helper[r].binding]
          /\ helper[r].binding \in Exchange!Authorities /\ asked[r].binding \in Exchange!Authorities
      BY <1>2, <2>2, <2>3 DEF Shown, Asked
    <2>5. helper[r].plan = asked[r].plan
      BY <2>4
    <2>6. /\ helper[r].binding.revision = asked[r].binding.revision
          /\ helper[r].binding.context = asked[r].binding.context
      BY <2>2, ReceiptFields
    <2>7. helper[r].binding = asked[r].binding
      BY <2>4, <2>6 DEF Exchange!Authorities
    <2> QED
      BY <2>3, <2>5, <2>7
  <1>5. Exchange!ReceiptOfThisApproval
    BY <1>4, TakenReceipt DEF Exchange!ReceiptOfThisApproval
  <1>6. Exchange!ReceiptCountsOnce
    BY TakenReceipt DEF Exchange!ReceiptCountsOnce
  <1>7. Exchange!LateOnlyByTheClock
    <2> SUFFICES ASSUME NEW r \in Requests, Exchange!Accepted(r)
                 PROVE  taken[r].at - Exchange!Answer(r).receipt.issued < Lifetime * Exchange!second - offset
      BY DEF Exchange!LateOnlyByTheClock
    <2>1. PICK c : c = Exchange!Answer(r).receipt
      OBVIOUS
    <2>2. Signs(c, r) /\ taken[r].at \in Int /\ taken[r].at + offset < c.expires
      BY <2>1, TakenReceipt
    <2>3. c.issued \in Int /\ c.expires = c.issued + Lifetime * 2
      BY <2>2, ReceiptFields
    <2>4. taken[r].at - c.issued < Lifetime * 2 - offset
      BY <1>1, <2>2, <2>3
    <2> QED
      BY <2>1, <2>4 DEF Exchange!second
  <1>8. Exchange!FailureOfThisRequest
    <2> SUFFICES ASSUME NEW r \in Requests, taken[r] # None, taken[r].result.verdict = "failure"
                 PROVE  /\ helper[r] # None /\ helper[r].pc = "failed"
                        /\ Exchange!failureFrame(r, taken[r].result.code) \in wire
      BY DEF Exchange!FailureOfThisRequest, Exchange!Answer
    <2>1. PICK code \in {1, 5} : taken[r].result = [verdict |-> "failure", code |-> code] /\ FailedWith(r, code)
      BY <1>2, Verdicts DEF TakenTruly
    <2>2. taken[r].result.code = code
      BY <2>1
    <2> QED
      BY <2>1, <2>2 DEF FailedWith
  <1>9. Exchange!SameAnswer
    <2>1. Exchange!clientNow \in Int
      BY <1>1 DEF Exchange!clientNow
    <2> QED
      BY <2>1, ValidatorsAgree DEF Exchange!SameAnswer
  <1>10. Exchange!HonestAccepted
    <2> SUFFICES ASSUME NEW f \in wire, f.kind = "success",
                        helper[f.challenge].binding = asked[f.challenge].binding,
                        -offset <= Skew * Exchange!second, Exchange!clientNow < f.receipt.expires
                 PROVE  Exchange!DecodeAndValidateIPCResponse(
                          f.challenge, Exchange!Success(f, f.challenge, "canonical"), Exchange!clientNow).verdict = "receipt"
      BY DEF Exchange!HonestAccepted
    <2>1. PICK c \in receipts : f = Exchange!successFrame(c.challenge, c)
      <3>1. \A q \in Requests, code \in {1, 5} : Exchange!failureFrame(q, code).kind = "error"
        BY DEF Exchange!failureFrame
      <3> QED
        BY <3>1 DEF ExchangeIInv, WireSent
    <2>2. PICK r \in Requests : r = c.challenge
      BY DEF ExchangeIInv, ReceiptsSigned
    <2>3. f.challenge = r /\ f.spki = c.key /\ f.receipt = c /\ Signs(c, r)
      BY <2>1, <2>2 DEF Exchange!successFrame, ExchangeIInv, ReceiptsSigned
    <2>4. PICK g : g = Exchange!Success(f, r, "canonical")
      OBVIOUS
    <2>5. /\ g.whole /\ g.kind = "success" /\ g.challenge = r /\ g.spki = c.key /\ g.receipt = c
          /\ g.spelling = "canonical"
      BY <2>3, <2>4 DEF Exchange!Success
    <2>6. /\ helper[r] # None /\ asked[r] # None /\ helper[r].plan = asked[r].plan
          /\ asked[r].binding \in Exchange!Authorities /\ asked[r].key = asked[r].binding.revision
      <3>1. helper[r] # None
        BY <2>3 DEF Signs
      <3>2. /\ asked[r] # None
            /\ helper[r] = [pc |-> helper[r].pc, plan |-> asked[r].plan, binding |-> helper[r].binding]
        BY <1>2, <3>1 DEF Shown
      <3>3. /\ asked[r] = [plan |-> asked[r].plan, key |-> asked[r].binding.revision, binding |-> asked[r].binding]
            /\ asked[r].binding \in Exchange!Authorities
        BY <1>2, <3>2 DEF Asked
      <3>4. helper[r].plan = asked[r].plan
        BY <3>2
      <3>5. asked[r].key = asked[r].binding.revision
        BY <3>3
      <3> QED
        BY <3>1, <3>2, <3>3, <3>4, <3>5
    <2>7. helper[r].binding = asked[r].binding
      BY <2>3
    <2>8. /\ c.challenge = r /\ c.plan = asked[r].plan /\ c.key = asked[r].key
          /\ c.revision = asked[r].binding.revision /\ c.context = asked[r].binding.context
          /\ c.expires = c.issued + Lifetime * 2 /\ c.issued \in Int /\ c.issued <= now
      BY <2>3, <2>6, <2>7, ReceiptFields
    <2>9. Exchange!ExpectedKeyBound(r)
      BY <2>6 DEF Exchange!ExpectedKeyBound, Exchange!keyGenerationRevision, Exchange!Authorities
    <2>10. Exchange!ReceiptLives(c, Exchange!clientNow)
      <3>1. now + offset < c.expires /\ -offset <= Skew * 2
        BY <2>3 DEF Exchange!clientNow, Exchange!second
      <3>2. /\ c.expires > c.issued /\ c.expires - c.issued <= MaximumReceiptTTL * 2
            /\ now + offset >= c.issued - Skew * 2
        BY <1>1, <2>8, <3>1
      <3> QED
        BY <3>1, <3>2 DEF Exchange!ReceiptLives, Exchange!clientNow, Exchange!second
    <2>11. Exchange!validateIPCSuccess(r, g, Exchange!clientNow) = [verdict |-> "receipt", receipt |-> c]
      BY <2>5, <2>8, <2>10
         DEF Exchange!validateIPCSuccess, Exchange!ReceiptOfChallenge, Exchange!ReceiptOfBinding
    <2>12. Exchange!DecodeAndValidateIPCResponse(r, g, Exchange!clientNow) =
             Exchange!validateIPCSuccess(r, g, Exchange!clientNow)
      BY <2>5, <2>9 DEF Exchange!DecodeAndValidateIPCResponse, Exchange!FrameChallenge
    <2> QED
      BY <2>3, <2>4, <2>11, <2>12
  <1> QED
    BY <1>3, <1>5, <1>6, <1>7, <1>8, <1>9, <1>10 DEF Exchange!ExchangeInv

-----------------------------------------------------------------------------
(* Numbers.                                                                *)

(* A set of numbers with a member has a least one.                         *)
LEMMA LeastOf == ASSUME NEW T \in SUBSET Nat, T # {} PROVE \E n \in T : \A m \in T : n <= m
  <1>1. IsWellFoundedOn(OpToRel(<, Nat), Nat)
    BY NatLessThanWellFounded
  <1>2. PICK n \in T : \A m \in T : ~(<<m, n>> \in OpToRel(<, Nat))
    BY <1>1, WFMin
  <1>3. \A m \in T : ~(m < n)
    BY <1>2 DEF OpToRel
  <1> QED
    BY <1>3

(* A set that has 0 and with each number the next has all: induction over  *)
(* numbers, stated with a set in the place of a predicate.                 *)
LEMMA AllNumbers ==
    ASSUME NEW S \in SUBSET Nat, 0 \in S, \A n \in S : n + 1 \in S
    PROVE  S = Nat
  <1> SUFFICES ASSUME Nat \ S # {} PROVE FALSE
    OBVIOUS
  <1>1. PICK n \in Nat \ S : \A m \in Nat \ S : n <= m
    BY LeastOf
  <1>2. n # 0 /\ n - 1 \in Nat
    OBVIOUS
  <1>3. n - 1 \in S
    BY <1>1, <1>2
  <1>4. (n - 1) + 1 = n
    OBVIOUS
  <1> QED
    BY <1>3, <1>4

(* A set of numbers up to n with a member has a greatest one.              *)
LEMMA GreatestOf ==
    ASSUME NEW n \in Nat, NEW T \in SUBSET (1 .. n), T # {}
    PROVE  \E i \in T : \A j \in T : j <= i
  <1> DEFINE below == {n - i : i \in T}
  <1>1. below \in SUBSET Nat /\ below # {}
    <2>1. \A i \in T : n - i \in Nat
      OBVIOUS
    <2>2. PICK i \in T : TRUE
      OBVIOUS
    <2>3. n - i \in below
      OBVIOUS
    <2> QED
      BY <2>1, <2>3
  <1>2. PICK m \in below : \A k \in below : m <= k
    <2> HIDE DEF below
    <2> QED
      BY <1>1, LeastOf
  <1>3. PICK i \in T : m = n - i
    BY <1>2
  <1>4. \A j \in T : n - j \in below
    OBVIOUS
  <1>5. \A j \in T : n - i <= n - j
    BY <1>2, <1>3, <1>4
  <1> QED
    BY <1>5

-----------------------------------------------------------------------------
(* The receipt's text: both decoders take what Canonical writes, and only  *)
(* of a receipt that their own rules admit.                                *)

AnyField ==
    [name : {Text!Names[i] : i \in 1 .. 7} \cup {"other"}, value : Int, escaped : BOOLEAN]

AnyText == [fields : Seq(AnyField), spaced : BOOLEAN, after : {"nothing", "space", "object"}]

LEMMA FieldIs ==
    ASSUME NEW n, NEW v
    PROVE  Text!field(n, v).name = n /\ Text!field(n, v).value = v
  BY DEF Text!field

LEMMA FieldIsAny ==
    ASSUME NEW n \in {Text!Names[i] : i \in 1 .. 7} \cup {"other"}, NEW v \in Int
    PROVE  Text!field(n, v) \in AnyField
  BY DEF Text!field, AnyField

LEMMA NameList ==
    /\ Len(Text!Names) = 7 /\ DOMAIN Text!Names = 1 .. 7
    /\ Text!ToSet(Text!Names) = {Text!Names[i] : i \in 1 .. 7}
    /\ \A i, j \in 1 .. 7 : Text!Names[i] = Text!Names[j] => i = j
    /\ Text!Names[7] = "signature"
    /\ Text!Unsigned = {Text!Names[i] : i \in 1 .. 6}
  <1>1. \A i \in 1 .. 7 : i = 1 \/ i = 2 \/ i = 3 \/ i = 4 \/ i = 5 \/ i = 6 \/ i = 7
    OBVIOUS
  <1>2. Len(Text!Names) = 7 /\ DOMAIN Text!Names = 1 .. 7 /\ Text!Names[7] = "signature"
    BY DEF Text!Names
  <1>3. Text!ToSet(Text!Names) = {Text!Names[i] : i \in 1 .. 7}
    BY <1>2 DEF Text!ToSet
  <1>4. \A i, j \in 1 .. 7 : Text!Names[i] = Text!Names[j] => i = j
    BY <1>1 DEF Text!Names
  <1>5. Text!Unsigned = {Text!Names[i] : i \in 1 .. 6}
    <2>1. \A i \in 1 .. 7 : i = 7 \/ i \in 1 .. 6
      OBVIOUS
    <2>2. 7 \in 1 .. 7 /\ 7 \notin 1 .. 6 /\ \A i \in 1 .. 6 : i \in 1 .. 7
      OBVIOUS
    <2> QED
      BY <1>2, <1>3, <1>4, <2>1, <2>2 DEF Text!Unsigned
  <1> QED
    BY <1>2, <1>3, <1>4, <1>5

(* What an encoder writes, field by field.                                 *)
LEMMA WritesFields ==
    ASSUME NEW r, NEW n \in 1 .. 7, NEW fields,
           fields = [i \in 1 .. n |-> Text!field(Text!Names[i], r[Text!Names[i]])]
    PROVE  /\ Len(fields) = n /\ DOMAIN fields = 1 .. n
           /\ \A i \in 1 .. n : fields[i] = Text!field(Text!Names[i], r[Text!Names[i]])
  <1>1. /\ DOMAIN fields = 1 .. n /\ n \in Nat
        /\ \A i \in 1 .. n : fields[i] = Text!field(Text!Names[i], r[Text!Names[i]])
    OBVIOUS
  <1>2. Len(fields) = n
    <2> DEFINE S == {fields[i] : i \in 1 .. n}
    <2>1. \A i \in 1 .. n : fields[i] \in S
      OBVIOUS
    <2>2. fields = [i \in 1 .. n |-> fields[i]]
      OBVIOUS
    <2> HIDE DEF S
    <2>3. [i \in 1 .. n |-> fields[i]] \in Seq(S)
      BY <1>1, <2>1, IsASeq
    <2> QED
      BY <1>1, <2>2, <2>3, LenProperties
  <1> QED
    BY <1>1, <1>2

LEMMA CanonicalIs ==
    ASSUME NEW r, NEW text, text = Text!Canonical(r)
    PROVE  /\ text = [fields |-> text.fields, spaced |-> FALSE, after |-> "nothing"]
           /\ text.spaced = FALSE /\ text.after = "nothing"
           /\ text.fields = [i \in 1 .. 7 |-> Text!field(Text!Names[i], r[Text!Names[i]])]
           /\ Len(text.fields) = 7 /\ DOMAIN text.fields = 1 .. 7
           /\ \A i \in 1 .. 7 : text.fields[i] = Text!field(Text!Names[i], r[Text!Names[i]])
  <1> DEFINE fields == [i \in 1 .. 7 |-> Text!field(Text!Names[i], r[Text!Names[i]])]
  <1>1. text = [fields |-> fields, spaced |-> FALSE, after |-> "nothing"]
    BY NameList DEF Text!Canonical
  <1> HIDE DEF fields
  <1>2. text.fields = fields /\ text.spaced = FALSE /\ text.after = "nothing"
    BY <1>1
  <1>3. text.fields = [i \in 1 .. 7 |-> Text!field(Text!Names[i], r[Text!Names[i]])]
    BY <1>2 DEF fields
  <1> DEFINE written == text.fields
  <1>4. /\ Len(written) = 7 /\ DOMAIN written = 1 .. 7
        /\ \A i \in 1 .. 7 : written[i] = Text!field(Text!Names[i], r[Text!Names[i]])
    <2> HIDE DEF written
    <2>1. written = [i \in 1 .. 7 |-> Text!field(Text!Names[i], r[Text!Names[i]])]
      BY <1>3 DEF written
    <2> QED
      BY <2>1, WritesFields
  <1> QED
    BY <1>1, <1>2, <1>3, <1>4

(* Of a name that occurs once, the field that has it is kept.              *)
LEMMA KeptIs ==
    ASSUME NEW f, NEW n \in Nat, Len(f) = n, NEW k \in 1 .. n,
           \A i \in 1 .. n : f[i].name = f[k].name => i = k
    PROVE  Text!Kept(f, f[k].name) = f[k].value
  <1> DEFINE last(i) == /\ f[i].name = f[k].name
                        /\ \A j \in i + 1 .. n : f[j].name # f[k].name
  <1>1. last(k)
    <2>1. \A j \in k + 1 .. n : j \in 1 .. n /\ j # k
      OBVIOUS
    <2> QED
      BY <2>1
  <1>2. \A i \in 1 .. n : last(i) => i = k
    OBVIOUS
  <1>3. (CHOOSE i \in 1 .. n : last(i)) = k
    <2> HIDE DEF last
    <2> QED
      BY <1>1, <1>2
  <1> QED
    BY <1>3 DEF Text!Kept

(* Fields with the first names of the list, in order: what is kept of them.*)
LEMMA KeptOfNames ==
    ASSUME NEW f, NEW n \in 1 .. 7, Len(f) = n, DOMAIN f = 1 .. n,
           \A i \in 1 .. n : f[i].name = Text!Names[i]
    PROVE  /\ \A i \in 1 .. n : Text!Kept(f, Text!Names[i]) = f[i].value
           /\ Text!ToSet(Text!FieldNames(f)) = {Text!Names[i] : i \in 1 .. n}
           /\ Text!IsInjective(Text!FieldNames(f))
  <1>1. \A i \in 1 .. n : i \in 1 .. 7
    OBVIOUS
  <1>2. \A i, j \in 1 .. n : f[i].name = f[j].name => i = j
    BY <1>1, NameList
  <1>3. ASSUME NEW k \in 1 .. n PROVE Text!Kept(f, Text!Names[k]) = f[k].value
    <2>1. \A i \in 1 .. n : f[i].name = f[k].name => i = k
      BY <1>2
    <2>2. Text!Kept(f, f[k].name) = f[k].value
      BY <2>1, KeptIs
    <2> QED
      BY <2>2
  <1>4. Text!FieldNames(f) = [i \in 1 .. n |-> f[i].name]
    BY DEF Text!FieldNames
  <1>5. Text!ToSet(Text!FieldNames(f)) = {Text!Names[i] : i \in 1 .. n}
    BY <1>4 DEF Text!ToSet
  <1>6. Text!IsInjective(Text!FieldNames(f))
    BY <1>2, <1>4 DEF Text!IsInjective
  <1> QED
    BY <1>3, <1>5, <1>6

Read(text) == Text!ReceiptOf(text.fields, Text!ToSet(Text!Names))

LEMMA ReadIs ==
    ASSUME NEW text, Len(text.fields) = 7, DOMAIN text.fields = 1 .. 7,
           \A i \in 1 .. 7 : text.fields[i].name = Text!Names[i]
    PROVE  \A i \in 1 .. 7 : Read(text)[Text!Names[i]] = text.fields[i].value
  <1> DEFINE f == text.fields
  <1>1. \A i \in 1 .. 7 : Text!Kept(f, Text!Names[i]) = f[i].value
    BY KeptOfNames
  <1> QED
    BY <1>1, NameList DEF Read, Text!ReceiptOf

LEMMA GoTakes ==
    ASSUME NEW text
    PROVE  Text!ParseReceiptBytes(text) <=>
               text = Text!Canonical(Read(text)) /\ Text!validateReceipt(Read(text))
  <1>1. ASSUME Text!ParseReceiptBytes(text)
        PROVE  text = Text!Canonical(Read(text)) /\ Text!validateReceipt(Read(text))
    BY <1>1 DEF Text!ParseReceiptBytes, Read
  <1>2. ASSUME text = Text!Canonical(Read(text)), Text!validateReceipt(Read(text))
        PROVE  Text!ParseReceiptBytes(text)
    <2>1. /\ text.after = "nothing"
          /\ Len(text.fields) = 7 /\ DOMAIN text.fields = 1 .. 7
          /\ \A i \in 1 .. 7 : text.fields[i].name = Text!Names[i]
      <3> DEFINE r == Read(text)
      <3> HIDE DEF r
      <3>1. text = Text!Canonical(r)
        BY <1>2 DEF r
      <3>2. /\ text.after = "nothing" /\ Len(text.fields) = 7 /\ DOMAIN text.fields = 1 .. 7
            /\ \A i \in 1 .. 7 : text.fields[i] = Text!field(Text!Names[i], r[Text!Names[i]])
        BY <3>1, CanonicalIs
      <3> QED
        BY <3>2, FieldIs
    <2> DEFINE f == text.fields
    <2>2. Text!ToSet(Text!FieldNames(f)) = {Text!Names[i] : i \in 1 .. 7}
      BY <2>1, KeptOfNames
    <2>3. Text!decodeExactReceiptObject(text)
      BY <2>1, <2>2, NameList DEF Text!decodeExactReceiptObject
    <2> QED
      BY <1>2, <2>3 DEF Text!ParseReceiptBytes, Read
  <1> QED
    BY <1>1, <1>2

(* What Swift asks of a receipt.                                           *)
SwiftValid(r) == r.schema_version = 3 /\ Text!validate(r) /\ r.signature = 1

LEMMA SwiftNeeds ==
    ASSUME NEW text \in AnyText, Text!receiptInit(text)
    PROVE  text = Text!Canonical(Read(text)) /\ SwiftValid(Read(text))
  <1> DEFINE fields == text.fields
             at == Text!SignatureAt(text)
             cut == Text!Cut(text)
             head == SubSeq(fields, 1, cut - 1)
             tail == SubSeq(fields, cut, Len(fields))
             U == Text!ReceiptOf(head, Text!Unsigned)
             R == Read(text)
  <1>1. fields \in Seq(AnyField) /\ Len(fields) \in Nat /\ DOMAIN fields = 1 .. Len(fields)
    BY LenProperties DEF AnyText
  <1>2. /\ text.after = "nothing" /\ at # {}
        /\ Text!unsignedReceipt(head, text.spaced) /\ Text!signatureSuffix(tail)
    BY DEF Text!receiptInit
  <1>3. cut \in at /\ cut \in 2 .. Len(fields)
    <2>1. at \in SUBSET (1 .. Len(fields)) /\ at \in SUBSET (2 .. Len(fields)) /\ at # {}
      BY <1>1, <1>2 DEF Text!SignatureAt
    <2>2. \E i \in at : \A j \in at : j <= i
      <3> HIDE DEF at, fields
      <3> QED
        BY <1>1, <2>1, GreatestOf
    <2>3. cut \in at
      <3> HIDE DEF at
      <3> QED
        BY <2>2 DEF Text!Cut, at
    <2> QED
      BY <2>1, <2>3
  <1>4. /\ Len(head) = cut - 1 /\ \A i \in 1 .. cut - 1 : head[i] = fields[i]
        /\ Len(tail) = Len(fields) - cut + 1 /\ tail[1] = fields[cut]
    <2>1. \A i \in 1 .. Len(fields) : fields[i] \in AnyField
      BY <1>1
    <2> HIDE DEF fields, cut
    <2>2. Len(head) = cut - 1 /\ \A i \in 1 .. cut - 1 : head[i] = fields[i]
      BY <1>1, <1>3, <2>1, SubSeqProperties
    <2>3. Len(tail) = Len(fields) - cut + 1 /\ tail[1] = fields[cut]
      BY <1>1, <1>3, <2>1, SubSeqProperties
    <2> QED
      BY <2>2, <2>3
  <1>5. head = Text!encodedSigningBytes(U) /\ text.spaced = FALSE /\ U.schema_version = 3 /\ Text!validate(U)
    <2>1. text.spaced \in BOOLEAN
      BY DEF AnyText
    <2> QED
      BY <1>2, <2>1 DEF Text!unsignedReceipt
  <1>6. tail = <<Text!field("signature", 1)>>
    BY <1>2 DEF Text!signatureSuffix
  <1>7. /\ Len(head) = 6
        /\ \A i \in 1 .. 6 : head[i] = Text!field(Text!Names[i], U[Text!Names[i]])
    <2> HIDE DEF U, head
    <2>1. head = [i \in 1 .. 6 |-> Text!field(Text!Names[i], U[Text!Names[i]])]
      BY <1>5, NameList DEF Text!encodedSigningBytes
    <2> QED
      BY <2>1, WritesFields
  <1>8. cut = 7 /\ Len(fields) = 7
    <2> HIDE DEF head, tail, cut, fields
    <2>1. Len(tail) = 1
      BY <1>6
    <2>2. Len(head) = cut - 1 /\ Len(head) = 6 /\ Len(tail) = Len(fields) - cut + 1
      BY <1>4, <1>7
    <2>3. cut \in Int /\ Len(fields) \in Int
      BY <1>1, <1>3
    <2> DEFINE before == Len(head)
               behind == Len(tail)
               all == Len(fields)
    <2>4. before = cut - 1 /\ before = 6 /\ behind = all - cut + 1 /\ behind = 1 /\ all \in Int
      BY <2>1, <2>2, <2>3
    <2> HIDE DEF before, behind, all
    <2>5. cut = 7 /\ all = 7
      BY <2>3, <2>4
    <2> QED
      BY <2>5 DEF all
  <1>9. /\ \A i \in 1 .. 6 : fields[i] = Text!field(Text!Names[i], U[Text!Names[i]])
        /\ fields[7] = Text!field(Text!Names[7], 1)
    <2> HIDE DEF head, tail, cut, fields, U
    <2>1. tail[1] = Text!field("signature", 1)
      BY <1>6
    <2> QED
      BY <1>4, <1>7, <1>8, <2>1, NameList
  <1>10. \A i \in 1 .. 7 : i \in 1 .. 6 \/ i = 7
    OBVIOUS
  <1>11. \A i \in 1 .. 7 : fields[i].name = Text!Names[i]
    <2> HIDE DEF fields, U
    <2> QED
      BY <1>9, <1>10, FieldIs
  <1>12. \A i \in 1 .. 7 : R[Text!Names[i]] = fields[i].value
    <2>1. DOMAIN fields = 1 .. 7
      BY <1>1, <1>8
    <2> QED
      BY <1>8, <1>11, <2>1, ReadIs
  <1>13. \A i \in 1 .. 7 : fields[i] = Text!field(Text!Names[i], R[Text!Names[i]])
    <2> HIDE DEF fields, U, R
    <2>1. \A i \in 1 .. 7 : \E v : fields[i] = Text!field(Text!Names[i], v)
      BY <1>9, <1>10
    <2>2. ASSUME NEW i \in 1 .. 7 PROVE fields[i] = Text!field(Text!Names[i], R[Text!Names[i]])
      <3>1. PICK v : fields[i] = Text!field(Text!Names[i], v)
        BY <2>1
      <3>2. fields[i].value = v
        BY <3>1, FieldIs
      <3> QED
        BY <1>12, <3>1, <3>2
    <2> QED
      BY <2>2
  <1>14. text = Text!Canonical(R)
    <2>1. text = [fields |-> fields, spaced |-> FALSE, after |-> "nothing"]
      BY <1>2, <1>5 DEF AnyText
    <2>2. fields = [i \in 1 .. 7 |-> Text!field(Text!Names[i], R[Text!Names[i]])]
      <3> HIDE DEF fields, R
      <3>1. fields = [i \in 1 .. 7 |-> fields[i]]
        BY <1>1, <1>8
      <3> QED
        BY <1>13, <3>1
    <2> HIDE DEF fields, R
    <2> QED
      BY <2>1, <2>2, NameList DEF Text!Canonical
  <1>15. SwiftValid(R)
    <2>1. \A i \in 1 .. 6 : R[Text!Names[i]] = U[Text!Names[i]]
      <3> HIDE DEF fields, U, R
      <3> QED
        BY <1>9, <1>12, FieldIs
    <2>2. R[Text!Names[7]] = 1
      <3> HIDE DEF fields, U, R
      <3> QED
        BY <1>9, <1>12, FieldIs
    <2> HIDE DEF fields, U, R
    <2>3. /\ R.schema_version = U.schema_version /\ R.ids = U.ids /\ R.registry_revision = U.registry_revision
          /\ R.issued_at = U.issued_at /\ R.expires_at = U.expires_at
          /\ R.key_generation = U.key_generation /\ R.signature = 1
      BY <2>1, <2>2 DEF Text!Names
    <2> QED
      BY <1>5, <2>3 DEF SwiftValid, Text!validate
  <1> QED
    BY <1>14, <1>15

LEMMA SwiftTakes ==
    ASSUME NEW text \in AnyText, text = Text!Canonical(Read(text)), SwiftValid(Read(text))
    PROVE  Text!receiptInit(text)
  <1> DEFINE fields == text.fields
             at == Text!SignatureAt(text)
             head == SubSeq(fields, 1, 6)
             tail == SubSeq(fields, 7, 7)
             U == Text!ReceiptOf(head, Text!Unsigned)
             R == Read(text)
  <1>1. /\ text.after = "nothing" /\ text.spaced = FALSE
        /\ Len(fields) = 7 /\ DOMAIN fields = 1 .. 7
        /\ \A i \in 1 .. 7 : fields[i] = Text!field(Text!Names[i], R[Text!Names[i]])
    <2> HIDE DEF R
    <2>1. text = Text!Canonical(R)
      BY DEF R
    <2> QED
      BY <2>1, CanonicalIs
  <1>2. \A i \in 1 .. 7 : fields[i].name = Text!Names[i] /\ fields[i].value = R[Text!Names[i]]
    <2> HIDE DEF fields, R
    <2> QED
      BY <1>1, FieldIs
  <1>3. at = {7}
    <2>1. \A i \in 2 .. 7 : fields[i].name = "signature" <=> i = 7
      <3>1. \A i \in 2 .. 7 : i \in 1 .. 7
        OBVIOUS
      <3>2. 7 \in 1 .. 7
        OBVIOUS
      <3> HIDE DEF fields, R
      <3> QED
        BY <1>2, <3>1, <3>2, NameList
    <2>2. at = {i \in 2 .. 7 : fields[i].name = "signature"}
      BY <1>1 DEF Text!SignatureAt
    <2>3. 7 \in 2 .. 7
      OBVIOUS
    <2> HIDE DEF fields, at
    <2> QED
      BY <2>1, <2>2, <2>3
  <1>4. Text!Cut(text) = 7
    <2> HIDE DEF at
    <2> QED
      BY <1>3 DEF Text!Cut, at
  <1>5. \A i \in 1 .. 7 : fields[i] \in AnyField
    BY <1>1, ElementOfSeq DEF AnyText
  <1>6. /\ Len(head) = 6 /\ DOMAIN head = 1 .. 6 /\ \A i \in 1 .. 6 : head[i] = fields[i]
        /\ tail \in Seq(AnyField) /\ Len(tail) = 1 /\ tail[1] = fields[7] /\ head \in Seq(AnyField)
    <2> HIDE DEF fields
    <2>1. head \in Seq(AnyField) /\ Len(head) = 6 /\ \A i \in 1 .. 6 : head[i] = fields[i]
      BY <1>5, SubSeqProperties
    <2>2. tail \in Seq(AnyField) /\ Len(tail) = 1 /\ tail[1] = fields[7]
      BY <1>5, SubSeqProperties
    <2> HIDE DEF head
    <2>3. DOMAIN head = 1 .. 6
      BY <2>1, LenProperties
    <2> QED
      BY <2>1, <2>2, <2>3
  <1>7. /\ \A i \in 1 .. 6 : Text!Kept(head, Text!Names[i]) = head[i].value
        /\ Text!ToSet(Text!FieldNames(head)) = {Text!Names[i] : i \in 1 .. 6}
        /\ Text!IsInjective(Text!FieldNames(head))
    <2>1. \A i \in 1 .. 6 : head[i].name = Text!Names[i]
      <3> HIDE DEF head, fields, R
      <3> QED
        BY <1>2, <1>6
    <2> HIDE DEF head
    <2> QED
      BY <1>6, <2>1, KeptOfNames
  <1>8. \A i \in 1 .. 6 : U[Text!Names[i]] = R[Text!Names[i]]
    <2>1. \A i \in 1 .. 6 : head[i].value = R[Text!Names[i]]
      <3> HIDE DEF head, fields, R
      <3> QED
        BY <1>2, <1>6
    <2> HIDE DEF head, R
    <2>2. \A i \in 1 .. 6 : U[Text!Names[i]] = Text!Kept(head, Text!Names[i])
      BY NameList DEF Text!ReceiptOf
    <2> HIDE DEF U
    <2> QED
      BY <1>7, <2>1, <2>2
  <1>9. U.schema_version = 3 /\ Text!validate(U)
    <2> HIDE DEF U, R
    <2>1. /\ R.schema_version = U.schema_version /\ R.ids = U.ids /\ R.registry_revision = U.registry_revision
          /\ R.issued_at = U.issued_at /\ R.expires_at = U.expires_at
          /\ R.key_generation = U.key_generation
      BY <1>8 DEF Text!Names
    <2>2. SwiftValid(R)
      BY DEF R
    <2> QED
      BY <2>1, <2>2 DEF SwiftValid, Text!validate
  <1>10. head = Text!encodedSigningBytes(U)
    <2>1. \A i \in 1 .. 6 : head[i] = Text!field(Text!Names[i], U[Text!Names[i]])
      <3> HIDE DEF head, fields, U, R
      <3> QED
        BY <1>1, <1>6, <1>8
    <2>2. head = [i \in 1 .. 6 |-> head[i]]
      <3> HIDE DEF head
      <3> QED
        BY <1>6, LenProperties
    <2> HIDE DEF head, U
    <2>3. Text!encodedSigningBytes(U) = [i \in 1 .. 6 |-> Text!field(Text!Names[i], U[Text!Names[i]])]
      BY NameList DEF Text!encodedSigningBytes
    <2> QED
      BY <2>1, <2>2, <2>3
  <1>11. tail = <<Text!field("signature", 1)>>
    <2>1. tail[1] = Text!field("signature", 1)
      <3>1. R[Text!Names[7]] = 1
        BY DEF SwiftValid, Text!Names
      <3> HIDE DEF tail, fields, R
      <3> QED
        BY <1>1, <1>6, <3>1, NameList
    <2> HIDE DEF tail
    <2> QED
      BY <1>6, <2>1
  <1>12. Text!unsignedReceipt(head, text.spaced)
    <2> HIDE DEF head
    <2> QED
      BY <1>1, <1>7, <1>9, <1>10, NameList DEF Text!unsignedReceipt
  <1> HIDE DEF head, tail
  <1>13. SubSeq(text.fields, 1, Text!Cut(text) - 1) = head /\ SubSeq(text.fields, Text!Cut(text), Len(text.fields)) = tail
    BY <1>1, <1>4 DEF head, tail
  <1> QED
    BY <1>1, <1>3, <1>11, <1>12, <1>13 DEF Text!receiptInit, Text!signatureSuffix

(* Any text of any number of fields.                                       *)
TextIInv == received \in AnyText

LEMMA ValuesAreIntegers == \A n \in {Text!Names[i] : i \in 1 .. 7} \cup {"other"} : Text!Values(n) \subseteq Int
  <1>1. MaxRevision \in Nat /\ MaximumReceiptTTL \in Nat
    BY ExchangeAssumption DEF Exchange!ApprovalAssumption
  <1> TAKE n \in {Text!Names[i] : i \in 1 .. 7} \cup {"other"}
  <1>2. CASE n = "schema_version"
    BY <1>2 DEF Text!Values
  <1>3. CASE n \in {"registry_revision", "key_generation"}
    BY <1>1, <1>3 DEF Text!Values
  <1>4. CASE n \in {"issued_at", "expires_at"}
    BY <1>1, <1>4 DEF Text!Values
  <1>5. CASE n \notin {"schema_version", "registry_revision", "key_generation", "issued_at", "expires_at"}
    BY <1>5 DEF Text!Values
  <1> QED
    BY <1>2, <1>3, <1>4, <1>5

LEMMA FieldsAreAny == Text!Fields \subseteq AnyField
  <1> DEFINE names == {Text!Names[i] : i \in 1 .. 7} \cup {"other"}
             spelled(n) == IF n \in Text!Numbers THEN {FALSE} ELSE BOOLEAN
  <1>1. Text!Fields = UNION {[name : {n}, value : Text!Values(n), escaped : spelled(n)] : n \in names}
    BY NameList DEF Text!Fields
  <1>2. ASSUME NEW n \in names
        PROVE  [name : {n}, value : Text!Values(n), escaped : spelled(n)] \subseteq AnyField
    <2>1. Text!Values(n) \subseteq Int /\ spelled(n) \subseteq BOOLEAN
      BY ValuesAreIntegers
    <2> HIDE DEF spelled
    <2> QED
      BY <2>1 DEF AnyField
  <1> HIDE DEF names, spelled
  <1> QED
    BY <1>1, <1>2

LEMMA TextInit == Text!Init => TextIInv
  <1> SUFFICES ASSUME NEW r \in Text!Claims, NEW text, text = Text!Canonical(r) PROVE text \in AnyText
    BY DEF Text!Init, TextIInv
  <1>1. /\ text = [fields |-> text.fields, spaced |-> FALSE, after |-> "nothing"]
        /\ Len(text.fields) = 7 /\ DOMAIN text.fields = 1 .. 7
        /\ text.fields = [i \in 1 .. 7 |-> Text!field(Text!Names[i], r[Text!Names[i]])]
        /\ \A i \in 1 .. 7 : text.fields[i] = Text!field(Text!Names[i], r[Text!Names[i]])
    BY CanonicalIs
  <1>2. \A i \in 1 .. 7 : r[Text!Names[i]] \in Int
    <2>1. Text!Values("registry_revision") \subseteq Int /\ Text!Values("key_generation") \subseteq Int
          /\ Text!Values("issued_at") \subseteq Int /\ Text!Values("expires_at") \subseteq Int
      <3>1. {"registry_revision", "key_generation", "issued_at", "expires_at"}
                \subseteq {Text!Names[3], Text!Names[4], Text!Names[5], Text!Names[6]}
        BY DEF Text!Names
      <3> QED
        BY <3>1, ValuesAreIntegers
    <2>2. /\ r.schema_version \in Int /\ r.ids \in Int /\ r.signature \in Int
          /\ r.registry_revision \in Int /\ r.key_generation \in Int
          /\ r.issued_at \in Int /\ r.expires_at \in Int
      BY <2>1 DEF Text!Claims
    <2>3. \A i \in 1 .. 7 : i = 1 \/ i = 2 \/ i = 3 \/ i = 4 \/ i = 5 \/ i = 6 \/ i = 7
      OBVIOUS
    <2> QED
      BY <2>2, <2>3 DEF Text!Names
  <1>3. \A i \in 1 .. 7 : text.fields[i] \in AnyField
    BY <1>1, <1>2, FieldIsAny
  <1> DEFINE fields == text.fields
  <1>4. fields \in Seq(AnyField)
    <2>1. DOMAIN fields = 1 .. 7 /\ fields = [i \in 1 .. 7 |-> fields[i]]
      BY <1>1
    <2> HIDE DEF fields
    <2>2. \A i \in 1 .. 7 : fields[i] \in AnyField
      BY <1>3 DEF fields
    <2>3. [i \in 1 .. 7 |-> fields[i]] \in Seq(AnyField)
      BY <2>2, IsASeq
    <2> QED
      BY <2>1, <2>3
  <1>5. text = [fields |-> fields, spaced |-> FALSE, after |-> "nothing"]
    BY <1>1
  <1> HIDE DEF fields
  <1> QED
    BY <1>4, <1>5 DEF AnyText

(* An edit leaves a sequence of fields.                                    *)
LEMMA EditsAreTexts ==
    ASSUME NEW fields \in Seq(AnyField), NEW edited \in Text!Edits(fields)
    PROVE  edited \in Seq(AnyField)
  <1>1. Len(fields) \in Nat /\ \A i \in 1 .. Len(fields) : fields[i] \in AnyField
    BY LenProperties, ElementOfSeq
  <1>2. ASSUME NEW m \in Int, NEW n \in Int, 1 <= m, n <= Len(fields)
        PROVE  SubSeq(fields, m, n) \in Seq(AnyField)
    <2>1. \A i \in m .. n : fields[i] \in AnyField
      BY <1>1, <1>2
    <2> QED
      BY <2>1, SubSeqProperties
  <1>3. ASSUME NEW i \in 1 .. Len(fields), NEW f \in Text!Fields
        PROVE  Text!ReplaceAt(fields, i, f) \in Seq(AnyField)
    BY FieldsAreAny, ExceptSeq DEF Text!ReplaceAt
  <1>4. ASSUME NEW i \in 1 .. Len(fields) + 1, NEW f \in Text!Fields
        PROVE  Text!InsertAt(fields, i, f) \in Seq(AnyField)
    <2>1. SubSeq(fields, 1, i - 1) \in Seq(AnyField) /\ SubSeq(fields, i, Len(fields)) \in Seq(AnyField)
      BY <1>1, <1>2
    <2>2. <<f>> \in Seq(AnyField)
      BY FieldsAreAny
    <2> QED
      BY <2>1, <2>2, ConcatProperties DEF Text!InsertAt
  <1>5. ASSUME NEW i \in 1 .. Len(fields)
        PROVE  Text!RemoveAt(fields, i) \in Seq(AnyField)
    <2>1. SubSeq(fields, 1, i - 1) \in Seq(AnyField) /\ SubSeq(fields, i + 1, Len(fields)) \in Seq(AnyField)
      BY <1>1, <1>2
    <2> QED
      BY <2>1, ConcatProperties DEF Text!RemoveAt
  <1>6. ASSUME NEW i \in 1 .. Len(fields), NEW j \in 1 .. Len(fields)
        PROVE  [fields EXCEPT ![i] = fields[j], ![j] = fields[i]] \in Seq(AnyField)
    <2>1. /\ [fields EXCEPT ![i] = fields[j]] \in Seq(AnyField)
          /\ Len([fields EXCEPT ![i] = fields[j]]) = Len(fields)
      BY <1>1, ExceptSeq
    <2> DEFINE once == [fields EXCEPT ![i] = fields[j]]
    <2>2. [once EXCEPT ![j] = fields[i]] \in Seq(AnyField)
      <3> HIDE DEF once
      <3>1. once \in Seq(AnyField) /\ j \in 1 .. Len(once) /\ fields[i] \in AnyField
        BY <1>1, <2>1 DEF once
      <3> QED
        BY <3>1, ExceptSeq
    <2> QED
      BY <2>2
  <1> DEFINE places == 1 .. Len(fields)
  <1>7. \/ edited \in {Text!ReplaceAt(fields, i, f) : i \in places, f \in Text!Fields}
        \/ edited \in {Text!InsertAt(fields, i, f) : i \in 1 .. Len(fields) + 1, f \in Text!Fields}
        \/ edited \in {Text!RemoveAt(fields, i) : i \in places}
        \/ edited \in {[fields EXCEPT ![i] = fields[j], ![j] = fields[i]] : i, j \in places}
    BY DEF Text!Edits
  <1>8. CASE edited \in {Text!ReplaceAt(fields, i, f) : i \in places, f \in Text!Fields}
    BY <1>3, <1>8
  <1>9. CASE edited \in {Text!InsertAt(fields, i, f) : i \in 1 .. Len(fields) + 1, f \in Text!Fields}
    BY <1>4, <1>9
  <1>10. CASE edited \in {Text!RemoveAt(fields, i) : i \in places}
    BY <1>5, <1>10
  <1>11. CASE edited \in {[fields EXCEPT ![i] = fields[j], ![j] = fields[i]] : i, j \in places}
    BY <1>6, <1>11
  <1> QED
    BY <1>7, <1>8, <1>9, <1>10, <1>11

LEMMA TextStep == TextIInv /\ [Text!Next]_received => TextIInv'
  <1> SUFFICES ASSUME TextIInv, [Text!Next]_received PROVE TextIInv'
    OBVIOUS
  <1>1. received.fields \in Seq(AnyField)
    BY DEF TextIInv, AnyText
  <1>2. ASSUME NEW fields \in Text!Edits(received.fields), received' = [received EXCEPT !.fields = fields]
        PROVE  TextIInv'
    <2>1. fields \in Seq(AnyField)
      BY <1>1, EditsAreTexts
    <2> QED
      BY <1>2, <2>1 DEF TextIInv, AnyText
  <1>3. CASE received' = [received EXCEPT !.spaced = TRUE]
    BY <1>3 DEF TextIInv, AnyText
  <1>4. ASSUME NEW after \in {"space", "object"}, received' = [received EXCEPT !.after = after]
        PROVE  TextIInv'
    BY <1>4 DEF TextIInv, AnyText
  <1>5. CASE UNCHANGED received
    BY <1>5 DEF TextIInv
  <1> QED
    BY <1>2, <1>3, <1>4, <1>5 DEF Text!Next

(* The rules of the two programs, side by side.                            *)
LEMMA RulesDiffer ==
    ASSUME NEW r, r.issued_at \in Int, r.expires_at \in Int, r.registry_revision \in Int, r.key_generation \in Int
    PROVE  Text!validateReceipt(r) <=> SwiftValid(r) /\ r.issued_at # 0
  <1>1. MaxRevision \in Nat /\ MaximumReceiptTTL \in Nat
    BY ExchangeAssumption DEF Exchange!ApprovalAssumption
  <1> QED
    BY <1>1 DEF Text!validateReceipt, SwiftValid, Text!validate, Text!canonicalReceiptTime,
       Text!wholeSecondUTCValue, Text!validRegistryRevision, Text!keyGenerationRevision

LEMMA TextAgrees == TextIInv => Text!TextInv
  <1> SUFFICES ASSUME TextIInv PROVE Text!TextInv
    OBVIOUS
  <1> DEFINE R == Read(received)
  <1>1. Text!ParseReceiptBytes(received) <=> received = Text!Canonical(R) /\ Text!validateReceipt(R)
    BY GoTakes
  <1>2. Text!receiptInit(received) <=> received = Text!Canonical(R) /\ SwiftValid(R)
    BY SwiftNeeds, SwiftTakes DEF TextIInv
  <1>3. ASSUME received = Text!Canonical(R)
        PROVE  /\ Text!validateReceipt(R) <=> SwiftValid(R) /\ R.issued_at # 0
               /\ Text!AtZeroInstant(received) <=> R.issued_at = 0
    <2> HIDE DEF R
    <2>1. /\ Len(received.fields) = 7
          /\ \A i \in 1 .. 7 : received.fields[i] = Text!field(Text!Names[i], R[Text!Names[i]])
      BY <1>3, CanonicalIs
    <2>2. \A i \in 1 .. 7 : R[Text!Names[i]] \in Int
      <3>1. \A i \in 1 .. 7 : received.fields[i] \in AnyField
        BY <2>1, ElementOfSeq DEF TextIInv, AnyText
      <3>2. \A i \in 1 .. 7 : received.fields[i].value \in Int
        BY <3>1 DEF AnyField
      <3>3. \A i \in 1 .. 7 : received.fields[i].value = R[Text!Names[i]]
        BY <2>1, FieldIs
      <3> QED
        BY <3>2, <3>3
    <2>3. /\ R.issued_at \in Int /\ R.expires_at \in Int /\ R.registry_revision \in Int
          /\ R.key_generation \in Int
      BY <2>2 DEF Text!Names
    <2>4. \A i \in 1 .. 7 : received.fields[i].name = "issued_at" <=> i = 4
      <3>1. Text!Names[4] = "issued_at" /\ 4 \in 1 .. 7
        BY DEF Text!Names
      <3>2. \A i \in 1 .. 7 : received.fields[i].name = Text!Names[i]
        BY <2>1, FieldIs
      <3> QED
        BY <3>1, <3>2, NameList
    <2>5. received.fields[4].value = R.issued_at
      <3>1. Text!Names[4] = "issued_at" /\ 4 \in 1 .. 7
        BY DEF Text!Names
      <3> QED
        BY <2>1, <3>1, FieldIs
    <2>6. Text!AtZeroInstant(received) <=> R.issued_at = 0
      <3>1. 4 \in 1 .. 7
        OBVIOUS
      <3> QED
        BY <2>1, <2>4, <2>5, <3>1 DEF Text!AtZeroInstant
    <2> QED
      BY <2>3, <2>6, RulesDiffer
  <1>4. Text!SameTexts
    <2> HIDE DEF R
    <2> QED
      BY <1>1, <1>2, <1>3 DEF Text!SameTexts
  <1>5. Text!OneText
    BY <1>1, <1>2 DEF Text!OneText, Read
  <1> QED
    BY <1>4, <1>5 DEF Text!TextInv

-----------------------------------------------------------------------------
(* Signatures: the magnitude of a sequence of digits.                      *)

(* A function can be defined from each number to the next.                 *)
Recursive(n, S, first, next, f) ==
    f \in [0 .. n -> S] /\ f[0] = first /\ \A i \in 1 .. n : f[i] = next[i][f[i - 1]]

LEMMA Recursion ==
    ASSUME NEW n \in Nat, NEW S, NEW first \in S, NEW next \in [1 .. n -> [S -> S]]
    PROVE  \E f : Recursive(n, S, first, next, f)
  <1> DEFINE K == {k \in Nat : k <= n =>
                     \E f \in [0 .. k -> S] : f[0] = first /\ \A i \in 1 .. k : f[i] = next[i][f[i - 1]]}
  <1>1. 0 \in K
    <2> DEFINE f == [i \in 0 .. 0 |-> first]
    <2>1. f \in [0 .. 0 -> S] /\ f[0] = first
      OBVIOUS
    <2>2. \A i \in 1 .. 0 : FALSE
      OBVIOUS
    <2> HIDE DEF f
    <2> QED
      BY <2>1, <2>2
  <1>2. ASSUME NEW k \in K PROVE k + 1 \in K
    <2>1. k \in Nat /\ k + 1 \in Nat
      OBVIOUS
    <2> SUFFICES ASSUME k + 1 <= n
                 PROVE  \E g \in [0 .. k + 1 -> S] :
                          g[0] = first /\ \A i \in 1 .. k + 1 : g[i] = next[i][g[i - 1]]
      BY <2>1
    <2>2. PICK f \in [0 .. k -> S] : f[0] = first /\ \A i \in 1 .. k : f[i] = next[i][f[i - 1]]
      BY <2>1
    <2> DEFINE last == next[k + 1][f[k]]
               g == [i \in 0 .. k + 1 |-> IF i = k + 1 THEN last ELSE f[i]]
    <2>3. last \in S
      <3>1. f[k] \in S /\ k + 1 \in 1 .. n
        BY <2>1
      <3> QED
        BY <3>1
    <2> HIDE DEF last
    <2>4. g \in [0 .. k + 1 -> S]
      BY <2>1, <2>3
    <2>5. g[k + 1] = last /\ \A i \in 0 .. k : g[i] = f[i]
      BY <2>1
    <2> HIDE DEF g
    <2>6. g[0] = first
      BY <2>1, <2>2, <2>5
    <2>7. ASSUME NEW i \in 1 .. k + 1 PROVE g[i] = next[i][g[i - 1]]
      <3>1. CASE i = k + 1
        <4>1. i - 1 = k /\ g[k] = f[k]
          BY <2>1, <2>5, <3>1
        <4> QED
          BY <2>5, <3>1, <4>1 DEF last
      <3>2. CASE i # k + 1
        <4>1. i \in 1 .. k /\ i \in 0 .. k /\ i - 1 \in 0 .. k
          BY <2>1, <3>2
        <4>2. g[i] = f[i] /\ g[i - 1] = f[i - 1]
          BY <2>5, <4>1
        <4> QED
          BY <2>2, <4>1, <4>2
      <3> QED
        BY <3>1, <3>2
    <2> QED
      BY <2>4, <2>6, <2>7
  <1> HIDE DEF K
  <1>3. K = Nat
    <2>1. K \in SUBSET Nat
      BY DEF K
    <2> QED
      BY <1>1, <1>2, <2>1, AllNumbers
  <1> QED
    BY <1>3 DEF K, Recursive

(* What is used of the base and of the order.                              *)
LEMMA BaseOf ==
    /\ Base \in Nat /\ Width \in Nat /\ Width > 0 /\ Order \in Nat /\ Base >= 4
    /\ Base = 2 * (Base \div 2) /\ Base \div 2 \in Nat /\ Base \div 2 >= 2
    /\ Order \div 2 \in Nat /\ Order = 2 * (Order \div 2) + 1
  <1>1. Base \in Nat /\ Base % 2 = 0 /\ Base > 2 /\ Width \in Nat \ {0} /\ Order \in Nat /\ Order % 2 = 1
    BY SignatureAssumption DEF P256!P256Assumption
  <1> QED
    BY <1>1

Valued(d, v) ==
    /\ v \in [0 .. Len(d) -> Nat] /\ v[0] = 0
    /\ \A i \in 1 .. Len(d) : v[i] = v[i - 1] * Base + d[i]

(* The magnitude is what its recursion says.                               *)
LEMMA ValuesOf ==
    ASSUME NEW d \in Seq(P256!Digits)
    PROVE  \E v : Valued(d, v) /\ P256!Magnitude(d) = v[Len(d)]
  <1> DEFINE n == Len(d)
             Rule(f) == f = [i \in 0 .. n |-> IF i = 0 THEN 0 ELSE f[i - 1] * Base + d[i]]
             v == CHOOSE f : Rule(f)
  <1>1. P256!Magnitude(d) = v[n]
    BY DEF P256!Magnitude
  <1>2. n \in Nat /\ \A i \in 1 .. n : d[i] \in Nat
    <2>1. \A i \in 1 .. n : d[i] \in P256!Digits
      BY LenProperties, ElementOfSeq
    <2> QED
      BY <2>1, BaseOf, LenProperties DEF P256!Digits
  <1> HIDE DEF n
  <1>3. \E f : Rule(f)
    <2> DEFINE next == [i \in 1 .. n |-> [m \in Nat |-> m * Base + d[i]]]
    <2>1. next \in [1 .. n -> [Nat -> Nat]]
      <3>1. \A i \in 1 .. n, m \in Nat : m * Base + d[i] \in Nat
        BY <1>2, BaseOf
      <3> QED
        BY <3>1
    <2>2. \A i \in 1 .. n, m \in Nat : next[i][m] = m * Base + d[i]
      OBVIOUS
    <2> HIDE DEF next
    <2>3. PICK f \in [0 .. n -> Nat] : f[0] = 0 /\ \A i \in 1 .. n : f[i] = next[i][f[i - 1]]
      <3>1. \E f : Recursive(n, Nat, 0, next, f)
        BY <1>2, <2>1, Recursion
      <3> QED
        BY <3>1 DEF Recursive
    <2>4. ASSUME NEW i \in 0 .. n PROVE f[i] = IF i = 0 THEN 0 ELSE f[i - 1] * Base + d[i]
      <3>1. CASE i # 0
        <4>1. i \in 1 .. n /\ f[i - 1] \in Nat
          BY <1>2, <3>1
        <4> QED
          BY <2>2, <2>3, <3>1, <4>1
      <3> QED
        BY <2>3, <3>1
    <2>5. f = [i \in 0 .. n |-> IF i = 0 THEN 0 ELSE f[i - 1] * Base + d[i]]
      BY <2>4
    <2> QED
      BY <2>5
  <1>4. Rule(v)
    <2> HIDE DEF Rule
    <2> QED
      BY <1>3
  <1> HIDE DEF v
  <1>5. v[0] = 0 /\ \A i \in 1 .. n : v[i] = v[i - 1] * Base + d[i]
    BY <1>2, <1>4
  <1>6. \A i \in 0 .. n : v[i] \in Nat
    <2> DEFINE K == {k \in Nat : k <= n => v[k] \in Nat}
    <2>1. 0 \in K
      BY <1>5
    <2>2. ASSUME NEW k \in K PROVE k + 1 \in K
      <3> SUFFICES ASSUME k + 1 <= n PROVE v[k + 1] \in Nat
        OBVIOUS
      <3>1. v[k] \in Nat /\ d[k + 1] \in Nat /\ v[k + 1] = v[k] * Base + d[k + 1]
        <4>1. k + 1 \in 1 .. n /\ (k + 1) - 1 = k
          BY <1>2
        <4> QED
          BY <1>2, <1>5, <4>1
      <3> QED
        BY <3>1, BaseOf
    <2> HIDE DEF K
    <2>3. K = Nat
      <3>1. K \in SUBSET Nat
        BY DEF K
      <3> QED
        BY <2>1, <2>2, <3>1, AllNumbers
    <2> QED
      BY <1>2, <2>3 DEF K
  <1>7. v \in [0 .. n -> Nat]
    BY <1>4, <1>6
  <1> QED
    BY <1>1, <1>5, <1>7 DEF Valued, n
LEMMA Scaled == ASSUME NEW x \in Nat, NEW y \in Nat, x < y, NEW b \in Nat PROVE x * b + b <= y * b
  <1>1. PICK k \in Nat : y = x + 1 + k
    <2>1. y - x - 1 \in Nat /\ y = x + 1 + (y - x - 1)
      OBVIOUS
    <2> QED
      BY <2>1
  <1>2. y * b = x * b + b + k * b /\ k * b \in Nat /\ x * b \in Nat
    BY <1>1
  <1> QED
    BY <1>2

LEMMA DigitsOfSeq ==
    ASSUME NEW d \in Seq(P256!Digits)
    PROVE  Len(d) \in Nat /\ \A i \in 1 .. Len(d) : d[i] \in Nat /\ d[i] < Base /\ d[i] \in P256!Digits
  <1>1. \A i \in 1 .. Len(d) : d[i] \in P256!Digits
    BY LenProperties, ElementOfSeq
  <1> QED
    BY <1>1, BaseOf, LenProperties DEF P256!Digits

(* Numbers with as many digits are compared at the first that differs.     *)
Before(a, b, i) == a[i] < b[i] /\ \A j \in 1 .. i - 1 : a[j] = b[j]

LEMMA BeforeIsLess ==
    ASSUME NEW a \in Seq(P256!Digits), NEW b \in Seq(P256!Digits), Len(a) = Len(b),
           NEW i \in 1 .. Len(a), Before(a, b, i)
    PROVE  P256!Magnitude(a) < P256!Magnitude(b)
  <1> DEFINE n == Len(a)
  <1>1. PICK v : Valued(a, v) /\ P256!Magnitude(a) = v[n]
    BY ValuesOf
  <1>2. PICK w : Valued(b, w) /\ P256!Magnitude(b) = w[n]
    BY ValuesOf
  <1>3. n \in Nat /\ \A j \in 1 .. n : a[j] \in Nat /\ a[j] < Base /\ b[j] \in Nat
    BY DigitsOfSeq
  <1>4. /\ v[0] = 0 /\ w[0] = 0 /\ \A j \in 0 .. n : v[j] \in Nat /\ w[j] \in Nat
        /\ \A j \in 1 .. n : v[j] = v[j - 1] * Base + a[j] /\ w[j] = w[j - 1] * Base + b[j]
    BY <1>1, <1>2 DEF Valued
  <1>5. a[i] < b[i] /\ (\A j \in 1 .. i - 1 : a[j] = b[j]) /\ i \in 1 .. n
    BY DEF Before
  <1> HIDE DEF n
  <1> DEFINE K == {k \in Nat : k <= n => (k < i => v[k] = w[k]) /\ (k >= i => v[k] < w[k])}
  <1>6. 0 \in K
    BY <1>3, <1>4, <1>5
  <1>7. ASSUME NEW k \in K PROVE k + 1 \in K
    <2> SUFFICES ASSUME k + 1 <= n
                 PROVE  (k + 1 < i => v[k + 1] = w[k + 1]) /\ (k + 1 >= i => v[k + 1] < w[k + 1])
      OBVIOUS
    <2>1. k \in Nat /\ k \in 0 .. n /\ k + 1 \in 1 .. n /\ (k + 1) - 1 = k
      BY <1>3
    <2>2. /\ v[k] \in Nat /\ w[k] \in Nat /\ a[k + 1] \in Nat /\ a[k + 1] < Base /\ b[k + 1] \in Nat
          /\ v[k + 1] = v[k] * Base + a[k + 1] /\ w[k + 1] = w[k] * Base + b[k + 1]
      BY <1>3, <1>4, <2>1
    <2>3. (k < i => v[k] = w[k]) /\ (k >= i => v[k] < w[k])
      BY <2>1
    <2>4. CASE k + 1 < i
      <3>1. a[k + 1] = b[k + 1] /\ v[k] = w[k]
        BY <1>5, <2>1, <2>3, <2>4
      <3> QED
        BY <1>5, <2>1, <2>2, <2>4, <3>1
    <2>5. CASE k + 1 = i
      <3>1. a[k + 1] < b[k + 1] /\ v[k] = w[k]
        BY <1>5, <2>1, <2>3, <2>5
      <3> QED
        BY <1>5, <2>1, <2>2, <2>5, <3>1, BaseOf
    <2>6. CASE k >= i
      <3>1. v[k] * Base + Base <= w[k] * Base
        BY <2>2, <2>3, <2>6, Scaled, BaseOf
      <3>2. v[k] * Base \in Nat /\ w[k] * Base \in Nat
        BY <2>2, BaseOf
      <3>3. v[k + 1] < w[k + 1]
        <4> DEFINE x == v[k] * Base
                   y == w[k] * Base
        <4>1. /\ x \in Nat /\ y \in Nat /\ x + Base <= y
              /\ v[k + 1] = x + a[k + 1] /\ w[k + 1] = y + b[k + 1]
          BY <2>2, <3>1, <3>2
        <4> HIDE DEF x, y
        <4> QED
          BY <2>2, <4>1, BaseOf
      <3> QED
        BY <1>5, <2>1, <2>6, <3>3
    <2> QED
      BY <1>5, <2>1, <2>4, <2>5, <2>6
  <1> HIDE DEF K
  <1>8. K = Nat
    <2>1. K \in SUBSET Nat
      BY DEF K
    <2> QED
      BY <1>6, <1>7, <2>1, AllNumbers
  <1>9. v[n] < w[n]
    BY <1>3, <1>5, <1>8 DEF K
  <1> QED
    BY <1>1, <1>2, <1>9

(* Of two different numbers with as many digits one is before the other.   *)
LEMMA SomeBefore ==
    ASSUME NEW a \in Seq(P256!Digits), NEW b \in Seq(P256!Digits), Len(a) = Len(b), a # b
    PROVE  \E i \in 1 .. Len(a) : Before(a, b, i) \/ Before(b, a, i)
  <1> DEFINE n == Len(a)
             T == {i \in 1 .. n : a[i] # b[i]}
  <1>1. n \in Nat /\ \A j \in 1 .. n : a[j] \in Nat /\ b[j] \in Nat
    BY DigitsOfSeq
  <1>2. T # {}
    BY SeqEqual
  <1>3. T \in SUBSET Nat
    BY <1>1
  <1>4. PICK i \in T : \A j \in T : i <= j
    <2> HIDE DEF T
    <2> QED
      BY <1>2, <1>3, LeastOf
  <1>5. i \in 1 .. n /\ a[i] # b[i] /\ \A j \in 1 .. i - 1 : a[j] = b[j]
    <2> HIDE DEF n
    <2>1. i \in 1 .. n /\ a[i] # b[i]
      BY <1>4
    <2>2. ASSUME NEW j \in 1 .. i - 1, a[j] # b[j] PROVE FALSE
      <3>1. j \in T
        BY <1>1, <2>1, <2>2
      <3> QED
        BY <1>1, <1>4, <2>1, <2>2, <3>1
    <2> QED
      BY <2>1, <2>2
  <1>6. a[i] < b[i] \/ b[i] < a[i]
    BY <1>1, <1>5
  <1> QED
    BY <1>5, <1>6 DEF Before

LEMMA MagnitudeIs ==
    ASSUME NEW d \in Seq(P256!Digits), NEW w, Valued(d, w)
    PROVE  P256!Magnitude(d) = w[Len(d)]
  <1> DEFINE n == Len(d)
  <1>1. PICK v : Valued(d, v) /\ P256!Magnitude(d) = v[n]
    BY ValuesOf
  <1>2. n \in Nat
    BY LenProperties
  <1>3. /\ v[0] = 0 /\ w[0] = 0
        /\ \A j \in 1 .. n : v[j] = v[j - 1] * Base + d[j] /\ w[j] = w[j - 1] * Base + d[j]
    BY <1>1 DEF Valued
  <1> HIDE DEF n
  <1> DEFINE K == {k \in Nat : k <= n => v[k] = w[k]}
  <1>4. 0 \in K
    BY <1>3
  <1>5. ASSUME NEW k \in K PROVE k + 1 \in K
    <2> SUFFICES ASSUME k + 1 <= n PROVE v[k + 1] = w[k + 1]
      OBVIOUS
    <2>1. k + 1 \in 1 .. n /\ (k + 1) - 1 = k /\ v[k] = w[k]
      BY <1>2
    <2> QED
      BY <1>3, <2>1
  <1> HIDE DEF K
  <1>6. K = Nat
    <2>1. K \in SUBSET Nat
      BY DEF K
    <2> QED
      BY <1>4, <1>5, <2>1, AllNumbers
  <1>7. v[n] = w[n]
    BY <1>2, <1>6 DEF K
  <1> QED
    BY <1>1, <1>7 DEF n

(* A magnitude says which digits there are, and compares as they do.       *)
LEMMA Comparison ==
    ASSUME NEW a \in Seq(P256!Digits), NEW b \in Seq(P256!Digits), Len(a) = Len(b)
    PROVE  /\ P256!Magnitude(a) \in Nat
           /\ P256!Magnitude(a) = P256!Magnitude(b) <=> a = b
           /\ P256!Magnitude(a) < P256!Magnitude(b) <=> \E i \in 1 .. Len(a) : Before(a, b, i)
  <1> DEFINE ma == P256!Magnitude(a)
             mb == P256!Magnitude(b)
  <1>1. ma \in Nat /\ mb \in Nat
    <2> SUFFICES ASSUME NEW d \in Seq(P256!Digits) PROVE P256!Magnitude(d) \in Nat
      OBVIOUS
    <2>1. PICK v : Valued(d, v) /\ P256!Magnitude(d) = v[Len(d)]
      BY ValuesOf
    <2> QED
      BY <2>1, LenProperties DEF Valued
  <1>2. (\E i \in 1 .. Len(a) : Before(a, b, i)) => ma < mb
    BY BeforeIsLess
  <1>3. (\E i \in 1 .. Len(a) : Before(b, a, i)) => mb < ma
    BY BeforeIsLess
  <1>4. a # b => \E i \in 1 .. Len(a) : Before(a, b, i) \/ Before(b, a, i)
    BY SomeBefore
  <1>5. a = b => ma = mb
    OBVIOUS
  <1> HIDE DEF ma, mb
  <1>6. (ma = mb <=> a = b) /\ (ma < mb <=> \E i \in 1 .. Len(a) : Before(a, b, i))
    BY <1>1, <1>2, <1>3, <1>4, <1>5
  <1> QED
    BY <1>1, <1>6 DEF ma, mb

(* Leading zeros say nothing.                                              *)
LEMMA LeadingZeros ==
    ASSUME NEW c \in Seq(P256!Digits), NEW d \in Seq(P256!Digits), NEW z \in Nat, Len(d) = Len(c) + z,
           \A i \in 1 .. z : d[i] = 0, \A i \in 1 .. Len(c) : d[i + z] = c[i]
    PROVE  P256!Magnitude(d) = P256!Magnitude(c)
  <1> DEFINE n == Len(c)
  <1>1. PICK v : Valued(c, v) /\ P256!Magnitude(c) = v[n]
    BY ValuesOf
  <1>2. PICK w : Valued(d, w) /\ P256!Magnitude(d) = w[n + z]
    BY ValuesOf
  <1>3. n \in Nat
    BY LenProperties
  <1>4. /\ v[0] = 0 /\ w[0] = 0
        /\ \A j \in 1 .. n : v[j] = v[j - 1] * Base + c[j]
        /\ \A j \in 1 .. n + z : w[j] = w[j - 1] * Base + d[j]
    BY <1>1, <1>2 DEF Valued
  <1> HIDE DEF n
  <1> DEFINE K == {k \in Nat : k <= n + z => (k <= z => w[k] = 0) /\ (k >= z => w[k] = v[k - z])}
  <1>5. 0 \in K
    BY <1>3, <1>4
  <1>6. ASSUME NEW k \in K PROVE k + 1 \in K
    <2> SUFFICES ASSUME k + 1 <= n + z
                 PROVE  (k + 1 <= z => w[k + 1] = 0) /\ (k + 1 >= z => w[k + 1] = v[(k + 1) - z])
      OBVIOUS
    <2>1. k + 1 \in 1 .. n + z /\ (k + 1) - 1 = k /\ (k <= z => w[k] = 0) /\ (k >= z => w[k] = v[k - z])
      BY <1>3
    <2>2. w[k + 1] = w[k] * Base + d[k + 1]
      BY <1>4, <2>1
    <2>3. CASE k + 1 <= z
      <3>1. w[k] = 0 /\ d[k + 1] = 0
        BY <2>1, <2>3
      <3>2. w[k + 1] = 0
        BY <2>2, <3>1, BaseOf
      <3> QED
        BY <1>4, <2>3, <3>2
    <2>4. CASE k >= z
      <3> DEFINE i == k + 1 - z
      <3>1. i \in 1 .. n /\ i + z = k + 1 /\ i - 1 = k - z
        BY <1>3, <2>1, <2>4
      <3>2. d[k + 1] = c[i]
        BY <3>1 DEF n
      <3>3. v[i] = v[i - 1] * Base + c[i]
        BY <1>4, <3>1
      <3>4. w[k + 1] = v[i]
        BY <2>1, <2>2, <2>4, <3>1, <3>2, <3>3
      <3> QED
        BY <2>4, <3>4
    <2> QED
      BY <2>3, <2>4
  <1> HIDE DEF K
  <1>7. K = Nat
    <2>1. K \in SUBSET Nat
      BY DEF K
    <2> QED
      BY <1>5, <1>6, <2>1, AllNumbers
  <1>8. w[n + z] = v[n]
    <2>1. n + z \in Nat /\ n + z >= z /\ (n + z) - z = n
      BY <1>3
    <2>2. n + z \in K
      BY <1>7, <2>1
    <2> QED
      BY <2>1, <2>2 DEF K
  <1> QED
    BY <1>1, <1>2, <1>8

(* Every number up to one that can be written can be written.              *)
LEMMA Quotient == \A m \in Nat : \E q, r \in Nat : m = q * Base + r /\ r < Base
  <1> DEFINE K == {m \in Nat : \E q, r \in Nat : m = q * Base + r /\ r < Base}
  <1>1. 0 \in K
    <2>1. 0 = 0 * Base + 0 /\ 0 < Base
      BY BaseOf
    <2> QED
      BY <2>1
  <1>2. ASSUME NEW m \in K PROVE m + 1 \in K
    <2>1. PICK q \in Nat, r \in Nat : m = q * Base + r /\ r < Base
      OBVIOUS
    <2>2. CASE r + 1 < Base
      <3>1. m + 1 = q * Base + (r + 1) /\ r + 1 \in Nat
        BY <2>1, BaseOf
      <3> QED
        BY <2>2, <3>1
    <2>3. CASE r + 1 = Base
      <3>1. (q + 1) * Base = q * Base + Base /\ q * Base \in Nat
        BY BaseOf
      <3>2. m + 1 = (q + 1) * Base + 0 /\ 0 < Base /\ q + 1 \in Nat
        BY <2>1, <2>3, <3>1, BaseOf
      <3> QED
        BY <3>2
    <2> QED
      BY <2>1, <2>2, <2>3, BaseOf
  <1> HIDE DEF K
  <1>3. K = Nat
    <2>1. K \in SUBSET Nat
      BY DEF K
    <2> QED
      BY <1>1, <1>2, <2>1, AllNumbers
  <1> QED
    BY <1>3 DEF K

(* Every number up to one that is written in n digits is written in n.     *)
LEMMA Written ==
    ASSUME NEW a \in Seq(P256!Digits), NEW m \in Nat, m <= P256!Magnitude(a)
    PROVE  \E d \in [1 .. Len(a) -> P256!Digits] : P256!Magnitude(d) = m
  <1> DEFINE n == Len(a)
             Writes(k, number) ==
               \E d \in [1 .. k -> P256!Digits], w \in [0 .. k -> Nat] :
                 w[0] = 0 /\ w[k] = number /\ \A i \in 1 .. k : w[i] = w[i - 1] * Base + d[i]
  <1>1. PICK v : Valued(a, v) /\ P256!Magnitude(a) = v[n]
    BY ValuesOf
  <1>2. n \in Nat /\ \A j \in 1 .. n : a[j] \in Nat /\ a[j] < Base
    BY DigitsOfSeq
  <1>3. /\ v[0] = 0 /\ \A j \in 0 .. n : v[j] \in Nat
        /\ \A j \in 1 .. n : v[j] = v[j - 1] * Base + a[j]
    BY <1>1 DEF Valued
  <1> HIDE DEF n
  <1> DEFINE K == {k \in Nat : k <= n => \A number \in 0 .. v[k] : Writes(k, number)}
  <1>4. 0 \in K
    <2>1. \A number \in 0 .. v[0] : number = 0
      BY <1>3
    <2>2. Writes(0, 0)
      <3>1. [i \in 1 .. 0 |-> 0] \in [1 .. 0 -> P256!Digits]
        OBVIOUS
      <3>2. [i \in 0 .. 0 |-> 0] \in [0 .. 0 -> Nat] /\ [i \in 0 .. 0 |-> 0][0] = 0
        OBVIOUS
      <3>3. \A i \in 1 .. 0 : FALSE
        OBVIOUS
      <3> QED
        BY <3>1, <3>2, <3>3
    <2> HIDE DEF Writes
    <2> QED
      BY <2>1, <2>2
  <1>5. ASSUME NEW k \in K PROVE k + 1 \in K
    <2>1. k \in Nat /\ k + 1 \in Nat
      OBVIOUS
    <2> SUFFICES ASSUME k + 1 <= n, NEW number \in 0 .. v[k + 1] PROVE Writes(k + 1, number)
      BY <2>1
    <2>2. k + 1 \in 1 .. n /\ k \in 0 .. n /\ (k + 1) - 1 = k
      BY <1>2, <2>1
    <2>3. /\ v[k + 1] = v[k] * Base + a[k + 1] /\ v[k] \in Nat /\ a[k + 1] \in Nat /\ a[k + 1] < Base
          /\ v[k + 1] \in Nat /\ number \in Nat /\ number <= v[k + 1]
      <3>1. v[k + 1] \in Nat
        BY <1>3, <2>2
      <3> QED
        BY <1>2, <1>3, <2>2, <3>1
    <2>4. PICK q \in Nat, r \in Nat : number = q * Base + r /\ r < Base
      BY <2>3, Quotient
    <2>5. q <= v[k]
      <3> SUFFICES ASSUME v[k] < q PROVE FALSE
        BY <2>3
      <3>1. v[k] * Base + Base <= q * Base
        BY <2>3, Scaled, BaseOf
      <3>2. v[k] * Base \in Nat /\ q * Base \in Nat
        BY <2>3, BaseOf
      <3> DEFINE x == v[k] * Base
                 y == q * Base
      <3>3. /\ x \in Nat /\ y \in Nat /\ x + Base <= y /\ v[k + 1] = x + a[k + 1] /\ number = y + r
        BY <2>3, <2>4, <3>1, <3>2
      <3> HIDE DEF x, y
      <3> QED
        BY <2>3, <2>4, <3>3, BaseOf
    <2>6. Writes(k, q)
      <3>1. q \in 0 .. v[k] /\ k <= n
        BY <2>2, <2>3, <2>5, <1>2
      <3> QED
        BY <3>1
    <2>7. PICK d \in [1 .. k -> P256!Digits], w \in [0 .. k -> Nat] :
            w[0] = 0 /\ w[k] = q /\ \A i \in 1 .. k : w[i] = w[i - 1] * Base + d[i]
      BY <2>6
    <2> DEFINE e == [i \in 1 .. k + 1 |-> IF i = k + 1 THEN r ELSE d[i]]
               u == [i \in 0 .. k + 1 |-> IF i = k + 1 THEN number ELSE w[i]]
    <2>8. r \in P256!Digits
      BY <2>4, BaseOf DEF P256!Digits
    <2>9. e \in [1 .. k + 1 -> P256!Digits] /\ u \in [0 .. k + 1 -> Nat]
      BY <2>1, <2>3, <2>7, <2>8
    <2>10. /\ u[0] = 0 /\ u[k + 1] = number /\ e[k + 1] = r /\ u[k] = q
           /\ \A i \in 1 .. k : u[i] = w[i] /\ e[i] = d[i] /\ u[i - 1] = w[i - 1]
      BY <2>1, <2>7
    <2> HIDE DEF e, u
    <2>11. ASSUME NEW i \in 1 .. k + 1 PROVE u[i] = u[i - 1] * Base + e[i]
      <3>1. CASE i = k + 1
        BY <2>1, <2>4, <2>10, <3>1
      <3>2. CASE i # k + 1
        <4>1. i \in 1 .. k
          BY <2>1, <3>2
        <4> QED
          BY <2>7, <2>10, <4>1
      <3> QED
        BY <3>1, <3>2
    <2> QED
      BY <2>9, <2>10, <2>11
  <1> HIDE DEF K, Writes
  <1>6. K = Nat
    <2>1. K \in SUBSET Nat
      BY DEF K
    <2> QED
      BY <1>4, <1>5, <2>1, AllNumbers
  <1>7. Writes(n, m)
    <2>1. m \in 0 .. v[n] /\ n \in K
      BY <1>1, <1>2, <1>3, <1>6
    <2> QED
      BY <1>2, <2>1 DEF K
  <1>8. PICK d \in [1 .. n -> P256!Digits], w \in [0 .. n -> Nat] :
          w[0] = 0 /\ w[n] = m /\ \A i \in 1 .. n : w[i] = w[i - 1] * Base + d[i]
    BY <1>7 DEF Writes
  <1>9. d \in Seq(P256!Digits) /\ Len(d) = n
    <2>1. d \in Seq(P256!Digits) /\ DOMAIN d = 1 .. n
      BY <1>2, <1>8, IsASeq
    <2> QED
      BY <1>2, <2>1, LenProperties
  <1>10. P256!Magnitude(d) = w[n]
    <2>1. Valued(d, w)
      BY <1>8, <1>9 DEF Valued
    <2> QED
      BY <1>9, <2>1, MagnitudeIs
  <1> QED
    BY <1>8, <1>10 DEF n

LEMMA AsSeq ==
    ASSUME NEW n \in Nat, NEW d \in [1 .. n -> P256!Digits]
    PROVE  d \in Seq(P256!Digits) /\ Len(d) = n
  <1>1. d \in Seq(P256!Digits) /\ DOMAIN d = 1 .. n
    BY IsASeq
  <1> QED
    BY <1>1, LenProperties

-----------------------------------------------------------------------------
(* The comparisons with the order and its half, and the integers.          *)

(* The two tables of the Swift code.                                       *)
LEMMA OrderDigits ==
    /\ P256!order \in Seq(P256!Digits) /\ Len(P256!order) = Width
    /\ P256!Magnitude(P256!order) = Order /\ P256!order[1] >= Base \div 2
  <1>1. PICK d \in [1 .. Width -> P256!Digits] : d[1] >= Base \div 2 /\ P256!Magnitude(d) = Order
    BY SignatureAssumption DEF P256!P256Assumption
  <1>2. P256!order \in [1 .. Width -> P256!Digits] /\ P256!Magnitude(P256!order) = Order
    BY <1>1 DEF P256!order, P256!digitsOf
  <1>3. /\ d \in Seq(P256!Digits) /\ Len(d) = Width
        /\ P256!order \in Seq(P256!Digits) /\ Len(P256!order) = Width
    BY <1>1, <1>2, BaseOf, AsSeq
  <1>4. P256!order = d
    BY <1>1, <1>2, <1>3, Comparison
  <1> QED
    BY <1>1, <1>2, <1>3, <1>4

(* The half of the order has a first digit too: the first of the order is at *)
(* least half the base, so that digit of its half is not zero.             *)
LEMMA HalfDigits ==
    /\ P256!halfOrder \in Seq(P256!Digits) /\ Len(P256!halfOrder) = Width
    /\ P256!Magnitude(P256!halfOrder) = Order \div 2 /\ P256!halfOrder[1] > 0
  <1> DEFINE half == P256!halfOrder
  <1>1. half \in [1 .. Width -> P256!Digits] /\ P256!Magnitude(half) = Order \div 2
    <2>1. Order \div 2 \in Nat /\ Order \div 2 <= Order
      BY BaseOf
    <2>2. \E d \in [1 .. Width -> P256!Digits] : P256!Magnitude(d) = Order \div 2
      BY <2>1, OrderDigits, Written
    <2> QED
      BY <2>2 DEF P256!halfOrder, P256!digitsOf
  <1>2. half \in Seq(P256!Digits) /\ Len(half) = Width
    BY <1>1, BaseOf, AsSeq
  <1> HIDE DEF half
  <1>3. half[1] > 0
    <2> SUFFICES ASSUME half[1] = 0 PROVE FALSE
      <3>1. half[1] \in Nat
        BY <1>2, BaseOf, DigitsOfSeq
      <3> QED
        BY <3>1
    <2> DEFINE one == [i \in 1 .. Width |-> IF i = 1 THEN 1 ELSE 0]
               two == [i \in 1 .. Width |-> IF i = 1 THEN 2 ELSE 0]
    <2>1. /\ one \in Seq(P256!Digits) /\ Len(one) = Width
          /\ two \in Seq(P256!Digits) /\ Len(two) = Width
      <3>1. 0 \in P256!Digits /\ 1 \in P256!Digits /\ 2 \in P256!Digits
        BY BaseOf DEF P256!Digits
      <3>2. one \in [1 .. Width -> P256!Digits] /\ two \in [1 .. Width -> P256!Digits]
        BY <3>1
      <3> HIDE DEF one, two
      <3> QED
        BY <3>2, BaseOf, AsSeq
    <2>2. /\ 1 \in 1 .. Width /\ one[1] = 1 /\ two[1] = 2
          /\ \A i \in 2 .. Width : one[i] = 0 /\ two[i] = 0
          /\ \A i \in 1 .. Width : two[i] = 2 * one[i] /\ one[i] \in Nat
      BY BaseOf
    <2> HIDE DEF one, two
    <2>3. P256!Magnitude(half) < P256!Magnitude(one)
      <3>1. Before(half, one, 1)
        BY <2>2 DEF Before
      <3> QED
        BY <1>2, <2>1, <2>2, <3>1, BeforeIsLess
    <2>4. ~(P256!Magnitude(P256!order) < P256!Magnitude(two))
      <3> SUFFICES ASSUME NEW i \in 1 .. Width, Before(P256!order, two, i) PROVE FALSE
        BY <2>1, OrderDigits, Comparison
      <3>1. P256!order[i] < two[i] /\ P256!order[i] \in Nat
        BY OrderDigits, DigitsOfSeq DEF Before
      <3>2. CASE i = 1
        BY <2>2, <3>1, <3>2, OrderDigits, BaseOf
      <3>3. CASE i # 1
        BY <2>2, <3>1, <3>3, BaseOf
      <3> QED
        BY <3>2, <3>3
    <2>5. P256!Magnitude(two) = 2 * P256!Magnitude(one)
      <3>1. PICK v : Valued(one, v) /\ P256!Magnitude(one) = v[Width]
        BY <2>1, ValuesOf
      <3> DEFINE w == [i \in 0 .. Width |-> 2 * v[i]]
      <3>2. /\ v[0] = 0 /\ \A j \in 0 .. Width : v[j] \in Nat
            /\ \A j \in 1 .. Width : v[j] = v[j - 1] * Base + one[j]
        BY <2>1, <3>1 DEF Valued
      <3>3. Valued(two, w)
        <4>1. w \in [0 .. Width -> Nat] /\ w[0] = 0
          BY <3>2, BaseOf
        <4>2. ASSUME NEW i \in 1 .. Width PROVE w[i] = w[i - 1] * Base + two[i]
          <5>1. i - 1 \in 0 .. Width /\ i \in 0 .. Width
            BY BaseOf
          <5>2. w[i] = 2 * v[i] /\ w[i - 1] = 2 * v[i - 1] /\ v[i - 1] \in Nat
            BY <3>2, <5>1
          <5>3. v[i] = v[i - 1] * Base + one[i] /\ two[i] = 2 * one[i] /\ one[i] \in Nat
            BY <2>2, <3>2
          <5> HIDE DEF w
          <5> QED
            BY <5>2, <5>3, BaseOf
        <4> HIDE DEF w
        <4> QED
          BY <2>1, <4>1, <4>2 DEF Valued
      <3>4. w[Width] = 2 * v[Width]
        BY BaseOf
      <3> HIDE DEF w
      <3> QED
        BY <2>1, <3>1, <3>3, <3>4, MagnitudeIs
    <2>6. P256!Magnitude(one) \in Nat /\ P256!Magnitude(two) \in Nat
      BY <2>1, Comparison
    <2> QED
      BY <1>1, <2>3, <2>4, <2>5, <2>6, OrderDigits, BaseOf
  <1> QED
    BY <1>1, <1>2, <1>3 DEF half

(* Both codecs ask the same of a scalar.                                   *)
LEMMA PaddedIs ==
    ASSUME NEW m \in Seq(P256!Digits), Len(m) <= Width
    PROVE  /\ P256!Padded(m) \in Seq(P256!Digits) /\ Len(P256!Padded(m)) = Width
           /\ P256!Magnitude(P256!Padded(m)) = P256!Magnitude(m)
           /\ \A i \in 1 .. Width - Len(m) : P256!Padded(m)[i] = 0
           /\ \A i \in 1 .. Len(m) : P256!Padded(m)[i + (Width - Len(m))] = m[i]
           /\ Len(m) = Width => P256!Padded(m) = m
  <1> DEFINE z == Width - Len(m)
             zeros == [i \in 1 .. z |-> 0]
             p == zeros \o m
  <1>1. Len(m) \in Nat /\ z \in Nat
    BY LenProperties, BaseOf
  <1>2. zeros \in Seq(P256!Digits) /\ Len(zeros) = z /\ \A i \in 1 .. z : zeros[i] = 0
    <2>1. 0 \in P256!Digits
      BY BaseOf DEF P256!Digits
    <2>2. zeros \in [1 .. z -> P256!Digits] /\ \A i \in 1 .. z : zeros[i] = 0
      BY <2>1
    <2> HIDE DEF zeros, z
    <2> QED
      BY <1>1, <2>2, AsSeq
  <1>3. P256!Padded(m) = p
    BY DEF P256!Padded
  <1>4. Len(p) = z + Len(m) /\ p \in Seq(P256!Digits)
    <2> HIDE DEF zeros, z
    <2> QED
      BY <1>2, ConcatProperties
  <1>5. \A i \in 1 .. z + Len(m) : p[i] = IF i <= z THEN zeros[i] ELSE m[i - z]
    <2> HIDE DEF zeros, z
    <2> QED
      BY <1>2, ConcatProperties
  <1> HIDE DEF zeros, p
  <1>6. (\A i \in 1 .. z : p[i] = 0) /\ \A i \in 1 .. Len(m) : p[i + z] = m[i]
    <2>1. ASSUME NEW i \in 1 .. z PROVE p[i] = 0
      BY <1>1, <1>2, <1>5
    <2>2. ASSUME NEW i \in 1 .. Len(m) PROVE p[i + z] = m[i]
      <3> HIDE DEF z
      <3>1. i + z \in 1 .. z + Len(m) /\ ~(i + z <= z) /\ (i + z) - z = i
        BY <1>1
      <3> QED
        BY <1>5, <3>1
    <2> QED
      BY <2>1, <2>2
  <1>7. P256!Magnitude(p) = P256!Magnitude(m)
    <2>1. Len(p) = Len(m) + z
      BY <1>1, <1>4
    <2> HIDE DEF z
    <2> QED
      BY <1>1, <1>4, <1>6, <2>1, LeadingZeros
  <1>8. Len(m) = Width => p = m
    <2> SUFFICES ASSUME Len(m) = Width PROVE p = m
      OBVIOUS
    <2>1. z = 0 /\ Len(p) = Len(m)
      BY <1>1, <1>4, BaseOf
    <2>2. \A i \in 1 .. Len(m) : i + 0 = i /\ p[i + 0] = m[i]
      BY <1>1, <1>6, <2>1
    <2>3. \A i \in 1 .. Len(m) : p[i] = m[i]
      BY <2>2
    <2> QED
      BY <1>4, <2>1, <2>3, SeqEqual
  <1>9. Len(p) = Width
    BY <1>1, <1>4, BaseOf
  <1> QED
    BY <1>3, <1>4, <1>6, <1>7, <1>8, <1>9

(* Below a table whose first digit is not zero is what is shorter, or      *)
(* precedes it.                                                            *)
LEMMA BelowTable ==
    ASSUME NEW m \in Seq(P256!Digits), Len(m) <= Width,
           NEW t \in Seq(P256!Digits), Len(t) = Width, t[1] > 0
    PROVE  P256!Magnitude(m) < P256!Magnitude(t) <=>
             Len(m) < Width \/ P256!lexicographicallyPrecedes(m, t)
  <1> DEFINE p == P256!Padded(m)
  <1>1. /\ p \in Seq(P256!Digits) /\ Len(p) = Width /\ P256!Magnitude(p) = P256!Magnitude(m)
        /\ \A i \in 1 .. Width - Len(m) : p[i] = 0
        /\ Len(m) = Width => p = m
    BY PaddedIs
  <1> HIDE DEF p
  <1>2. P256!Magnitude(p) < P256!Magnitude(t) <=> \E i \in 1 .. Width : Before(p, t, i)
    BY <1>1, Comparison
  <1>3. Len(m) \in Nat
    BY LenProperties
  <1>4. CASE Len(m) < Width
    <2>1. 1 \in 1 .. Width - Len(m) /\ 1 \in 1 .. Width
      BY <1>3, <1>4, BaseOf
    <2>2. Before(p, t, 1)
      BY <1>1, <2>1 DEF Before
    <2> QED
      BY <1>1, <1>2, <1>4, <2>1, <2>2
  <1>5. CASE Len(m) = Width
    BY <1>1, <1>2, <1>3, <1>5, BaseOf DEF P256!lexicographicallyPrecedes, Before
  <1> QED
    BY <1>3, <1>4, <1>5, BaseOf

(* A magnitude is zero when every digit is.                                *)
LEMMA Positive ==
    ASSUME NEW m \in Seq(P256!Digits)
    PROVE  P256!Magnitude(m) > 0 <=> \E i \in 1 .. Len(m) : m[i] # 0
  <1> DEFINE n == Len(m)
             zeros == [i \in 1 .. n |-> 0]
  <1>1. n \in Nat
    BY LenProperties
  <1> HIDE DEF n
  <1>2. zeros \in Seq(P256!Digits) /\ Len(zeros) = n /\ \A i \in 1 .. n : zeros[i] = 0
    <2>1. 0 \in P256!Digits
      BY BaseOf DEF P256!Digits
    <2>2. zeros \in [1 .. n -> P256!Digits] /\ \A i \in 1 .. n : zeros[i] = 0
      BY <2>1
    <2> HIDE DEF zeros
    <2> QED
      BY <1>1, <2>2, AsSeq
  <1> HIDE DEF zeros
  <1>3. P256!Magnitude(zeros) = 0
    <2>1. <<>> \in Seq(P256!Digits) /\ Len(<<>>) = 0
      OBVIOUS
    <2>2. P256!Magnitude(<<>>) = 0
      <3>1. PICK v : Valued(<<>>, v) /\ P256!Magnitude(<<>>) = v[Len(<<>>)]
        BY <2>1, ValuesOf
      <3> QED
        BY <2>1, <3>1 DEF Valued
    <2>3. P256!Magnitude(zeros) = P256!Magnitude(<<>>)
      <3>1. \A i \in 1 .. Len(<<>>) : FALSE
        BY <2>1
      <3>2. Len(zeros) = Len(<<>>) + n
        BY <1>1, <1>2, <2>1
      <3> QED
        BY <1>1, <1>2, <2>1, <3>1, <3>2, LeadingZeros
    <2> QED
      BY <2>2, <2>3
  <1>4. P256!Magnitude(m) \in Nat /\ (P256!Magnitude(m) = P256!Magnitude(zeros) <=> m = zeros)
    <2>1. Len(m) = Len(zeros)
      BY <1>2 DEF n
    <2> QED
      BY <1>2, <2>1, Comparison
  <1>5. m = zeros <=> \A i \in 1 .. n : m[i] = 0
    <2>1. (\A i \in 1 .. n : m[i] = 0) => m = zeros
      <3> SUFFICES ASSUME \A i \in 1 .. n : m[i] = 0 PROVE m = zeros
        OBVIOUS
      <3>1. Len(m) = Len(zeros) /\ \A i \in 1 .. Len(m) : m[i] = zeros[i]
        BY <1>2 DEF n
      <3> QED
        BY <1>2, <3>1, SeqEqual
    <2> QED
      BY <1>2, <2>1
  <1> QED
    BY <1>3, <1>4, <1>5 DEF n

(* What the Swift code's two comparisons say of the numbers.               *)
LEMMA ScalarIs ==
    ASSUME NEW m \in Seq(P256!Digits), Len(m) <= Width
    PROVE  /\ P256!isScalar(m) <=> P256!Magnitude(m) > 0 /\ P256!Magnitude(m) < Order
           /\ P256!isLowS(m) <=> P256!Magnitude(m) <= Order \div 2
  <1>1. Len(m) \in Nat /\ P256!order[1] > 0
    <2>1. P256!order[1] \in Nat
      BY OrderDigits, BaseOf, DigitsOfSeq
    <2> QED
      BY <2>1, LenProperties, OrderDigits, BaseOf
  <1>2. P256!Magnitude(m) < Order <=> Len(m) < Width \/ P256!lexicographicallyPrecedes(m, P256!order)
    BY <1>1, OrderDigits, BelowTable
  <1>3. P256!Magnitude(m) < Order \div 2 <=> Len(m) < Width \/ P256!lexicographicallyPrecedes(m, P256!halfOrder)
    BY <1>1, HalfDigits, BelowTable
  <1>4. Len(m) = Width => (P256!Magnitude(m) = Order \div 2 <=> m = P256!halfOrder)
    BY HalfDigits, Comparison
  <1>5. P256!Magnitude(m) > 0 <=> \E i \in 1 .. Len(m) : m[i] # 0
    BY Positive
  <1>6. m = <<>> => ~\E i \in 1 .. Len(m) : m[i] # 0
    OBVIOUS
  <1>7. P256!isScalar(m) <=> P256!Magnitude(m) > 0 /\ P256!Magnitude(m) < Order
    BY <1>1, <1>2, <1>5, <1>6, BaseOf DEF P256!isScalar
  <1>8. P256!isLowS(m) <=> P256!Magnitude(m) <= Order \div 2
    <2>1. P256!Magnitude(m) \in Nat
      BY Comparison
    <2>2. m = P256!halfOrder => Len(m) = Width
      BY HalfDigits
    <2> QED
      BY <1>1, <1>3, <1>4, <2>1, <2>2, BaseOf DEF P256!isLowS
  <1> QED
    BY <1>7, <1>8

LEMMA IntegersAre ==
    /\ \A b \in P256!Integers : b \in Seq(P256!Digits) /\ Len(b) <= Width + 1
    /\ \A b \in Seq(P256!Digits) : Len(b) <= Width + 1 => b \in P256!Integers
  <1>1. ASSUME NEW b \in P256!Integers PROVE b \in Seq(P256!Digits) /\ Len(b) <= Width + 1
    <2>1. PICK n \in 0 .. Width + 1 : b \in [1 .. n -> P256!Digits]
      BY DEF P256!Integers
    <2> QED
      BY <2>1, BaseOf, AsSeq
  <1>2. ASSUME NEW b \in Seq(P256!Digits), Len(b) <= Width + 1 PROVE b \in P256!Integers
    <2>1. b \in [1 .. Len(b) -> P256!Digits] /\ Len(b) \in 0 .. Width + 1
      BY <1>2, LenProperties, BaseOf
    <2> QED
      BY <2>1 DEF P256!Integers
  <1> QED
    BY <1>1, <1>2

(* The sign octet adds nothing.                                            *)
LEMMA ParsedIs ==
    ASSUME NEW bytes \in Seq(P256!Digits), bytes # <<>>
    PROVE  /\ P256!parseInteger(bytes) \in Seq(P256!Digits)
           /\ P256!Magnitude(P256!parseInteger(bytes)) = P256!Magnitude(bytes)
           /\ Len(P256!parseInteger(bytes)) = IF bytes[1] = 0 THEN Len(bytes) - 1 ELSE Len(bytes)
           /\ bytes[1] = 0 => \A i \in 1 .. Len(bytes) - 1 : P256!parseInteger(bytes)[i] = bytes[i + 1]
           /\ bytes[1] # 0 => P256!parseInteger(bytes) = bytes
           /\ Len(bytes) \in Nat \ {0} /\ bytes[1] \in Nat /\ bytes[1] < Base
  <1>1. Len(bytes) \in Nat \ {0} /\ bytes[1] \in Nat /\ bytes[1] < Base
    <2>1. Len(bytes) \in Nat /\ Len(bytes) # 0
      BY LenProperties, EmptySeq
    <2> QED
      BY <2>1, DigitsOfSeq
  <1>2. CASE bytes[1] = 0
    <2> DEFINE t == Tail(bytes)
    <2>1. t \in Seq(P256!Digits) /\ Len(t) = Len(bytes) - 1 /\ \A i \in 1 .. Len(t) : t[i] = bytes[i + 1]
      BY HeadTailProperties
    <2>2. P256!parseInteger(bytes) = t
      BY <1>2 DEF P256!parseInteger
    <2> HIDE DEF t
    <2>3. P256!Magnitude(bytes) = P256!Magnitude(t)
      <3>1. Len(bytes) = Len(t) + 1 /\ 1 \in Nat /\ \A i \in 1 .. 1 : bytes[i] = 0
        BY <1>1, <1>2, <2>1
      <3>2. \A i \in 1 .. Len(t) : bytes[i + 1] = t[i]
        BY <2>1
      <3> QED
        BY <2>1, <3>1, <3>2, LeadingZeros
    <2> QED
      BY <1>1, <1>2, <2>1, <2>2, <2>3
  <1>3. CASE bytes[1] # 0
    <2>1. P256!parseInteger(bytes) = bytes
      BY <1>3 DEF P256!parseInteger
    <2> QED
      BY <1>1, <1>3, <2>1
  <1> QED
    BY <1>2, <1>3

LEMMA Prefixed ==
    ASSUME NEW m \in Seq(P256!Digits)
    PROVE  /\ <<0>> \o m \in Seq(P256!Digits) /\ Len(<<0>> \o m) = Len(m) + 1 /\ (<<0>> \o m)[1] = 0
           /\ \A i \in 1 .. Len(m) : (<<0>> \o m)[i + 1] = m[i]
  <1> DEFINE zero == <<0>>
             o == zero \o m
  <1>1. zero \in Seq(P256!Digits) /\ Len(zero) = 1 /\ zero[1] = 0
    BY BaseOf DEF P256!Digits
  <1> HIDE DEF zero
  <1>2. /\ o \in Seq(P256!Digits) /\ Len(o) = Len(zero) + Len(m) /\ Len(m) \in Nat
        /\ \A i \in 1 .. Len(zero) + Len(m) : o[i] = IF i <= Len(zero) THEN zero[i] ELSE m[i - Len(zero)]
    BY <1>1, ConcatProperties, LenProperties
  <1> HIDE DEF o
  <1>3. Len(o) = Len(m) + 1 /\ o[1] = 0
    BY <1>1, <1>2
  <1>4. ASSUME NEW i \in 1 .. Len(m) PROVE o[i + 1] = m[i]
    <2>1. i + 1 \in 1 .. 1 + Len(m) /\ ~(i + 1 <= 1) /\ (i + 1) - 1 = i
      BY <1>2
    <2> QED
      BY <1>1, <1>2, <2>1
  <1> QED
    BY <1>2, <1>3, <1>4 DEF o, zero

(* An integer of a digit more, the first not zero, is over the order.      *)
LEMMA TooLong ==
    ASSUME NEW d \in Seq(P256!Digits), Len(d) = Width + 1, d[1] # 0
    PROVE  Order < P256!Magnitude(d)
  <1> DEFINE o == <<0>> \o P256!order
  <1>1. /\ o \in Seq(P256!Digits) /\ Len(o) = Width + 1 /\ o[1] = 0
        /\ \A i \in 1 .. Width : o[i + 1] = P256!order[i]
    BY OrderDigits, Prefixed
  <1> HIDE DEF o
  <1>2. P256!Magnitude(o) = Order
    <2>1. Len(o) = Len(P256!order) + 1 /\ 1 \in Nat /\ \A i \in 1 .. 1 : o[i] = 0
      BY <1>1, OrderDigits, BaseOf
    <2> QED
      BY <1>1, <2>1, OrderDigits, LeadingZeros
  <1>3. Before(o, d, 1) /\ 1 \in 1 .. Len(o) /\ Len(o) = Len(d)
    <2>1. d[1] \in Nat
      BY BaseOf, DigitsOfSeq
    <2> QED
      BY <1>1, <2>1, BaseOf DEF Before
  <1> QED
    BY <1>1, <1>2, <1>3, BeforeIsLess

(* The two codecs accept the same integers.                                *)
LEMMA SameScalar ==
    ASSUME NEW bytes \in P256!Integers
    PROVE  P256!GoScalar(bytes) <=> P256!parses(bytes) /\ P256!isScalar(P256!parseInteger(bytes))
  <1> DEFINE half == Base \div 2
             m == P256!parseInteger(bytes)
  <1>1. bytes \in Seq(P256!Digits) /\ Len(bytes) <= Width + 1
    BY IntegersAre
  <1>2. CASE bytes = <<>>
    <2>1. Len(bytes) = 0
      BY <1>2
    <2> QED
      BY <1>2, <2>1, BaseOf DEF P256!GoScalar, P256!parses, P256!Minimal
  <1>3. CASE bytes # <<>>
    <2>1. /\ Len(bytes) \in Nat \ {0} /\ bytes[1] \in Nat /\ bytes[1] < Base
          /\ m \in Seq(P256!Digits) /\ P256!Magnitude(m) = P256!Magnitude(bytes)
          /\ Len(m) = IF bytes[1] = 0 THEN Len(bytes) - 1 ELSE Len(bytes)
      BY <1>1, <1>3, ParsedIs
    <2> HIDE DEF m
    <2>2. P256!Minimal(bytes) /\ ~P256!Negative(bytes) <=> P256!parses(bytes)
      BY <1>1, <1>3, <2>1, BaseOf DEF P256!Minimal, P256!Negative, P256!parses
    <2>3. CASE Len(m) <= Width
      BY <2>1, <2>2, <2>3, ScalarIs DEF P256!GoScalar, m
    <2>4. CASE ~(Len(m) <= Width)
      <3>1. Len(bytes) = Width + 1 /\ bytes[1] # 0
        BY <1>1, <2>1, <2>4, BaseOf
      <3>2. ~(P256!Magnitude(bytes) < Order)
        <4>1. Order < P256!Magnitude(bytes) /\ P256!Magnitude(bytes) \in Nat
          BY <1>1, <3>1, TooLong, Comparison
        <4> QED
          BY <4>1, BaseOf
      <3>3. ~P256!isScalar(m)
        BY <2>4 DEF P256!isScalar
      <3> QED
        BY <3>2, <3>3 DEF P256!GoScalar, m
    <2> QED
      BY <2>3, <2>4
  <1> QED
    BY <1>2, <1>3

(* What is left of an integer that both accept, and back.                  *)
Plain(m) == m \in Seq(P256!Digits) /\ Len(m) \in 1 .. Width /\ m[1] # 0

(* An integer that is taken is written again as it was.                    *)
LEMMA PlainParsed ==
    ASSUME NEW bytes \in P256!Integers, P256!parses(bytes), P256!isScalar(P256!parseInteger(bytes))
    PROVE  /\ Plain(P256!parseInteger(bytes)) /\ P256!appendInteger(P256!parseInteger(bytes)) = bytes
           /\ P256!Magnitude(P256!parseInteger(bytes)) = P256!Magnitude(bytes)
  <1> DEFINE m == P256!parseInteger(bytes)
  <1>1. bytes \in Seq(P256!Digits) /\ Len(bytes) <= Width + 1 /\ bytes # <<>>
    <2>1. bytes \in Seq(P256!Digits) /\ Len(bytes) <= Width + 1 /\ Len(bytes) \in 1 .. Width + 1
      BY IntegersAre DEF P256!parses
    <2> QED
      BY <2>1
  <1>2. /\ Len(bytes) \in Nat \ {0} /\ bytes[1] \in Nat /\ bytes[1] < Base
        /\ m \in Seq(P256!Digits) /\ P256!Magnitude(m) = P256!Magnitude(bytes)
        /\ Len(m) = IF bytes[1] = 0 THEN Len(bytes) - 1 ELSE Len(bytes)
        /\ bytes[1] = 0 => \A i \in 1 .. Len(bytes) - 1 : m[i] = bytes[i + 1]
        /\ bytes[1] # 0 => m = bytes
    BY <1>1, ParsedIs
  <1>3. m # <<>> /\ Len(m) <= Width /\ Len(m) \in Nat
    <2>1. m # <<>> /\ Len(m) <= Width
      BY DEF P256!isScalar
    <2> HIDE DEF m
    <2> QED
      BY <1>2, <2>1, LenProperties
  <1> HIDE DEF m
  <1>4. Len(m) \in 1 .. Width
    BY <1>2, <1>3, EmptySeq, BaseOf
  <1>5. bytes[1] < Base \div 2 /\ ~(Len(bytes) > 1 /\ bytes[1] = 0 /\ bytes[2] < Base \div 2)
    BY DEF P256!parses
  <1>6. CASE bytes[1] = 0
    <2>1. Len(bytes) > 1 /\ m[1] = bytes[2]
      BY <1>2, <1>4, <1>6
    <2>2. bytes[2] >= Base \div 2 /\ m[1] # 0
      <3>1. bytes[2] \in Nat
        BY <1>1, <1>2, <2>1, DigitsOfSeq
      <3> QED
        BY <1>5, <1>6, <2>1, <3>1, BaseOf
    <2>3. P256!appendInteger(m) = <<0>> \o m
      BY <2>1, <2>2 DEF P256!appendInteger
    <2>4. <<0>> \o m = bytes
      <3> DEFINE o == <<0>> \o m
      <3>1. /\ o \in Seq(P256!Digits) /\ Len(o) = Len(m) + 1 /\ o[1] = 0
            /\ \A i \in 1 .. Len(m) : o[i + 1] = m[i]
        BY <1>2, Prefixed
      <3> HIDE DEF o
      <3>2. ASSUME NEW i \in 1 .. Len(bytes) PROVE o[i] = bytes[i]
        <4>1. CASE i = 1
          BY <1>6, <3>1, <4>1
        <4>2. CASE i # 1
          <5>1. i - 1 \in 1 .. Len(m) /\ i - 1 \in 1 .. Len(bytes) - 1 /\ (i - 1) + 1 = i
            BY <1>2, <1>6, <4>2
          <5> QED
            BY <1>2, <1>6, <3>1, <5>1
        <4> QED
          BY <4>1, <4>2
      <3>3. Len(o) = Len(bytes)
        BY <1>2, <1>6, <3>1
      <3>4. o = bytes
        BY <1>1, <3>1, <3>2, <3>3, SeqEqual
      <3> QED
        BY <3>4 DEF o
    <2> QED
      BY <1>2, <1>4, <2>2, <2>3, <2>4 DEF Plain, m
  <1>7. CASE bytes[1] # 0
    <2>1. m = bytes
      BY <1>2, <1>7
    <2>2. P256!appendInteger(m) = bytes
      BY <1>2, <1>5, <2>1, BaseOf DEF P256!appendInteger
    <2> QED
      BY <1>2, <1>4, <1>7, <2>1, <2>2 DEF Plain, m
  <1> QED
    BY <1>6, <1>7

(* A magnitude that is written is read again as it was.                    *)
LEMMA PlainAppended ==
    ASSUME NEW m, Plain(m)
    PROVE  /\ P256!appendInteger(m) \in P256!Integers /\ P256!parses(P256!appendInteger(m))
           /\ P256!parseInteger(P256!appendInteger(m)) = m
           /\ P256!Magnitude(P256!appendInteger(m)) = P256!Magnitude(m)
  <1> DEFINE b == P256!appendInteger(m)
  <1>1. m \in Seq(P256!Digits) /\ Len(m) \in 1 .. Width /\ m[1] # 0 /\ m[1] \in Nat
    BY DigitsOfSeq, BaseOf DEF Plain
  <1>2. CASE m[1] >= Base \div 2
    <2>1. b = <<0>> \o m
      BY <1>2 DEF P256!appendInteger
    <2>2. /\ b \in Seq(P256!Digits) /\ Len(b) = Len(m) + 1 /\ b[1] = 0
          /\ \A i \in 1 .. Len(m) : b[i + 1] = m[i]
      BY <1>1, <2>1, Prefixed
    <2> HIDE DEF b
    <2>3. b[2] = m[1]
      BY <1>1, <2>2, BaseOf
    <2>4. b \in P256!Integers /\ P256!parses(b)
      <3>1. Len(b) <= Width + 1 /\ Len(b) \in 1 .. Width + 1
        BY <1>1, <2>2, BaseOf
      <3>2. b \in P256!Integers
        BY <2>2, <3>1, IntegersAre
      <3>3. P256!parses(b)
        BY <1>1, <1>2, <2>2, <2>3, <3>1, BaseOf DEF P256!parses
      <3> QED
        BY <3>2, <3>3
    <2>5. b # <<>>
      BY <1>1, <2>2, BaseOf
    <2> DEFINE again == P256!parseInteger(b)
    <2>6. /\ again \in Seq(P256!Digits) /\ P256!Magnitude(again) = P256!Magnitude(b)
          /\ Len(again) = Len(b) - 1 /\ \A i \in 1 .. Len(b) - 1 : again[i] = b[i + 1]
      BY <2>2, <2>5, ParsedIs
    <2> HIDE DEF again
    <2>7. again = m
      <3>1. Len(again) = Len(m)
        BY <1>1, <2>2, <2>6, BaseOf
      <3>2. \A i \in 1 .. Len(again) : again[i] = m[i]
        <4> SUFFICES ASSUME NEW i \in 1 .. Len(again) PROVE again[i] = m[i]
          OBVIOUS
        <4>1. i \in 1 .. Len(m) /\ i \in 1 .. Len(b) - 1
          BY <1>1, <2>2, <2>6, BaseOf
        <4> QED
          BY <2>2, <2>6, <4>1
      <3> QED
        BY <1>1, <2>6, <3>1, <3>2, SeqEqual
    <2> QED
      BY <2>4, <2>6, <2>7 DEF b, again
  <1>3. CASE ~(m[1] >= Base \div 2)
    <2>1. b = m
      BY <1>3 DEF P256!appendInteger
    <2>2. Len(m) <= Width + 1 /\ Len(m) \in 1 .. Width + 1 /\ m[1] < Base \div 2
      BY <1>1, <1>3, BaseOf
    <2>3. m \in P256!Integers
      BY <1>1, <2>2, IntegersAre
    <2>4. P256!parses(m)
      BY <1>1, <2>2 DEF P256!parses
    <2>5. P256!parseInteger(m) = m
      BY <1>1 DEF P256!parseInteger
    <2> HIDE DEF b
    <2> QED
      BY <2>1, <2>3, <2>4, <2>5 DEF b
  <1> QED
    BY <1>2, <1>3

(* A number has one magnitude without leading zeros.                       *)
LEMMA PlainUnique ==
    ASSUME NEW a, NEW b, Plain(a), Plain(b), P256!Magnitude(a) = P256!Magnitude(b)
    PROVE  a = b
  <1>1. /\ a \in Seq(P256!Digits) /\ Len(a) \in 1 .. Width /\ a[1] # 0
        /\ b \in Seq(P256!Digits) /\ Len(b) \in 1 .. Width /\ b[1] # 0
    BY DEF Plain
  <1> DEFINE p == P256!Padded(a)
             q == P256!Padded(b)
  <1>2. /\ p \in Seq(P256!Digits) /\ Len(p) = Width /\ P256!Magnitude(p) = P256!Magnitude(a)
        /\ \A i \in 1 .. Width - Len(a) : p[i] = 0
        /\ \A i \in 1 .. Len(a) : p[i + (Width - Len(a))] = a[i]
    BY <1>1, BaseOf, PaddedIs
  <1>3. /\ q \in Seq(P256!Digits) /\ Len(q) = Width /\ P256!Magnitude(q) = P256!Magnitude(b)
        /\ \A i \in 1 .. Width - Len(b) : q[i] = 0
        /\ \A i \in 1 .. Len(b) : q[i + (Width - Len(b))] = b[i]
    BY <1>1, BaseOf, PaddedIs
  <1> HIDE DEF p, q
  <1>4. p = q
    BY <1>2, <1>3, Comparison
  <1>5. ~(Len(a) < Len(b))
    <2> SUFFICES ASSUME Len(a) < Len(b) PROVE FALSE
      OBVIOUS
    <2> DEFINE i == 1 + (Width - Len(b))
    <2>1. i \in 1 .. Width - Len(a)
      BY <1>1, BaseOf
    <2>2. q[i] = b[1]
      BY <1>1, <1>3
    <2> HIDE DEF i
    <2> QED
      BY <1>1, <1>2, <1>4, <2>1, <2>2
  <1>6. ~(Len(b) < Len(a))
    <2> SUFFICES ASSUME Len(b) < Len(a) PROVE FALSE
      OBVIOUS
    <2> DEFINE i == 1 + (Width - Len(a))
    <2>1. i \in 1 .. Width - Len(b)
      BY <1>1, BaseOf
    <2>2. p[i] = a[1]
      BY <1>1, <1>2
    <2> HIDE DEF i
    <2> QED
      BY <1>1, <1>3, <1>4, <2>1, <2>2
  <1>7. Len(a) = Len(b)
    BY <1>1, <1>5, <1>6, BaseOf
  <1> QED
    BY <1>1, <1>7, Comparison

(* Without its leading zeros a number is the same.                         *)
LEMMA StrippedIs ==
    ASSUME NEW d \in Seq(P256!Digits), Len(d) = Width, P256!Magnitude(d) > 0
    PROVE  Plain(P256!Stripped(d)) /\ P256!Magnitude(P256!Stripped(d)) = P256!Magnitude(d)
  <1> DEFINE Begins(i) == /\ d[i] # 0 \/ i = Width
                          /\ \A j \in 1 .. i - 1 : d[j] = 0
             first == CHOOSE i \in 1 .. Width : Begins(i)
             s == SubSeq(d, first, Width)
  <1>1. PICK k \in 1 .. Width : d[k] # 0
    BY Positive
  <1>2. \E i \in 1 .. Width : Begins(i)
    <2> DEFINE T == {i \in 1 .. Width : d[i] # 0}
    <2>1. T \in SUBSET Nat /\ T # {}
      BY <1>1, BaseOf
    <2>2. PICK i \in T : \A j \in T : i <= j
      <3> HIDE DEF T
      <3> QED
        BY <2>1, LeastOf
    <2>3. \A j \in 1 .. i - 1 : d[j] = 0
      <3> SUFFICES ASSUME NEW j \in 1 .. i - 1, d[j] # 0 PROVE FALSE
        OBVIOUS
      <3>1. j \in T
        BY <2>2, BaseOf
      <3> QED
        BY <2>2, <3>1, BaseOf
    <2> QED
      BY <2>2, <2>3
  <1>3. first \in 1 .. Width /\ Begins(first)
    <2> HIDE DEF Begins
    <2> QED
      BY <1>2
  <1>4. P256!Stripped(d) = s
    BY DEF P256!Stripped
  <1> HIDE DEF first
  <1>5. d[first] # 0
    <2> SUFFICES ASSUME first = Width, d[first] = 0 PROVE FALSE
      BY <1>3
    <2>1. k # Width /\ k \in 1 .. first - 1
      BY <1>1, BaseOf
    <2> QED
      BY <1>1, <1>3, <2>1
  <1>6. /\ s \in Seq(P256!Digits) /\ Len(s) = Width - first + 1
        /\ \A i \in 1 .. Width - first + 1 : s[i] = d[first + i - 1]
    <2>1. first \in Int /\ Width \in Int /\ first <= Width
      BY <1>3, BaseOf
    <2>2. \A i \in first .. Width : d[i] \in P256!Digits
      BY <1>3, BaseOf, DigitsOfSeq
    <2> QED
      BY <2>1, <2>2, SubSeqProperties
  <1> HIDE DEF s
  <1>7. Plain(s)
    <2>1. Len(s) \in 1 .. Width /\ s[1] = d[first]
      BY <1>3, <1>6, BaseOf
    <2> QED
      BY <1>5, <1>6, <2>1 DEF Plain
  <1>8. P256!Magnitude(d) = P256!Magnitude(s)
    <2> DEFINE z == first - 1
    <2>1. z \in Nat /\ Len(d) = Len(s) + z /\ \A i \in 1 .. z : d[i] = 0
      BY <1>3, <1>6, BaseOf
    <2>2. ASSUME NEW i \in 1 .. Len(s) PROVE d[i + z] = s[i]
      <3>1. i + z = first + i - 1 /\ i \in 1 .. Width - first + 1
        BY <1>3, <1>6, BaseOf
      <3> QED
        BY <1>6, <3>1
    <2> HIDE DEF z
    <2> QED
      BY <1>6, <2>1, <2>2, LeadingZeros
  <1> QED
    BY <1>4, <1>7, <1>8

-----------------------------------------------------------------------------
(* The subtraction, digit by digit.                                        *)

(* A borrow goes from each digit to the next, and none out of the first.   *)
Owed(o, p, borrow, i) == o[i] < p[i] + borrow[i]

Borrows(o, p, borrow) ==
    \A i \in 1 .. Width : borrow[i] = IF i = Width THEN 0 ELSE IF Owed(o, p, borrow, i + 1) THEN 1 ELSE 0

Digit(o, p, borrow, i) ==
    (IF Owed(o, p, borrow, i) THEN o[i] + Base ELSE o[i]) - p[i] - borrow[i]

LEMMA DigitOf ==
    ASSUME NEW o, NEW p, NEW borrow, NEW i, Owed(o, p, borrow, i),
           o[i] \in Nat, p[i] \in Nat, borrow[i] \in {0, 1}
    PROVE  Digit(o, p, borrow, i) = o[i] + Base - p[i] - borrow[i]
  BY BaseOf DEF Digit, Owed

(* The borrows of a subtraction are what their recursion says.             *)
LEMMA BorrowsExist ==
    ASSUME NEW o \in [1 .. Width -> Nat], NEW p \in [1 .. Width -> Nat]
    PROVE  \E f : f = [i \in 1 .. Width |-> IF i = Width THEN 0 ELSE IF o[i + 1] < p[i + 1] + f[i + 1] THEN 1 ELSE 0]
  <1> DEFINE next == [k \in 1 .. Width |-> [b \in {0, 1} |->
                        IF o[Width - k + 1] < p[Width - k + 1] + b THEN 1 ELSE 0]]
  <1>1. next \in [1 .. Width -> [{0, 1} -> {0, 1}]]
    OBVIOUS
  <1>2. \A k \in 1 .. Width, b \in {0, 1} :
          next[k][b] = IF o[Width - k + 1] < p[Width - k + 1] + b THEN 1 ELSE 0
    OBVIOUS
  <1> HIDE DEF next
  <1>3. PICK g : /\ g \in [0 .. Width -> {0, 1}] /\ g[0] = 0
                 /\ \A k \in 1 .. Width : g[k] = next[k][g[k - 1]]
    <2>1. \E g : Recursive(Width, {0, 1}, 0, next, g)
      <3>1. 0 \in {0, 1} /\ Width \in Nat
        BY BaseOf
      <3> QED
        BY <1>1, <3>1, Recursion
    <2> QED
      BY <2>1 DEF Recursive
  <1> DEFINE f == [i \in 1 .. Width |-> g[Width - i]]
  <1>4. ASSUME NEW i \in 1 .. Width
        PROVE  f[i] = IF i = Width THEN 0 ELSE IF o[i + 1] < p[i + 1] + f[i + 1] THEN 1 ELSE 0
    <2>1. CASE i = Width
      <3>1. f[i] = g[0]
        BY <2>1, BaseOf
      <3> QED
        BY <1>3, <2>1, <3>1
    <2>2. CASE i # Width
      <3>1. i + 1 \in 1 .. Width /\ Width - i \in 1 .. Width /\ (Width - i) - 1 = Width - (i + 1)
            /\ Width - (Width - i) + 1 = i + 1 /\ (Width - i) - 1 \in 0 .. Width
        BY <2>2, BaseOf
      <3>2. f[i] = g[Width - i] /\ f[i + 1] = g[(Width - i) - 1]
        BY <3>1
      <3>3. g[Width - i] = next[Width - i][g[(Width - i) - 1]] /\ g[(Width - i) - 1] \in {0, 1}
        BY <1>3, <3>1
      <3> HIDE DEF f
      <3> QED
        BY <1>2, <2>2, <3>1, <3>2, <3>3
    <2> QED
      BY <2>1, <2>2
  <1>5. f = [i \in 1 .. Width |-> IF i = Width THEN 0 ELSE IF o[i + 1] < p[i + 1] + f[i + 1] THEN 1 ELSE 0]
    BY <1>4
  <1> QED
    BY <1>5

(* The digits of a difference, when the subtracted number is the less: with *)
(* the borrow that each prefix owes, the two prefixes add up to the first. *)
LEMMA Difference ==
    ASSUME NEW o \in Seq(P256!Digits), Len(o) = Width, NEW p \in Seq(P256!Digits), Len(p) = Width,
           NEW borrow, Borrows(o, p, borrow), P256!Magnitude(p) < P256!Magnitude(o),
           NEW r, r = [i \in 1 .. Width |-> Digit(o, p, borrow, i)]
    PROVE  /\ r \in Seq(P256!Digits) /\ Len(r) = Width
           /\ P256!Magnitude(r) = P256!Magnitude(o) - P256!Magnitude(p)
  <1>1. \A i \in 1 .. Width : o[i] \in Nat /\ o[i] < Base /\ p[i] \in Nat /\ p[i] < Base
    BY DigitsOfSeq
  <1>2. \A i \in 1 .. Width : borrow[i] \in {0, 1}
    BY DEF Borrows
  <1>3. r \in Seq(P256!Digits) /\ Len(r) = Width
    <2>1. ASSUME NEW i \in 1 .. Width PROVE Digit(o, p, borrow, i) \in P256!Digits
      <3>1. /\ o[i] \in Nat /\ o[i] < Base /\ p[i] \in Nat /\ p[i] < Base /\ borrow[i] \in {0, 1}
        BY <1>1, <1>2
      <3> QED
        BY <3>1, BaseOf DEF Digit, Owed, P256!Digits
    <2>2. r \in [1 .. Width -> P256!Digits]
      BY <2>1
    <2> QED
      BY <2>2, BaseOf, AsSeq
  <1>4. ~Owed(o, p, borrow, 1)
    <2>1. PICK first \in 1 .. Width : Before(p, o, first)
      BY Comparison
    <2> DEFINE K == {k \in Nat : k < first => ~Owed(o, p, borrow, first - k)}
    <2>2. 0 \in K
      <3>1. o[first] \in Nat /\ p[first] \in Nat /\ borrow[first] \in {0, 1} /\ p[first] < o[first]
        BY <1>1, <1>2, <2>1 DEF Before
      <3>2. ~Owed(o, p, borrow, first) /\ first - 0 = first
        BY <3>1, BaseOf DEF Owed
      <3> QED
        BY <3>2
    <2>3. ASSUME NEW k \in K PROVE k + 1 \in K
      <3> SUFFICES ASSUME k + 1 < first PROVE ~Owed(o, p, borrow, first - (k + 1))
        OBVIOUS
      <3> DEFINE i == first - (k + 1)
      <3>1. k \in Nat /\ k < first /\ i \in 1 .. first - 1 /\ i \in 1 .. Width /\ i # Width /\ i + 1 = first - k
        BY BaseOf
      <3>2. ~Owed(o, p, borrow, i + 1)
        BY <3>1
      <3> HIDE DEF i
      <3>3. borrow[i] = 0
        BY <3>1, <3>2 DEF Borrows
      <3>4. p[i] = o[i] /\ o[i] \in Nat
        BY <1>1, <2>1, <3>1 DEF Before
      <3>5. ~Owed(o, p, borrow, i)
        BY <3>3, <3>4 DEF Owed
      <3> QED
        BY <3>5 DEF i
    <2> HIDE DEF K
    <2>4. K = Nat
      <3>1. K \in SUBSET Nat
        BY DEF K
      <3> QED
        BY <2>2, <2>3, <3>1, AllNumbers
    <2>5. first - 1 \in Nat /\ first - 1 < first /\ first - (first - 1) = 1
      BY BaseOf
    <2>6. first - 1 \in K
      BY <2>4, <2>5
    <2> QED
      BY <2>5, <2>6 DEF K
  <1>5. PICK u : Valued(r, u) /\ P256!Magnitude(r) = u[Width]
    BY <1>3, ValuesOf
  <1>6. PICK v : Valued(p, v) /\ P256!Magnitude(p) = v[Width]
    BY ValuesOf
  <1>7. PICK w : Valued(o, w) /\ P256!Magnitude(o) = w[Width]
    BY ValuesOf
  <1>8. /\ u[0] = 0 /\ v[0] = 0 /\ w[0] = 0
        /\ \A j \in 0 .. Width : u[j] \in Nat /\ v[j] \in Nat /\ w[j] \in Nat
        /\ \A j \in 1 .. Width : /\ u[j] = u[j - 1] * Base + r[j]
                                 /\ v[j] = v[j - 1] * Base + p[j]
                                 /\ w[j] = w[j - 1] * Base + o[j]
    BY <1>3, <1>5, <1>6, <1>7 DEF Valued
  <1> DEFINE due == [k \in 0 .. Width |-> IF k = 0 THEN 0 ELSE borrow[k]]
             K == {k \in Nat : k <= Width => u[k] + v[k] + due[k] = w[k]}
  <1>9. 0 \in K
    BY <1>8, BaseOf
  <1>10. ASSUME NEW k \in K PROVE k + 1 \in K
    <2> SUFFICES ASSUME k + 1 <= Width PROVE u[k + 1] + v[k + 1] + due[k + 1] = w[k + 1]
      OBVIOUS
    <2>1. k \in Nat /\ k + 1 \in 1 .. Width /\ k \in 0 .. Width /\ (k + 1) - 1 = k
          /\ u[k] + v[k] + due[k] = w[k]
      BY BaseOf
    <2>2. due[k + 1] = borrow[k + 1] /\ borrow[k + 1] \in {0, 1}
      BY <1>2, <2>1
    <2>3. due[k] = IF Owed(o, p, borrow, k + 1) THEN 1 ELSE 0
      <3>1. CASE k = 0
        BY <1>4, <2>1, <3>1
      <3>2. CASE k # 0
        <4>1. k \in 1 .. Width /\ k # Width
          BY <2>1, <3>2, BaseOf
        <4> QED
          BY <2>1, <3>2, <4>1 DEF Borrows
      <3> QED
        BY <3>1, <3>2
    <2> HIDE DEF due
    <2>4. /\ r[k + 1] = (IF Owed(o, p, borrow, k + 1) THEN o[k + 1] + Base ELSE o[k + 1]) - p[k + 1] - borrow[k + 1]
          /\ o[k + 1] \in Nat /\ p[k + 1] \in Nat
      BY <1>1, <2>1 DEF Digit
    <2>5. /\ u[k] \in Nat /\ v[k] \in Nat /\ w[k] \in Nat
          /\ u[k + 1] = u[k] * Base + r[k + 1]
          /\ v[k + 1] = v[k] * Base + p[k + 1]
          /\ w[k + 1] = w[k] * Base + o[k + 1]
      BY <1>8, <2>1
    <2>6. CASE Owed(o, p, borrow, k + 1)
      <3>1. u[k] + v[k] + 1 = w[k]
        BY <2>1, <2>3, <2>6
      <3>2. w[k] * Base = u[k] * Base + v[k] * Base + Base
        BY <2>5, <3>1, BaseOf
      <3> DEFINE x == u[k] * Base
                 y == v[k] * Base
      <3>3. x \in Nat /\ y \in Nat /\ Base \in Nat
        BY <2>5, BaseOf
      <3>4. r[k + 1] = o[k + 1] + Base - p[k + 1] - borrow[k + 1]
        <4>1. r[k + 1] = Digit(o, p, borrow, k + 1)
          BY <2>1
        <4> QED
          BY <2>2, <2>4, <2>6, <4>1, DigitOf
      <3>5. u[k + 1] = x + r[k + 1] /\ v[k + 1] = y + p[k + 1] /\ w[k + 1] = x + y + Base + o[k + 1]
        BY <2>5, <3>2
      <3> HIDE DEF x, y
      <3>6. /\ o[k + 1] \in Nat /\ p[k + 1] \in Nat /\ borrow[k + 1] \in {0, 1}
            /\ due[k + 1] = borrow[k + 1]
        BY <2>2, <2>4
      <3> QED
        BY <3>3, <3>4, <3>5, <3>6
    <2>7. CASE ~Owed(o, p, borrow, k + 1)
      <3>1. u[k] + v[k] = w[k]
        BY <2>1, <2>3, <2>5, <2>7
      <3>2. w[k] * Base = u[k] * Base + v[k] * Base
        BY <2>5, <3>1, BaseOf
      <3> DEFINE x == u[k] * Base
                 y == v[k] * Base
      <3>3. x \in Nat /\ y \in Nat
        BY <2>5, BaseOf
      <3>4. /\ u[k + 1] = x + (o[k + 1] - p[k + 1] - borrow[k + 1])
            /\ v[k + 1] = y + p[k + 1] /\ w[k + 1] = x + y + o[k + 1]
        BY <2>4, <2>5, <2>7, <3>2
      <3> HIDE DEF x, y
      <3> QED
        BY <2>2, <2>4, <3>3, <3>4, BaseOf
    <2> QED
      BY <2>6, <2>7
  <1>11. due[Width] = 0
    BY BaseOf DEF Borrows
  <1> HIDE DEF K, due
  <1>12. K = Nat
    <2>1. K \in SUBSET Nat
      BY DEF K
    <2> QED
      BY <1>9, <1>10, <2>1, AllNumbers
  <1>13. u[Width] + v[Width] + due[Width] = w[Width] /\ u[Width] \in Nat /\ v[Width] \in Nat /\ w[Width] \in Nat
    <2>1. Width \in Nat /\ Width \in 0 .. Width /\ Width <= Width
      BY BaseOf
    <2>2. Width \in K
      BY <1>12, <2>1
    <2>3. u[Width] + v[Width] + due[Width] = w[Width]
      BY <2>1, <2>2 DEF K
    <2> QED
      BY <1>8, <2>1, <2>3
  <1> QED
    BY <1>3, <1>5, <1>6, <1>7, <1>11, <1>13

(* The order without a scalar (subtractFromOrder).                         *)
LEMMA Subtracted ==
    ASSUME NEW m, Plain(m), P256!Magnitude(m) < Order
    PROVE  /\ Plain(P256!subtractFromOrder(m))
           /\ P256!Magnitude(P256!subtractFromOrder(m)) = Order - P256!Magnitude(m)
  <1> DEFINE o == P256!order
             p == P256!Padded(m)
             Rule(f) == f = [i \in 1 .. Width |-> IF i = Width THEN 0
                               ELSE IF o[i + 1] < p[i + 1] + f[i + 1] THEN 1 ELSE 0]
             borrow == CHOOSE f : Rule(f)
             r == [i \in 1 .. Width |-> Digit(o, p, borrow, i)]
  <1>1. P256!subtractFromOrder(m) = P256!Stripped(r)
    BY DEF P256!subtractFromOrder, Digit, Owed
  <1>2. m \in Seq(P256!Digits) /\ Len(m) <= Width
    BY BaseOf DEF Plain
  <1>3. /\ o \in Seq(P256!Digits) /\ Len(o) = Width /\ P256!Magnitude(o) = Order
        /\ p \in Seq(P256!Digits) /\ Len(p) = Width /\ P256!Magnitude(p) = P256!Magnitude(m)
    BY <1>2, OrderDigits, PaddedIs
  <1> HIDE DEF o, p
  <1>4. o \in [1 .. Width -> Nat] /\ p \in [1 .. Width -> Nat]
    <2>1. o \in [1 .. Width -> P256!Digits] /\ p \in [1 .. Width -> P256!Digits]
      BY <1>3, LenProperties
    <2>2. P256!Digits \subseteq Nat
      BY BaseOf DEF P256!Digits
    <2> QED
      BY <2>1, <2>2
  <1>5. Rule(borrow)
    <2>1. \E f : Rule(f)
      BY <1>4, BorrowsExist
    <2> HIDE DEF Rule
    <2> QED
      BY <2>1
  <1>6. Borrows(o, p, borrow)
    <2> HIDE DEF borrow
    <2> QED
      BY <1>5 DEF Borrows, Owed
  <1> HIDE DEF borrow
  <1>7. r = [i \in 1 .. Width |-> Digit(o, p, borrow, i)]
    OBVIOUS
  <1> HIDE DEF r
  <1>8. /\ r \in Seq(P256!Digits) /\ Len(r) = Width
        /\ P256!Magnitude(r) = Order - P256!Magnitude(m)
    BY <1>3, <1>6, <1>7, Difference
  <1>9. P256!Magnitude(r) > 0
    <2>1. P256!Magnitude(m) \in Nat
      BY <1>2, Comparison
    <2> QED
      BY <1>8, <2>1, BaseOf
  <1> QED
    BY <1>1, <1>8, <1>9, StrippedIs

(* A scalar without its sign octet, and what is sent for it.               *)
LEMMA PlainScalar ==
    ASSUME NEW m, Plain(m), P256!Magnitude(m) > 0, P256!Magnitude(m) < Order
    PROVE  /\ P256!parseInteger(P256!appendInteger(m)) = m
           /\ P256!Magnitude(P256!appendInteger(m)) = P256!Magnitude(m)
           /\ P256!parses(P256!appendInteger(m)) /\ P256!isScalar(m)
           /\ P256!GoScalar(P256!appendInteger(m))
           /\ P256!isLowS(m) <=> P256!Magnitude(m) <= Order \div 2
  <1>1. m \in Seq(P256!Digits) /\ Len(m) <= Width
    BY BaseOf DEF Plain
  <1>2. P256!isScalar(m) /\ (P256!isLowS(m) <=> P256!Magnitude(m) <= Order \div 2)
    BY <1>1, ScalarIs
  <1>3. /\ P256!appendInteger(m) \in P256!Integers /\ P256!parses(P256!appendInteger(m))
        /\ P256!parseInteger(P256!appendInteger(m)) = m
        /\ P256!Magnitude(P256!appendInteger(m)) = P256!Magnitude(m)
    BY PlainAppended
  <1>4. P256!GoScalar(P256!appendInteger(m))
    BY <1>2, <1>3, SameScalar
  <1> QED
    BY <1>2, <1>3, <1>4

LEMMA ParsedScalar ==
    ASSUME NEW bytes \in P256!Integers, P256!parses(bytes), P256!isScalar(P256!parseInteger(bytes))
    PROVE  /\ Plain(P256!parseInteger(bytes)) /\ P256!appendInteger(P256!parseInteger(bytes)) = bytes
           /\ P256!Magnitude(P256!parseInteger(bytes)) = P256!Magnitude(bytes)
           /\ P256!Magnitude(bytes) \in Nat /\ P256!Magnitude(bytes) > 0 /\ P256!Magnitude(bytes) < Order
  <1> DEFINE m == P256!parseInteger(bytes)
  <1>1. Plain(m) /\ P256!appendInteger(m) = bytes /\ P256!Magnitude(m) = P256!Magnitude(bytes)
    BY PlainParsed
  <1>2. P256!isScalar(m)
    OBVIOUS
  <1> HIDE DEF m
  <1>3. m \in Seq(P256!Digits) /\ Len(m) <= Width
    BY <1>1, BaseOf DEF Plain
  <1>4. P256!Magnitude(m) \in Nat /\ P256!Magnitude(m) > 0 /\ P256!Magnitude(m) < Order
    BY <1>2, <1>3, ScalarIs, Comparison
  <1> QED
    BY <1>1, <1>4 DEF m

-----------------------------------------------------------------------------
(* The signatures.                                                         *)

(* A signature of two integers, whatever octets they have.                 *)
SignatureIInv == signature \in [r : P256!Integers, s : P256!Integers]

LEMMA SignatureInit == P256!Init => SignatureIInv
  <1>1. <<1>> \in P256!Integers
    <2> DEFINE one == <<1>>
    <2>1. one \in Seq(P256!Digits) /\ Len(one) = 1
      BY BaseOf DEF P256!Digits
    <2> HIDE DEF one
    <2>2. Len(one) <= Width + 1
      BY <2>1, BaseOf
    <2>3. one \in P256!Integers
      BY <2>1, <2>2, IntegersAre
    <2> QED
      BY <2>3 DEF one
  <1> QED
    BY <1>1 DEF P256!Init, SignatureIInv

LEMMA SignatureStep == SignatureIInv /\ [P256!Next]_signature => SignatureIInv'
  BY DEF P256!Next, SignatureIInv

(* The scalars that the Swift codec found in a signature.                  *)
LEMMA SwiftScalars ==
    ASSUME SignatureIInv, P256!swiftScalars(signature)
    PROVE  LET r == P256!parseInteger(signature.r)  s == P256!parseInteger(signature.s) IN
           /\ Plain(r) /\ P256!appendInteger(r) = signature.r
           /\ P256!Magnitude(r) \in Nat /\ P256!Magnitude(r) > 0 /\ P256!Magnitude(r) < Order
           /\ Plain(s) /\ P256!appendInteger(s) = signature.s
           /\ P256!Magnitude(s) = P256!Magnitude(signature.s)
           /\ P256!Magnitude(s) \in Nat /\ P256!Magnitude(s) > 0 /\ P256!Magnitude(s) < Order
           /\ P256!isLowS(s) <=> P256!Magnitude(s) <= Order \div 2
  <1>1. /\ signature.r \in P256!Integers /\ signature.s \in P256!Integers
        /\ P256!parses(signature.r) /\ P256!isScalar(P256!parseInteger(signature.r))
        /\ P256!parses(signature.s) /\ P256!isScalar(P256!parseInteger(signature.s))
    BY DEF SignatureIInv, P256!swiftScalars
  <1> DEFINE r == P256!parseInteger(signature.r)
             s == P256!parseInteger(signature.s)
  <1>2. /\ Plain(r) /\ P256!appendInteger(r) = signature.r
        /\ P256!Magnitude(r) \in Nat /\ P256!Magnitude(r) > 0 /\ P256!Magnitude(r) < Order
    BY <1>1, ParsedScalar
  <1>3. /\ Plain(s) /\ P256!appendInteger(s) = signature.s
        /\ P256!Magnitude(s) = P256!Magnitude(signature.s)
        /\ P256!Magnitude(s) \in Nat /\ P256!Magnitude(s) > 0 /\ P256!Magnitude(s) < Order
    BY <1>1, ParsedScalar
  <1> HIDE DEF r, s
  <1>4. P256!isLowS(s) <=> P256!Magnitude(s) <= Order \div 2
    BY <1>3, PlainScalar
  <1> QED
    BY <1>2, <1>3, <1>4 DEF r, s

(* Both codecs take the same signatures.                                   *)
LEMMA SignaturesSame == ASSUME SignatureIInv PROVE P256!SameSignatures
  <1>1. signature.r \in P256!Integers /\ signature.s \in P256!Integers
    BY DEF SignatureIInv
  <1>2. P256!GoScalar(signature.r) /\ P256!GoScalar(signature.s) <=> P256!swiftScalars(signature)
    BY <1>1, SameScalar DEF P256!swiftScalars
  <1>3. ASSUME P256!swiftScalars(signature)
        PROVE  P256!isLowS(P256!parseInteger(signature.s)) <=> P256!Magnitude(signature.s) <= Order \div 2
    BY <1>3, SwiftScalars
  <1> QED
    BY <1>2, <1>3 DEF P256!SameSignatures, P256!ValidateP256DERSignature, P256!swiftSignature

(* A signature written from two scalars is taken, and is low when s is.    *)
LEMMA SignatureWritten ==
    ASSUME NEW r, Plain(r), P256!Magnitude(r) > 0, P256!Magnitude(r) < Order,
           NEW s, Plain(s), P256!Magnitude(s) > 0, P256!Magnitude(s) < Order,
           NEW x, x = [r |-> P256!appendInteger(r), s |-> P256!appendInteger(s)]
    PROVE  /\ P256!parseInteger(x.r) = r /\ P256!parseInteger(x.s) = s
           /\ P256!swiftScalars(x)
           /\ P256!Magnitude(x.s) = P256!Magnitude(s)
           /\ P256!swiftSignature(x) <=> P256!Magnitude(s) <= Order \div 2
           /\ P256!ValidateP256DERSignature(x) <=> P256!Magnitude(s) <= Order \div 2
  <1>1. x.r = P256!appendInteger(r) /\ x.s = P256!appendInteger(s)
    OBVIOUS
  <1>2. /\ P256!parseInteger(x.r) = r /\ P256!parses(x.r) /\ P256!isScalar(r) /\ P256!GoScalar(x.r)
    BY <1>1, PlainScalar
  <1>3. /\ P256!parseInteger(x.s) = s /\ P256!parses(x.s) /\ P256!isScalar(s) /\ P256!GoScalar(x.s)
        /\ P256!Magnitude(x.s) = P256!Magnitude(s)
        /\ P256!isLowS(s) <=> P256!Magnitude(s) <= Order \div 2
    BY <1>1, PlainScalar
  <1>4. P256!swiftScalars(x)
    BY <1>2, <1>3 DEF P256!swiftScalars
  <1> QED
    BY <1>2, <1>3, <1>4 DEF P256!swiftSignature, P256!ValidateP256DERSignature

(* The other scalar of the same signature.                                 *)
LEMMA Negated ==
    ASSUME NEW s, Plain(s), P256!Magnitude(s) \in Nat, P256!Magnitude(s) > 0, P256!Magnitude(s) < Order
    PROVE  LET other == P256!subtractFromOrder(s) IN
           /\ Plain(other) /\ P256!Magnitude(other) = Order - P256!Magnitude(s)
           /\ P256!Magnitude(other) \in Nat /\ P256!Magnitude(other) > 0 /\ P256!Magnitude(other) < Order
           /\ P256!Magnitude(other) <= Order \div 2 <=> ~(P256!Magnitude(s) <= Order \div 2)
           /\ P256!subtractFromOrder(other) = s
  <1> DEFINE other == P256!subtractFromOrder(s)
  <1>1. Plain(other) /\ P256!Magnitude(other) = Order - P256!Magnitude(s)
    BY Subtracted
  <1> HIDE DEF other
  <1>2. /\ P256!Magnitude(other) \in Nat /\ P256!Magnitude(other) > 0 /\ P256!Magnitude(other) < Order
        /\ P256!Magnitude(other) <= Order \div 2 <=> ~(P256!Magnitude(s) <= Order \div 2)
        /\ Order - P256!Magnitude(other) = P256!Magnitude(s)
    BY <1>1, BaseOf
  <1> DEFINE again == P256!subtractFromOrder(other)
  <1>3. Plain(again) /\ P256!Magnitude(again) = Order - P256!Magnitude(other)
    BY <1>1, <1>2, Subtracted
  <1> HIDE DEF again
  <1>4. again = s
    BY <1>2, <1>3, PlainUnique
  <1> QED
    BY <1>1, <1>2, <1>4 DEF other, again

(* What is sent for a signature is taken by both, and has the same r and s. *)
LEMMA NormalizedIsTaken == ASSUME SignatureIInv PROVE P256!NormalizedAccepted
  <1> DEFINE r == P256!parseInteger(signature.r)
             s == P256!parseInteger(signature.s)
             sent == IF P256!isLowS(s) THEN s ELSE P256!subtractFromOrder(s)
             low == P256!normalizeLowS(signature)
             size == P256!Magnitude(signature.s)
  <1> SUFFICES ASSUME P256!swiftScalars(signature)
               PROVE  /\ P256!ValidateP256DERSignature(low) /\ P256!swiftSignature(low)
                      /\ low.r = signature.r
                      /\ P256!Magnitude(low.s) = IF 2 * size > Order THEN Order - size ELSE size
    BY DEF P256!NormalizedAccepted
  <1>1. /\ Plain(r) /\ P256!appendInteger(r) = signature.r
        /\ P256!Magnitude(r) > 0 /\ P256!Magnitude(r) < Order
        /\ Plain(s) /\ P256!Magnitude(s) = size
        /\ P256!Magnitude(s) \in Nat /\ P256!Magnitude(s) > 0 /\ P256!Magnitude(s) < Order
        /\ P256!isLowS(s) <=> P256!Magnitude(s) <= Order \div 2
    BY SwiftScalars
  <1>2. low = [r |-> P256!appendInteger(r), s |-> P256!appendInteger(sent)]
    BY DEF P256!normalizeLowS
  <1> HIDE DEF r, s, low, size
  <1>3. 2 * size > Order <=> ~(size <= Order \div 2)
    BY <1>1, BaseOf
  <1>4. /\ Plain(sent) /\ P256!Magnitude(sent) > 0 /\ P256!Magnitude(sent) < Order
        /\ P256!Magnitude(sent) <= Order \div 2
        /\ P256!Magnitude(sent) = IF 2 * size > Order THEN Order - size ELSE size
    <2>1. CASE P256!isLowS(s)
      <3>1. sent = s
        BY <2>1
      <3> HIDE DEF sent
      <3> QED
        BY <1>1, <1>3, <2>1, <3>1
    <2>2. CASE ~P256!isLowS(s)
      <3> DEFINE other == P256!subtractFromOrder(s)
      <3>1. sent = other
        BY <2>2
      <3>2. /\ Plain(other) /\ P256!Magnitude(other) = Order - P256!Magnitude(s)
            /\ P256!Magnitude(other) > 0 /\ P256!Magnitude(other) < Order
            /\ P256!Magnitude(other) <= Order \div 2
        BY <1>1, <2>2, Negated
      <3> HIDE DEF sent, other
      <3> QED
        BY <1>1, <1>3, <2>2, <3>1, <3>2
    <2> QED
      BY <2>1, <2>2
  <1> HIDE DEF sent
  <1>5. /\ P256!Magnitude(low.s) = P256!Magnitude(sent)
        /\ P256!swiftSignature(low) /\ P256!ValidateP256DERSignature(low)
    BY <1>1, <1>2, <1>4, SignatureWritten
  <1>6. low.r = signature.r
    BY <1>1, <1>2
  <1> QED
    BY <1>4, <1>5, <1>6

(* The twin of a low signature is high, and is sent as that signature.     *)
LEMMA TwinIsTheSame == ASSUME SignatureIInv PROVE P256!TwinOfTheSame
  <1> DEFINE r == P256!parseInteger(signature.r)
             s == P256!parseInteger(signature.s)
             other == P256!subtractFromOrder(s)
             twin == P256!equivalentHighSDER(signature)
  <1> SUFFICES ASSUME P256!swiftSignature(signature)
               PROVE  /\ P256!swiftScalars(twin) /\ ~P256!swiftSignature(twin)
                      /\ P256!normalizeLowS(twin) = signature
    BY DEF P256!TwinOfTheSame
  <1>1. P256!swiftScalars(signature) /\ P256!isLowS(s)
    BY DEF P256!swiftSignature
  <1>2. /\ Plain(r) /\ P256!appendInteger(r) = signature.r
        /\ P256!Magnitude(r) > 0 /\ P256!Magnitude(r) < Order
        /\ Plain(s) /\ P256!appendInteger(s) = signature.s
        /\ P256!Magnitude(s) \in Nat /\ P256!Magnitude(s) > 0 /\ P256!Magnitude(s) < Order
        /\ P256!Magnitude(s) <= Order \div 2
    BY <1>1, SwiftScalars
  <1>3. twin = [r |-> P256!appendInteger(r), s |-> P256!appendInteger(other)]
    BY DEF P256!equivalentHighSDER
  <1> HIDE DEF r, s, twin
  <1>4. /\ Plain(other) /\ P256!Magnitude(other) > 0 /\ P256!Magnitude(other) < Order
        /\ ~(P256!Magnitude(other) <= Order \div 2)
        /\ P256!subtractFromOrder(other) = s
    BY <1>2, Negated
  <1> HIDE DEF other
  <1>5. /\ P256!parseInteger(twin.r) = r /\ P256!parseInteger(twin.s) = other
        /\ P256!swiftScalars(twin) /\ ~P256!swiftSignature(twin)
    BY <1>2, <1>3, <1>4, SignatureWritten
  <1>6. ~P256!isLowS(other)
    BY <1>5 DEF P256!swiftSignature
  <1>7. P256!normalizeLowS(twin) = [r |-> signature.r, s |-> signature.s]
    BY <1>2, <1>4, <1>5, <1>6 DEF P256!normalizeLowS
  <1>8. signature = [r |-> signature.r, s |-> signature.s]
    BY DEF SignatureIInv
  <1> QED
    BY <1>5, <1>7, <1>8

LEMMA SignatureAgrees == SignatureIInv => P256!SignatureInv
  BY SignaturesSame, NormalizedIsTaken, TwinIsTheSame DEF P256!SignatureInv

-----------------------------------------------------------------------------
(* The parts of the protocol together.                                     *)

ApprovalIInv == CeremonyIInv /\ ExchangeIInv

NothingForgotten ==
    \A i \in DOMAIN history.keys :
         LET before == history.keys[i]  after == history'.keys[i] IN
         /\ i \in DOMAIN history'.keys
         /\ after.key = before.key
         /\ after.status = "active" => before.status = "active"
         /\ before.status = "revoked" => after.status = "revoked"

LEMMA ApprovalInitially == MCInit => ApprovalIInv
  BY CeremonyInitially, ExchangeInitially DEF MCInit, ApprovalIInv

LEMMA ApprovalSteps ==
    ASSUME ApprovalIInv, [MCNext]_<<part, ceremonyVars, exchangeVars, received, signature>>
    PROVE  ApprovalIInv' /\ [NothingForgotten]_vars
  <1>1. CeremonyIInv /\ ExchangeIInv /\ RegistryInv
    BY DEF ApprovalIInv, CeremonyIInv
  <1>2. ASSUME UNCHANGED ceremonyVars PROVE CeremonyIInv' /\ UNCHANGED vars
    BY <1>1, <1>2, CeremonyKeeps DEF ceremonyVars
  <1>3. ASSUME UNCHANGED exchangeVars PROVE ExchangeIInv'
    BY <1>1, <1>3, ExchangeKeeps DEF exchangeVars, Exchange!vars
  <1>4. CASE Next /\ UNCHANGED <<step, transcript, spent, changes, exchangeVars>>
    <2>1. PICK kind \in Kinds, c \in Changes(history), d \in Changes(history) :
            \E r \in Supplied(history, kind, c, d) : Supply(r)
      BY <1>4 DEF Next
    <2>2. PICK r \in Supplied(history, kind, c, d) : Supply(r)
      BY <2>1
    <2>3. r.body.fresh = None \/ r.body.fresh \in [generation : Nat, id : Nat, spki : Nat]
      BY <1>1, FreshSupplied DEF RegistryInv
    <2>4. RegistryInv' /\ NothingForgotten
      BY <1>1, <2>2, <2>3, SupplyKeeps, SupplyForgetsNothing DEF NothingForgotten
    <2>5. history'.revision = history.revision + 1 /\ history.revision \in Nat
      <3>1. TypeOK /\ GoAccepts(history, r) /\ history' = GoAdvance(history, r)
        BY <1>1, <2>2 DEF RegistryInv, Supply
      <3> QED
        BY <3>1, ActiveKeys, AcceptedFits DEF GoAdvance
    <2>6. SpentBefore'
      BY <1>1, <1>4, <2>5 DEF CeremonyIInv, SpentBefore
    <2>7. CeremonyTypeOK' /\ TimesWritten'
      BY <1>1, <1>4, <2>4 DEF CeremonyIInv, CeremonyTypeOK, TimesWritten, RegistryInv
    <2> QED
      BY <1>3, <1>4, <2>4, <2>6, <2>7 DEF ApprovalIInv, CeremonyIInv
  <1>5. CASE CeremonyNext /\ UNCHANGED exchangeVars
    <2>1. CeremonyIInv'
      BY <1>1, <1>5, CeremonyKeeps
    <2>2. Accept => NothingForgotten
      BY <1>1, AcceptSupplies, SupplyForgetsNothing DEF NothingForgotten
    <2>3. Accept \/ UNCHANGED vars
      BY <1>5 DEF CeremonyNext, WriteRequest, WriteEvidence, WriteProposal, WriteAcceptance, WriteRecord,
                  Writing, Refuse
    <2> QED
      BY <1>3, <1>5, <2>1, <2>2, <2>3 DEF ApprovalIInv
  <1>6. CASE Exchange!Next /\ UNCHANGED ceremonyVars
    BY <1>1, <1>2, <1>6, ExchangeKeeps DEF ApprovalIInv
  <1>7. CASE UNCHANGED <<ceremonyVars, exchangeVars>>
    BY <1>2, <1>3, <1>7 DEF ApprovalIInv
  <1> QED
    BY <1>4, <1>5, <1>6, <1>7 DEF MCNext

LEMMA ApprovalAlways == MCSpec => [](ApprovalIInv /\ RegistryInv /\ SameCeremonyVerdict /\ CeremonyInv /\ Exchange!ExchangeInv)
  <1>1. ApprovalIInv => RegistryInv /\ SameCeremonyVerdict /\ CeremonyInv /\ Exchange!ExchangeInv
    BY CeremonyIsSound, ExchangeIsSound DEF ApprovalIInv
  <1>2. ApprovalIInv /\ [MCNext]_<<part, ceremonyVars, exchangeVars, received, signature>> => ApprovalIInv'
    BY ApprovalSteps
  <1> QED
    BY <1>1, <1>2, ApprovalInitially, PTL DEF MCSpec

(* Whatever is supplied, and to whatever length, the Go and the Swift      *)
(* replay accept the same next records; the prefix they accepted is gap    *)
(* free, its keys are as its records say, one is active at most, none      *)
(* returns under another name, and each proved possession                  *)
(* (ReplaySuppliedRegistryRecord, SuppliedRegistryHistory.swift).          *)
THEOREM RegistryReplayed == MCSpec => []RegistrySound
  <1>1. RegistryInv => RegistrySound
    BY DEF RegistrySound
  <1> QED
    BY <1>1, ApprovalAlways, PTL

(* No record and no ceremony makes an earlier key active again, forgives a *)
(* revoked one, or forgets or renames any (advanceSuppliedRegistryHistory).*)
THEOREM NoKeyComesBack == MCSpec => NoComeback
  <1>1. ApprovalIInv /\ [MCNext]_<<part, ceremonyVars, exchangeVars, received, signature>>
          => ApprovalIInv' /\ [NothingForgotten]_vars
    BY ApprovalSteps
  <1>2. MCSpec => [][NothingForgotten]_vars
    BY <1>1, ApprovalInitially, PTL DEF MCSpec
  <1> QED
    BY <1>2 DEF NoComeback, NothingForgotten

(* Both programs accept the same ceremony transcripts, whatever was edited *)
(* in how many documents (VerifySuppliedRegistryCeremony and               *)
(* SuppliedRegistryCeremony.swift).                                        *)
THEOREM SameCeremonies == MCSpec => []CeremonySame
  <1>1. SameCeremonyVerdict => CeremonySame
    BY DEF CeremonySame
  <1> QED
    BY <1>1, ApprovalAlways, PTL

(* A transcript that is accepted was consented to and proposed by the      *)
(* holder of the key, in one window and, for a recovery, with evidence of  *)
(* the state it recovers from; and once accepted it is refused ever after  *)
(* (VerifySuppliedRegistryCeremony).                                       *)
THEOREM ConsentGoverns == MCSpec => []CeremonySound
  <1>1. CeremonyInv => CeremonySound
    BY DEF CeremonySound
  <1> QED
    BY <1>1, ApprovalAlways, PTL

(* For any number of requests and plans, clocks apart by anything, and any *)
(* lifetime and skew: a receipt counts for the request it answers and no   *)
(* other, in time, every honest one is taken, and both validators agree    *)
(* about every answer (DecodeAndValidateIPCResponse and                    *)
(* decodeAndValidateResponse).                                             *)
THEOREM ReceiptsCountForTheirRequest == MCSpec => []ExchangeSound
  <1>1. Exchange!ExchangeInv => ExchangeSound
    BY DEF ExchangeSound
  <1> QED
    BY <1>1, ApprovalAlways, PTL

LEMMA CodecsAlways == MCSpec => [](TextIInv /\ SignatureIInv)
  <1>1. MCInit => TextIInv /\ SignatureIInv
    BY TextInit, SignatureInit DEF MCInit
  <1>2. ASSUME TextIInv, SignatureIInv,
               [MCNext]_<<part, ceremonyVars, exchangeVars, received, signature>>
        PROVE  TextIInv' /\ SignatureIInv'
    <2>1. ASSUME UNCHANGED received PROVE TextIInv'
      BY <1>2, <2>1, TextStep
    <2>2. ASSUME UNCHANGED signature PROVE SignatureIInv'
      BY <1>2, <2>2, SignatureStep
    <2>3. CASE Text!Next /\ UNCHANGED signature
      BY <1>2, <2>2, <2>3, TextStep
    <2>4. CASE P256!Next /\ UNCHANGED received
      BY <1>2, <2>1, <2>4, SignatureStep
    <2>5. CASE UNCHANGED <<received, signature>>
      BY <2>1, <2>2, <2>5
    <2> QED
      BY <1>2, <2>3, <2>4, <2>5 DEF MCNext
  <1>3. TextIInv /\ SignatureIInv /\ [MCNext]_<<part, ceremonyVars, exchangeVars, received, signature>>
          => (TextIInv /\ SignatureIInv)'
    BY <1>2
  <1> QED
    BY <1>1, <1>3, PTL DEF MCSpec

(* For texts of any number of fields, any longest lifetime and any number  *)
(* of revisions: the Go and the Swift decoder take the same texts but for  *)
(* a receipt issued at the first second of the year 1, which only Swift    *)
(* takes, and each of them is what the encoder writes of the receipt it    *)
(* decodes to (ParseReceiptBytes and ApprovalReceipt.init(receiptBytes:)). *)
THEOREM TextsAreOne == MCSpec => []TextsAgree
  <1>1. TextIInv => TextsAgree
    BY TextAgrees DEF TextsAgree
  <1> QED
    BY <1>1, CodecsAlways, PTL

(* For signatures whose bytes have any even base over two and whose        *)
(* scalars have any width and any odd order with the sign bit in its first *)
(* byte: the Go and the Swift codec take the same signatures; what the     *)
(* helper sends for a signature is taken by both, and the twin of a low    *)
(* signature is the high form of the same (codec.go and P256.swift).       *)
THEOREM SignaturesAreOne == MCSpec => []SignaturesAgree
  <1>1. SignatureIInv => SignaturesAgree
    BY SignatureAgrees DEF SignaturesAgree
  <1> QED
    BY <1>1, CodecsAlways, PTL

(* Both codecs of both programs.                                           *)
THEOREM CodecsAreOne == MCSpec => []CodecsAgree
  <1>1. TextsAgree /\ SignaturesAgree => CodecsAgree
    BY DEF CodecsAgree
  <1> QED
    BY <1>1, TextsAreOne, SignaturesAreOne, PTL
=============================================================================
