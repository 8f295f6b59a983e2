-------------------------- MODULE StoredCredential --------------------------
(***************************************************************************)
(* What is stored of a credential, and with which profile it may be used   *)
(* (internal/auth/store.go): the payload of two versions, the binding to   *)
(* the profile of the login, and the scopes that the server granted,       *)
(* through logins, failed logins that put the old credential back, uses    *)
(* and refreshes.                                                          *)
(*                                                                         *)
(* Version 1 did not store the granted scopes: its grants were complete.   *)
(* The Keychain item starts with any payload at all.  Every command runs   *)
(* under the profile's lock; the crash windows of these commands are in    *)
(* CredentialTransaction.                                                  *)
(***************************************************************************)
EXTENDS Naturals, Sequences, SequencesExt

CONSTANTS
    ScopeNames,   \* numbers, in the order of their spelling
    MaxScopes,    \* the longest list of scopes in a payload or an answer
    Configured,   \* the lists of scopes that a profile may be configured with
    Topologies    \* the services, accounts and endpoints of a profile

ScopeLists == UNION {[1 .. n -> ScopeNames] : n \in 0 .. MaxScopes}

ValidateScopes(list) ==
    list # <<>> /\ \A i \in 1 .. Len(list) - 1 : list[i] < list[i + 1]

StoredAssumption ==
    /\ ScopeNames \subseteq Nat /\ MaxScopes \in Nat
    /\ Configured # {} /\ Configured \subseteq ScopeLists /\ \A list \in Configured : ValidateScopes(list)
    /\ 0 \notin Topologies

CapabilitySets == {{"read"}, {"read", "write"}}

(* A new generation, like a new token, is another one than the last.       *)
Generations == {1, 2}
Tokens == {1, 2}
Other(n) == 3 - n

ProfilesAt(generations) ==
    [topology : Topologies, generation : generations, capabilities : CapabilitySets, scopes : Configured]

NoProfile == [topology |-> 0, generation |-> 0, capabilities |-> {}, scopes |-> <<>>]

(* A field of a credential without a value, or with one no token may have. *)
Empty == 0
Malformed == 3
Part == 4      \* some of the fields of an OAuth credential

VARIABLES
    profile,   \* in the registry
    stored,    \* the payload of the Keychain item
    issuer,    \* the profile that the token in it was issued for
    granted,   \* the scopes that the server granted it
    told       \* how the last command ended

vars == <<profile, stored, issuer, granted, told>>

-----------------------------------------------------------------------------
Unbound == [identity |-> NoProfile, generation |-> 0, capabilities |-> {}]

(* The identity is a digest of the whole profile.                          *)
CredentialIdentity(p) == p

BindingOf(p) ==
    [identity |-> CredentialIdentity(p), generation |-> p.generation, capabilities |-> p.capabilities]

ValidateToken(token) == token \in Tokens

Validate(c) ==
    /\ CASE c.kind = "permanent-token" -> ValidateToken(c.token) /\ c.oauth = Empty /\ c.scopes = <<>>
         [] c.kind = "oauth" -> /\ ValidateToken(c.oauth) /\ c.token = Empty
                                /\ c.scopes # <<>> => ValidateScopes(c.scopes)
         [] OTHER -> FALSE
    /\ IF c.binding = Unbound THEN ~c.legacyOAuthScopes
       ELSE c.binding.identity # NoProfile /\ c.binding.generation # 0 /\ "read" \in c.binding.capabilities

(* Both lists are walked once, from their smallest scope on: at[i] is where *)
(* scope i is met, and what is passed on the way there is smaller.         *)
scopeSubset(list, allowed) ==
    \E at \in [1 .. Len(list) -> 1 .. Len(allowed)] : \A i \in 1 .. Len(list) :
        LET last == IF i = 1 THEN 0 ELSE at[i - 1] IN
        /\ last < at[i] /\ allowed[at[i]] = list[i]
        /\ \A j \in last + 1 .. at[i] - 1 : allowed[j] < list[i]

validGrantedScopes(list, allowed) == ValidateScopes(list) /\ scopeSubset(list, allowed)

(* Broken variant: the credential belongs to the login, wherever that was. *)
AnyTopology(c, p) ==
    /\ Validate(c) /\ p.generation # 0
    /\ c.binding.generation = p.generation /\ c.binding.capabilities = p.capabilities

ValidateCredentialBinding(c, p) ==
    /\ Validate(c) /\ p.generation # 0 /\ c.binding = BindingOf(p)
    /\ c.kind = "oauth" => IF c.scopes = <<>> THEN c.legacyOAuthScopes ELSE scopeSubset(c.scopes, p.scopes)

BindCredential(c, p) ==
    LET filled == IF c.kind = "oauth" /\ c.scopes = <<>> THEN p.scopes ELSE c.scopes IN
    [c EXCEPT !.scopes = filled, !.binding = BindingOf(p)]

Bindable(c, p) ==
    /\ Validate(c) /\ c.binding = Unbound /\ p.generation # 0
    /\ c.kind = "oauth" => c.scopes = <<>> \/ scopeSubset(c.scopes, p.scopes)

-----------------------------------------------------------------------------
(* The payload: the version of its prefix and the one inside, the fields,  *)
(* whether there is a scopes field, and anything that does not belong.     *)
Payload(c, version) ==
    [prefix |-> version, version |-> version, kind |-> c.kind, token |-> c.token, oauth |-> c.oauth,
     scopes |-> c.scopes, scopesPresent |-> c.scopes # <<>>, binding |-> c.binding, extra |-> FALSE]

Encodable(c) ==
    /\ Validate(c) /\ c.binding.identity # NoProfile
    /\ c.kind = "oauth" => c.scopes # <<>> \/ c.legacyOAuthScopes

(* Broken variant: a version 1 credential stays one.                       *)
LegacyForGood(c) == Payload(c, IF c.legacyOAuthScopes THEN 1 ELSE 2)

encodeCredentialValue(c) ==
    Payload(c, IF c.kind = "oauth" /\ c.legacyOAuthScopes /\ c.scopes = <<>> THEN 1 ELSE 2)

credentialOf(v) ==
    [kind |-> v.kind, token |-> v.token, oauth |-> v.oauth, scopes |-> v.scopes, binding |-> v.binding,
     legacyOAuthScopes |-> v.version = 1 /\ v.kind = "oauth"]

decodes(v) ==
    /\ v.prefix \in {1, 2} /\ v.version = v.prefix /\ ~v.extra
    /\ v.version = 1 => ~v.scopesPresent
    /\ Validate(credentialOf(v))
    /\ v.version = 2 => v.scopesPresent = (v.kind = "oauth") /\ (v.kind = "oauth" => v.scopes # <<>>)

(* The Keychain item before the first command: whatever is there.          *)
Payloads(p) ==
    LET Framed(frames, fields) ==
          {[prefix |-> f.prefix, version |-> f.version, extra |-> f.extra, kind |-> c.kind, token |-> c.token,
            oauth |-> c.oauth, scopes |-> c.scopes, scopesPresent |-> TRUE, binding |-> c.binding]
             : f \in frames, c \in fields}
        Fields == [kind : {"oauth", "permanent-token", "odd"}, token : {Empty, 1, Malformed},
                   oauth : {Empty, 1, Malformed, Part}, scopes : ScopeLists,
                   binding : {Unbound, [Unbound EXCEPT !.identity = p], BindingOf(p),
                              BindingOf([p EXCEPT !.generation = Other(p.generation)])}]
        Frames == [prefix : 0 .. 2, version : {1, 2}, extra : BOOLEAN]
    IN
    Framed({f \in Frames : f.prefix = f.version /\ ~f.extra}, Fields)
        \cup Framed(Frames, {c \in Fields : c.kind = "permanent-token" /\ c.scopes = <<>> /\ c.binding = BindingOf(p)})

Absent(v) == [v EXCEPT !.scopes = <<>>, !.scopesPresent = FALSE]

-----------------------------------------------------------------------------
Ended(how) == told' = how

(* The answer of the server names the scopes it granted, in any order, or  *)
(* says nothing: then it granted what was asked for.                       *)
Silent == [named |-> FALSE, scopes |-> <<>>]
Answers == {Silent} \cup [named : {TRUE}, scopes : ScopeLists \ {<<>>}]

Sorted(list) ==
    LET Positions == 1 .. Len(list)
        order == CHOOSE p \in Bijection(Positions, Positions) :
                    \A i, j \in Positions : i < j => list[p[i]] <= list[p[j]]
    IN [i \in Positions |-> list[order[i]]]

grantedScopes(answer, allowed) ==
    IF answer.named THEN Sorted(answer.scopes) ELSE allowed

Acceptable(answer, allowed) ==
    answer.named => validGrantedScopes(Sorted(answer.scopes), allowed)

(* The server's side of it.                                                *)
Issued(answer, before, p) ==
    /\ granted' = IF answer.named THEN ToSet(answer.scopes) ELSE before
    /\ issuer' = p

NewToken == Other(IF stored.kind = "oauth" THEN stored.oauth ELSE stored.token)

Fresh(kind, scopes) ==
    [kind |-> kind, token |-> IF kind = "oauth" THEN Empty ELSE NewToken,
     oauth |-> IF kind = "oauth" THEN NewToken ELSE Empty,
     scopes |-> scopes, binding |-> Unbound, legacyOAuthScopes |-> FALSE]

(* A login replaces what it could read; if the profile cannot be published *)
(* the old credential is put back, as it was decoded.                      *)
RollBack(new, answer, p) ==
    LET previous == credentialOf(stored) IN
    IF Encodable(previous)
    THEN Ended("rolled back") /\ stored' = encodeCredentialValue(previous) /\ UNCHANGED <<issuer, granted>>
    ELSE Ended("not rolled back") /\ stored' = encodeCredentialValue(new) /\ Issued(answer, ToSet(profile.scopes), p)

Login(kind, answer, published) ==
    LET scopes == IF kind = "oauth" THEN grantedScopes(answer, profile.scopes) ELSE <<>>
        p == [profile EXCEPT !.generation = Other(profile.generation)]
        raw == Fresh(kind, scopes)
        new == BindCredential(raw, p)
    IN
    /\ kind = "oauth" => Acceptable(answer, profile.scopes)
    /\ IF ~decodes(stored) \/ ~Bindable(raw, p) \/ ~Encodable(new)
       THEN Ended("refused") /\ UNCHANGED <<profile, stored, issuer, granted>>
       ELSE IF published
       THEN Ended("logged in") /\ profile' = p /\ stored' = encodeCredentialValue(new)
            /\ Issued(answer, ToSet(profile.scopes), p)
       ELSE RollBack(new, answer, p) /\ UNCHANGED profile

Usable == decodes(stored) /\ ValidateCredentialBinding(credentialOf(stored), profile)

Use ==
    /\ Ended(IF Usable THEN "used" ELSE "refused")
    /\ UNCHANGED <<profile, stored, issuer, granted>>

(* A refresh asks for the scopes it has, a version 1 credential for all    *)
(* that are configured, and gets no others.                                *)
Refresh(answer) ==
    LET held == credentialOf(stored)
        current == IF held.scopes = <<>> THEN profile.scopes ELSE held.scopes
        scopes == grantedScopes(answer, current)
        new == [held EXCEPT !.oauth = NewToken, !.scopes = scopes]
    IN
    /\ Usable /\ stored.kind = "oauth" /\ validGrantedScopes(current, profile.scopes)
    /\ Acceptable(answer, current)
    /\ IF ValidateCredentialBinding(new, profile) /\ Encodable(new)
       THEN Ended("refreshed") /\ stored' = encodeCredentialValue(new) /\ Issued(answer, granted, profile)
       ELSE Ended("uncertain") /\ UNCHANGED <<stored, issuer, granted>>
    /\ UNCHANGED profile

(* The file with the profiles is edited by hand.                           *)
Edit(p) ==
    /\ p # profile /\ p.generation = profile.generation
    /\ profile' = p /\ Ended("edited")
    /\ UNCHANGED <<stored, issuer, granted>>

-----------------------------------------------------------------------------
Init ==
    /\ profile \in ProfilesAt({1}) /\ profile.capabilities = {"read", "write"}
    /\ \E v \in Payloads(profile) : stored \in {v, Absent(v)}
    /\ issuer = stored.binding.identity
    /\ granted = ToSet(IF stored.scopesPresent THEN stored.scopes ELSE profile.scopes)
    /\ told = "nothing"

Next ==
    \/ \E published \in BOOLEAN :
         \/ Login("permanent-token", Silent, published)
         \/ \E answer \in Answers : Login("oauth", answer, published)
    \/ Use
    \/ \E answer \in Answers : Refresh(answer)
    \/ \E p \in ProfilesAt({profile.generation}) : Edit(p)

Spec == Init /\ [][Next]_vars

-----------------------------------------------------------------------------
TypeOK ==
    /\ profile \in ProfilesAt(Generations)
    /\ stored.scopes \in ScopeLists /\ granted \subseteq ScopeNames
    /\ told = "logged in" => stored.version = 2 /\ stored.scopesPresent = (stored.kind = "oauth")
    /\ told \in {"nothing", "refused", "logged in", "rolled back", "not rolled back", "used", "refreshed",
                 "uncertain", "edited"}

(* A token is only ever presented for the profile it was issued for, as it *)
(* was then: not to a service that was edited into the profile, and not    *)
(* with the token of an earlier login.                                     *)
TokenStaysHome ==
    told' \in {"used", "refreshed", "uncertain"} =>
      issuer.topology = profile.topology /\ issuer.generation = profile.generation

(* A failed login puts back what it found, if it was bound at all.         *)
(* Version 1 OAuth payloads keep their bytes: nothing in them says which   *)
(* scopes were granted, and a guess is not written down.                   *)
RestoredExactly ==
    \A how \in {"rolled back", "not rolled back"} :
      told' = how /\ stored.binding # Unbound =>
         /\ Encodable(credentialOf(stored))
         /\ credentialOf(stored') = credentialOf(stored)
         /\ stored.kind = "oauth" => stored' = stored

(* What is stored claims no scope that the server did not grant, however   *)
(* often it is refreshed and whatever the profile is edited to.            *)
NeverWidened ==
    decodes(stored) /\ stored.kind = "oauth" /\ stored.binding # Unbound =>
        ToSet(stored.scopes) \subseteq granted

(* The server has rotated the token when the answer is checked: no answer  *)
(* that the client accepts is thrown away afterwards.                      *)
RefreshKept == told # "uncertain"

(* A login leaves a credential that the next command can use.              *)
LoginDelivers == told \in {"logged in", "refreshed"} => Usable

(* What is stored is granted, kept and usable.                             *)
CredentialInv == TypeOK /\ NeverWidened /\ RefreshKept /\ LoginDelivers

(* Who gets the token, and what a failed login leaves.                     *)
CredentialSteps == [][TokenStaysHome /\ RestoredExactly]_vars
=============================================================================
