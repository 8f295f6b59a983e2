--------------------------- MODULE MCCredentials ---------------------------
(* Where a credential comes from and where it is kept, one part at a time: *)
(* two logins, one after the other or both at once; the payload through    *)
(* logins, uses and refreshes; and the Keychain item it is in.  What the   *)
(* parts pass on is a token, so a behaviour is of one of them and the      *)
(* variables of the others keep their first value.                         *)
EXTENDS LoopbackLogin, TLC

CONSTANTS ScopeNames, MaxScopes, Configured, Topologies

VARIABLES part,
    profile, stored, issuer, granted, told,
    item, installed, command, pc, attempt, ref, access, ended, vouched, touched, settled

payloadVars == <<profile, stored, issuer, granted, told>>
itemVars == <<item, installed, command, pc, attempt, ref, access, ended, vouched, touched, settled>>

Payload == INSTANCE StoredCredential

Keychain == INSTANCE KeychainItem WITH told <- ended

ASSUME PayloadAssumption == Payload!StoredAssumption

(* Two lists that share a scope.                                           *)
MCConfigured == {<<1, 2>>, <<1, 3>>}

MCSymmetry == Permutations(Logins)

(* No payload at all.                                                      *)
Nothing == [kind |-> "none"]

MCInit ==
    /\ Init /\ Keychain!Init
    /\ \/ part = "payload" /\ Payload!Init
       \/ /\ part \in {"login", "item"}
          /\ profile = Payload!NoProfile /\ stored = Nothing /\ issuer = Payload!NoProfile
          /\ granted = {} /\ told = "nothing"

MCNext ==
    /\ UNCHANGED part
    /\ \/ part = "login" /\ Next /\ UNCHANGED <<payloadVars, itemVars>>
       \/ part = "payload" /\ Payload!Next /\ UNCHANGED <<vars, itemVars>>
       \/ part = "item" /\ Keychain!Next /\ UNCHANGED <<vars, payloadVars>>

MCSpec == MCInit /\ [][MCNext]_<<part, vars, payloadVars, itemVars>>

-----------------------------------------------------------------------------
(* What is stored claims no scope the server did not grant, is usable      *)
(* after a login, and loses no refresh (internal/auth/store.go).           *)
CredentialSound == part = "payload" => Payload!CredentialInv

(* A token is presented only for the profile it was issued for, and a      *)
(* failed login puts back exactly what it found.                           *)
CredentialSteps == Payload!CredentialSteps

(* What this program wrote or migrated and nobody touched, it alone reads  *)
(* without a question (internal/auth/keychain_darwin.go).                  *)
ItemSound == Keychain!ItemInv

(* Whoever else works on the item, a token is written only into one that   *)
(* was found exclusive, and nothing else is changed or removed.            *)
ItemSteps == Keychain!ItemSteps
=============================================================================
