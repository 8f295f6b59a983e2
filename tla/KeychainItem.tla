---------------------------- MODULE KeychainItem ----------------------------
(***************************************************************************)
(* The Keychain item of one profile (internal/auth/keychain_darwin.go).    *)
(* A command resolves the item of this name, checks that its access is for *)
(* this very program and nobody else, and then works on what it resolved;  *)
(* the access is changed by a migration only.                              *)
(*                                                                         *)
(* The commands of one profile exclude each other, but the person and      *)
(* other programs work in the Keychain between any two of their calls:     *)
(* they remove the item, add another one of the same name, and edit the    *)
(* access or the secret.  An update of the program makes it another one    *)
(* for the Keychain.  A reference names one item, and fails when that item *)
(* is gone.                                                                *)
(***************************************************************************)
EXTENDS Naturals, FiniteSets

Builds == {1, 2}

(* Who may decrypt: how many entries say so, which programs the entry      *)
(* lists (or all: no list), whether it wants the passphrase, and what else *)
(* it says of prompts.  Of two entries nobody reads what they say.         *)
NoACL == [count |-> 0, listed |-> TRUE, applications |-> {}, passphrase |-> FALSE, other |-> FALSE]
ACLs ==
    [count : {1}, listed : BOOLEAN, applications : SUBSET Builds, passphrase : BOOLEAN, other : BOOLEAN]
    \cup {NoACL, [NoACL EXCEPT !.count = 2]}

NoItem == [id |-> 0, secret |-> "none", acl |-> NoACL]

VARIABLES
    item,       \* the item of this name, if any
    installed,  \* the program that a command runs
    command,    \* what the running command does
    pc,
    attempt,    \* of a save
    ref,        \* the item it resolved
    access,     \* the access that a migration copied and changed
    told,       \* how it ended
    vouched,    \* the item that was exclusively this program's when it looked
    touched,    \* somebody else worked on the item since the command began
    settled     \* nobody did since this program wrote or migrated the item

local == <<command, pc, attempt, ref, access, told, vouched>>
vars == <<item, installed, local, touched, settled>>

Commands == {"load", "save", "delete", "migrate"}

-----------------------------------------------------------------------------
(* One entry, for this program, without the passphrase.                    *)
Exclusive(acl) ==
    acl.count = 1 /\ acl.listed /\ acl.applications = {installed} /\ ~acl.passphrase

applicationListIsCurrent(acl) == acl.listed /\ acl.applications = {installed}

Ambiguous(acl) == acl.count # 1

(* What the access becomes; it is another one if a flag or the list is.    *)
normalizeCurrentApplicationACL(acl) ==
    [acl EXCEPT !.passphrase = FALSE, !.listed = TRUE, !.applications = {installed}]

Changed(acl) == ~applicationListIsCurrent(acl) \/ acl.passphrase

(* The Keychain lets this program decrypt without asking anybody.          *)
Permits(acl) == (acl.listed => installed \in acl.applications) /\ ~acl.passphrase

Gone == item.id = 0 \/ item.id # ref

-----------------------------------------------------------------------------
Goto(place) == pc' = place /\ UNCHANGED told

Return(how) == pc' = "idle" /\ told' = how

(* An item that this program did not write keeps its own secret.           *)
Begin(what) ==
    /\ pc = "idle"
    /\ command' = what /\ Goto(IF what = "migrate" THEN "exists" ELSE "resolve")
    /\ attempt' = 1 /\ ref' = 0 /\ access' = NoACL /\ vouched' = 0 /\ touched' = FALSE
    /\ item' = IF item.secret = "new" THEN [item EXCEPT !.secret = "old"] ELSE item
    /\ UNCHANGED <<installed, settled>>

Exists ==
    /\ pc = "exists"
    /\ IF item.id = 0 THEN Return("not found") ELSE Goto("resolve")
    /\ UNCHANGED <<item, installed, command, attempt, ref, access, vouched, touched, settled>>

Resolve ==
    /\ pc = "resolve"
    /\ IF item.id = 0
       THEN /\ CASE command = "save" -> Goto("add")
                 [] command = "delete" -> Return("ok")
                 [] OTHER -> Return("not found")
            /\ UNCHANGED ref
       ELSE /\ Goto(CASE command \in {"load", "save"} -> "check"
                      [] command = "delete" -> "delete"
                      [] OTHER -> "copy")
            /\ ref' = item.id
    /\ UNCHANGED <<item, installed, command, attempt, access, vouched, touched, settled>>

(* itemAccessIsCompatible, before the operation may run.                   *)
runCompatibleKeychainOperation ==
    /\ IF Gone THEN Return("failed")
       ELSE IF Ambiguous(item.acl) THEN Return("ambiguous")
       ELSE IF Changed(item.acl) THEN Return("migration required")
       ELSE Goto("work")
    /\ vouched' = IF ~Gone /\ Exclusive(item.acl) THEN ref ELSE vouched

Check ==
    /\ pc = "check"
    /\ runCompatibleKeychainOperation
    /\ UNCHANGED <<item, installed, command, attempt, ref, access, touched, settled>>

(* The value is asked for by name.                                         *)
Load ==
    /\ pc = "work" /\ command = "load"
    /\ IF item.id = 0 THEN Return("not found")
       ELSE IF ~Permits(item.acl) THEN Return("interaction")
       ELSE Return("ok")
    /\ UNCHANGED <<item, installed, command, attempt, ref, access, vouched, touched, settled>>

(* Broken variant: the update goes to the name instead of the item.        *)
UpdateByName ==
    IF item.id = 0 THEN Return("not found") /\ UNCHANGED <<item, settled>>
    ELSE /\ Return("ok") /\ item' = [item EXCEPT !.secret = "new"]
         /\ settled' = ~touched

UpdateItem ==
    IF Gone THEN Return("not found") /\ UNCHANGED <<item, settled>>
    ELSE /\ Return("ok") /\ item' = [item EXCEPT !.secret = "new"]
         /\ settled' = ~touched

Update ==
    /\ pc = "work" /\ command = "save"
    /\ UpdateItem
    /\ UNCHANGED <<installed, command, attempt, ref, access, vouched, touched>>

(* The access of a new item, as the system makes it for this program.      *)
Creatable == {acl \in ACLs : Ambiguous(acl) \/ applicationListIsCurrent(acl)}

(* Broken variant: a new item keeps the access that the system made.       *)
AsCreated(acl) == acl

NewAccess(acl) == normalizeCurrentApplicationACL(acl)

(* Somebody added the item meanwhile: it is looked up once more.           *)
Duplicate ==
    IF attempt = 1 THEN Goto("resolve") /\ attempt' = 2 ELSE Return("failed") /\ UNCHANGED attempt

Add ==
    /\ pc = "add"
    /\ \E acl \in Creatable :
         IF Ambiguous(acl)
         THEN Return("ambiguous") /\ UNCHANGED <<item, attempt, vouched, settled>>
         ELSE IF item.id = 0
         THEN /\ item' = [id |-> IF ref = 1 THEN 2 ELSE 1, secret |-> "new", acl |-> NewAccess(acl)]
              /\ Return("ok")
              /\ vouched' = item'.id /\ settled' = TRUE
              /\ UNCHANGED attempt
         ELSE Duplicate /\ UNCHANGED <<item, vouched, settled>>
    /\ UNCHANGED <<installed, command, ref, access, touched>>

DeleteItem ==
    IF Gone THEN Return("not found") /\ UNCHANGED <<item, settled>>
    ELSE Return("ok") /\ item' = NoItem /\ settled' = FALSE

Delete ==
    /\ pc = "delete"
    /\ DeleteItem
    /\ UNCHANGED <<installed, command, attempt, ref, access, vouched, touched>>

(* The access is copied and changed in memory.                             *)
CopyAccess ==
    /\ pc = "copy"
    /\ IF Gone THEN Return("failed") /\ UNCHANGED <<access, settled>>
       ELSE IF Ambiguous(item.acl) THEN Return("ambiguous") /\ UNCHANGED <<access, settled>>
       ELSE IF ~Changed(item.acl) THEN Return("ok") /\ settled' = TRUE /\ UNCHANGED access
       ELSE Goto("set") /\ access' = normalizeCurrentApplicationACL(item.acl) /\ UNCHANGED settled
    /\ UNCHANGED <<item, installed, command, attempt, ref, vouched, touched>>

(* The person is asked, in a session where that is possible.               *)
SetAccess ==
    /\ pc = "set"
    /\ \/ Gone /\ Return("failed") /\ UNCHANGED <<item, settled>>
       \/ ~Gone /\ Return("ok") /\ item' = [item EXCEPT !.acl = access] /\ settled' = TRUE
       \/ \E how \in {"canceled", "interaction"} : Return(how) /\ UNCHANGED <<item, settled>>
    /\ UNCHANGED <<installed, command, attempt, ref, access, vouched, touched>>

(* Any call into the Keychain may fail, and the command may be canceled.   *)
Fail ==
    /\ pc # "idle"
    /\ Return("failed")
    /\ UNCHANGED <<item, installed, command, attempt, ref, access, vouched, touched, settled>>

-----------------------------------------------------------------------------
(* Somebody else.                                                          *)
Touch == touched' = TRUE /\ settled' = FALSE /\ UNCHANGED <<installed, local>>

Remove == item.id # 0 /\ item' = NoItem /\ Touch

Put(acl) ==
    /\ item.id = 0
    /\ item' = [id |-> IF ref = 1 THEN 2 ELSE 1, secret |-> "theirs", acl |-> acl]
    /\ Touch

Rewrite(secret, acl) ==
    /\ item.id # 0
    /\ item' = [item EXCEPT !.secret = secret, !.acl = acl]
    /\ Touch

Upgrade ==
    /\ pc = "idle"
    /\ installed' = 3 - installed /\ settled' = FALSE
    /\ UNCHANGED <<item, local, touched>>

-----------------------------------------------------------------------------
Init ==
    /\ item = NoItem /\ installed = 1
    /\ command = "load" /\ pc = "idle" /\ attempt = 1 /\ ref = 0 /\ access = NoACL /\ told = "nothing"
    /\ vouched = 0 /\ touched = FALSE /\ settled = FALSE

Program ==
    \/ Exists \/ Resolve \/ Check \/ Load \/ Update \/ Add \/ Delete \/ CopyAccess \/ SetAccess \/ Fail
    \/ \E what \in Commands : Begin(what)

Somebody ==
    \/ Remove
    \/ \E acl \in ACLs : Put(acl) \/ \E secret \in {item.secret, "theirs"} : Rewrite(secret, acl)

Next == Program \/ Somebody \/ Upgrade

Spec == Init /\ [][Next]_vars

-----------------------------------------------------------------------------
Items == [id : 0 .. 2, secret : {"none", "old", "new", "theirs"}, acl : ACLs]

TypeOK ==
    /\ item \in Items /\ (item.id = 0 <=> item = NoItem)
    /\ installed \in Builds /\ command \in Commands /\ attempt \in 1 .. 2
    /\ ref \in 0 .. 2 /\ vouched \in 0 .. 2 /\ access \in ACLs
    /\ pc \in {"idle", "exists", "resolve", "check", "work", "add", "delete", "copy", "set"}
    /\ touched \in BOOLEAN /\ settled \in BOOLEAN

(* A token is written only into an item that was found to be exclusively   *)
(* this program's, or that was created so: never into one that somebody    *)
(* put under the name meanwhile.                                           *)
WrittenWhereVouched ==
    item'.secret = "new" /\ item.secret # "new" => item'.id = vouched'

(* A save and a migration that nobody disturbed leave an item that this    *)
(* program, and it alone, reads without anybody being asked.               *)
SettledWorks == settled => item.id # 0 /\ Exclusive(item.acl)

(* A load that nobody disturbed gave out the value of such an item.        *)
LoadedExclusive ==
    command = "load" /\ pc = "idle" /\ told = "ok" /\ ~touched => item.id # 0 /\ vouched = item.id

(* Commands leave alone what is not theirs to change, whatever was done to *)
(* the item since they looked: the access is for migrations, which leave   *)
(* the secret, and an item goes only if a delete had resolved that one.    *)
OnlyItsOwn ==
    pc # "idle" /\ pc' # pc /\ item.id # 0 =>
      /\ item'.id = item.id /\ item'.acl # item.acl => command = "migrate" /\ item'.secret = item.secret
      /\ item'.id # item.id => command = "delete" /\ item.id = ref

(* A migration narrows the access and keeps what the entry says of prompts *)
(* beside the passphrase.                                                  *)
MigrationNarrows ==
    pc = "set" /\ told' = "ok" /\ pc' = "idle" =>
      /\ item'.acl.applications = {installed} /\ item'.acl.listed
      /\ ~touched => item'.acl.other = item.acl.other

(* Why these hold: a command is where its kind takes it, works on the item *)
(* it resolved, found that one exclusive before it works on its value, and *)
(* writes an access that is exclusive.                                     *)
WorksOnResolved ==
    /\ pc \in {"check", "work"} => command \in {"load", "save"}
    /\ pc = "add" => command = "save"
    /\ pc = "delete" => command = "delete"
    /\ pc \in {"copy", "set"} => command = "migrate"
    /\ pc = "work" => vouched = ref
    /\ pc = "work" /\ ~touched => item.id # 0 /\ item.id = ref /\ Exclusive(item.acl)
    /\ pc = "set" => Exclusive(access)
    /\ pc = "set" /\ ~touched => item.id = ref /\ access.other = item.acl.other

(* Undisturbed commands leave and read items of this program alone.        *)
ItemInv == TypeOK /\ SettledWorks /\ LoadedExclusive /\ WorksOnResolved

(* What a command does to the item, whoever else works on it.              *)
ItemSteps == [][WrittenWhereVouched /\ OnlyItsOwn /\ MigrationNarrows]_vars
=============================================================================
