--------------------------- MODULE SavedDefaults ----------------------------
(***************************************************************************)
(* The saved read and write defaults (internal/profile/defaults.go,        *)
(* internal/application/selectionguard.go) and whatever changes the        *)
(* profiles they name: both editions of the program share one profile      *)
(* registry and one defaults document.                                     *)
(*                                                                         *)
(* A process runs one command at a time.  Every file is replaced whole by  *)
(* a rename, under the lock of that file; a profile changes under the lock *)
(* of its name as well.  Names are numbered in their order.  A topology    *)
(* stands for all of a profile but its name and credential generation; a   *)
(* selection identity is the digest of the name and the topology.  The     *)
(* compensation of a failed login or logout is CredentialTransaction's.    *)
(***************************************************************************)
EXTENDS Naturals, Sequences

CONSTANTS
    Procs, None,
    Names,
    Topologies, Supports,  \* Supports[t]: the roles topology t is eligible for
    Commands,              \* what a process may be told to run
    Documents,             \* what the person may make of the defaults file
    MaxEdits, MaxCommands,
    TimeOuts               \* whether a lock is waited for at most two seconds

Roles == {"read", "write"}

Profiles == [topology : Topologies, bound : BOOLEAN]

Slots == [name : Names, identity : Names \X Topologies]

ASSUME DefaultsAssumption ==
    /\ Names \subseteq Nat /\ {MaxEdits, MaxCommands} \subseteq Nat /\ TimeOuts \in BOOLEAN
    /\ Supports \in [Topologies -> SUBSET Roles]
    /\ None \notin Procs /\ None \notin Names /\ None \notin Topologies
    /\ None \notin Profiles /\ None \notin Slots

(* The flags of each command.                                              *)
ASSUME CommandsAssumption ==
    \A c \in Commands :
        \/ /\ c.op \in {"set", "set-readonly"}
           /\ DOMAIN c.slots \subseteq IF c.op = "set" THEN Roles ELSE {"read"}
           /\ \A r \in DOMAIN c.slots : c.slots[r] \in Names \cup {None}
           /\ \E r \in DOMAIN c.slots : c.slots[r] # None
        \/ c.op = "clear" /\ c.roles \subseteq Roles
        \/ c.op \in {"save", "admit"} /\ c.name \in Names /\ c.topology \in Topologies
        \/ c.op \in {"remove", "drop", "login", "logout"} /\ c.name \in Names
        \/ c.op = "use" /\ c.role \in Roles

VARIABLES
    registry,  \* profiles.json: of each name, its profile or None
    keychain,  \* the names that have a Keychain item
    file,      \* profile-defaults.json: its fields in order, or None
    edits,     \* how often the person rewrote it
    begun,     \* how many commands were begun
    held,      \* lock files held: [lock, by, shared]
    proc       \* of each process, its command and its local variables

vars == <<registry, keychain, file, edits, begun, held, proc>>

-----------------------------------------------------------------------------
SelectionIdentity(name, value) == <<name, value.topology>>

SlotFor(name, value) == [name |-> name, identity |-> SelectionIdentity(name, value)]

EmptyDefaults == [r \in Roles |-> None]

Decodes(fields) ==
    /\ \A i, j \in DOMAIN fields : fields[i].field = fields[j].field => i = j
    /\ \A i \in DOMAIN fields :
         CASE fields[i].field = "version" -> fields[i].value = 1
           [] fields[i].field \in Roles ->
                DOMAIN fields[i].value = {"name", "identity"} /\ fields[i].value.name \in Names
           [] OTHER -> FALSE
    /\ \E i \in DOMAIN fields : fields[i].field = "version"

Readable(f) == f = None \/ Decodes(f)

readDefaults(f) ==
    IF f = None THEN EmptyDefaults
    ELSE [r \in Roles |->
            IF \E i \in DOMAIN f : f[i].field = r
            THEN f[CHOOSE i \in DOMAIN f : f[i].field = r].value ELSE None]

Encode(d) ==
    LET field(r) == IF d[r] = None THEN <<>> ELSE <<[field |-> r, value |-> d[r]]>> IN
    <<[field |-> "version", value |-> 1]>> \o field("read") \o field("write")

(* What a saved slot is worth now.                                         *)
SlotState(slot, r) ==
    CASE slot = None -> "unset"
      [] slot # None /\ registry[slot.name] = None -> "missing_profile"
      [] OTHER ->
           IF /\ slot.identity = SelectionIdentity(slot.name, registry[slot.name])
              /\ r \in Supports[registry[slot.name].topology]
           THEN "valid" ELSE "stale"

ReadOnly(topology) == Supports[topology] = {"read"}

Eligible(c, r, value) ==
    /\ value # None
    /\ c.op = "set" => r \in Supports[value.topology]
    /\ c.op = "set-readonly" => ReadOnly(value.topology)

-----------------------------------------------------------------------------
(* Lock files, beside the file or, of a profile, beside the registry.      *)
ProfileLock(n) == <<"profile", n>>
RegistryLock == <<"registry", 0>>
DefaultsLock == <<"defaults", 0>>

Free(l, shared) == \A h \in held : h.lock = l => shared /\ h.shared

Holding(p, l, shared) == [lock |-> l, by |-> p, shared |-> shared]

Mine(p) == {h \in held : h.by = p}

Go(p, pc) == proc' = [proc EXCEPT ![p].pc = pc]

Idle == [pc |-> "idle", cmd |-> None, slots |-> None, doc |-> None, copy |-> None,
         intent |-> None, guard |-> None, used |-> None]

(* The command returns, and its locks go with it.                          *)
Finish(p) ==
    /\ proc' = [proc EXCEPT ![p] = Idle]
    /\ held' = held \ Mine(p)

(* It returns and has changed nothing since: refused, stale, missing.      *)
Refuse(p) == Finish(p) /\ UNCHANGED <<registry, keychain, file, edits, begun>>

Named(c) == {r \in DOMAIN c.slots : c.slots[r] # None}

(* Broken variant: two slots, and one profile locked.                      *)
OneName(p) ==
    LET c == proc[p].cmd IN
    CASE c.op \in {"set", "set-readonly"} -> {c.slots[CHOOSE r \in Named(c) : TRUE]}
      [] c.op = "use" -> {proc[p].guard.name}
      [] OTHER -> {c.name}

LockNames(p) ==
    LET c == proc[p].cmd IN
    CASE c.op \in {"set", "set-readonly"} -> {c.slots[r] : r \in Named(c)}
      [] c.op = "use" -> {proc[p].guard.name}
      [] OTHER -> {c.name}

Waiting(p) == {n \in LockNames(p) : \A h \in Mine(p) : h.lock # ProfileLock(n)}

(* Broken variant: the locks in the order of the flags on the command      *)
(* line.                                                                   *)
FlagOrder(p, names) ==
    LET c == proc[p].cmd IN
    IF c.op = "set" /\ c.slots["write"] \in names THEN c.slots["write"]
    ELSE CHOOSE n \in names : \A m \in names : n <= m

NextLock(p, names) == CHOOSE n \in names : \A m \in names : n <= m

(* A profile that is only read is locked with other readers.               *)
Shares(p) == proc[p].cmd.op = "use" /\ proc[p].cmd.role = "read"

(* After the profile locks.                                                *)
Entered(c) ==
    CASE c.op = "set" -> "load" [] c.op = "set-readonly" -> "bind"
      [] c.op = "use" -> "check" [] c.op \in {"admit", "drop"} -> "copy" [] OTHER -> "inspect"

TakeProfileLock(p) ==
    /\ proc[p].pc = "lock"
    /\ LET n == NextLock(p, Waiting(p)) IN
       /\ Free(ProfileLock(n), Shares(p))
       /\ held' = held \cup {Holding(p, ProfileLock(n), Shares(p))}
       /\ Go(p, IF Waiting(p) = {n} THEN Entered(proc[p].cmd) ELSE "lock")
    /\ UNCHANGED <<registry, keychain, file, edits, begun>>

-----------------------------------------------------------------------------
(* The commands.                                                           *)
Begin(p) ==
    /\ proc[p].pc = "idle" /\ begun < MaxCommands
    /\ begun' = begun + 1
    /\ \E c \in Commands :
         proc' = [proc EXCEPT ![p] = [Idle EXCEPT !.cmd = c, !.pc =
                    CASE c.op \in {"set", "set-readonly", "clear"} -> "preview"
                      [] c.op = "use" -> "resolve" [] c.op = "login" -> "intent" [] OTHER -> "lock"]]
    /\ UNCHANGED <<registry, keychain, file, edits, held>>

(* The dry run every change starts with, which may be all that was asked.  *)
Previewed(p, shown, pc) ==
    IF ~shown THEN Refuse(p)
    ELSE Refuse(p) \/ (Go(p, pc) /\ UNCHANGED <<registry, keychain, file, edits, begun, held>>)

AllEligible(c) == \A r \in Named(c) : Eligible(c, r, registry[c.slots[r]])

PreviewSet(p) ==
    /\ proc[p].pc = "preview" /\ proc[p].cmd.op = "set"
    /\ Previewed(p, Readable(file) /\ AllEligible(proc[p].cmd), "lock")

PreviewReadonly(p) ==
    /\ proc[p].pc = "preview" /\ proc[p].cmd.op = "set-readonly"
    /\ Previewed(p, AllEligible(proc[p].cmd) /\ Readable(file), "lock")

PreviewClear(p) ==
    /\ proc[p].pc = "preview" /\ proc[p].cmd.op = "clear"
    /\ Previewed(p, Readable(file), "load")

Bind(p) ==
    /\ proc[p].pc = "bind"
    /\ LET c == proc[p].cmd IN
       IF AllEligible(c)
       THEN /\ proc' = [proc EXCEPT
                 ![p].slots = [r \in Named(c) |-> SlotFor(c.slots[r], registry[c.slots[r]])],
                 ![p].pc = IF c.op = "set" THEN "replace" ELSE "load"]
            /\ UNCHANGED <<registry, keychain, file, edits, begun, held>>
       ELSE Refuse(p)

LoadDefaults(p) ==
    /\ proc[p].pc = "load"
    /\ Free(DefaultsLock, FALSE)
    /\ IF Readable(file)
       THEN /\ held' = held \cup {Holding(p, DefaultsLock, FALSE)}
            /\ proc' = [proc EXCEPT ![p].doc = readDefaults(file),
                                    ![p].pc = IF proc[p].cmd.op = "set" THEN "bind" ELSE "replace"]
            /\ UNCHANGED <<registry, keychain, file, edits, begun>>
       ELSE Refuse(p)

(* The rename; the directory sync after it may fail.                       *)
ReplaceDefaults(p) ==
    /\ proc[p].pc = "replace"
    /\ Finish(p)
    /\ LET c == proc[p].cmd IN
       file' = Encode([r \in Roles |->
                 IF c.op = "clear" THEN (IF r \in c.roles THEN None ELSE proc[p].doc[r])
                 ELSE IF r \in Named(c) THEN proc[p].slots[r] ELSE proc[p].doc[r]])
    /\ UNCHANGED <<registry, keychain, edits, begun>>

(* The profile a login verified the account of.                            *)
ReadIntent(p) ==
    /\ proc[p].pc = "intent"
    /\ LET value == registry[proc[p].cmd.name] IN
       IF value = None THEN Refuse(p)
       ELSE /\ proc' = [proc EXCEPT ![p].intent = value.topology, ![p].pc = "lock"]
            /\ UNCHANGED <<registry, keychain, file, edits, begun, held>>

Authenticated(value, name) == name \in keychain \/ value.bound

SaveAllowed(c) == LET value == registry[c.name] IN
    value = None \/ (~Authenticated(value, c.name) /\ c.replace)

RemoveAllowed(c) == c.name \notin keychain

(* Broken variant: the profile is not compared again under its lock.       *)
ProfileThere(c, intent) == registry[c.name] # None

LoginAllowed(c, intent) == LET value == registry[c.name] IN
    value # None /\ value.topology = intent

(* What is decided under the profile lock, before the registry's.          *)
Inspect(p) ==
    /\ proc[p].pc = "inspect"
    /\ LET c == proc[p].cmd
           allowed ==
             CASE c.op = "save" -> SaveAllowed(c) [] c.op = "remove" -> RemoveAllowed(c)
               [] c.op = "login" -> LoginAllowed(c, proc[p].intent) [] OTHER -> TRUE IN
       IF allowed
       THEN /\ keychain' = CASE c.op = "login" -> keychain \cup {c.name}
                             [] c.op = "logout" -> keychain \ {c.name}
                             [] OTHER -> keychain
            /\ Go(p, "copy")
            /\ UNCHANGED <<registry, file, edits, begun, held>>
       ELSE Refuse(p)

CopyRegistry(p) ==
    /\ proc[p].pc = "copy"
    /\ Free(RegistryLock, FALSE)
    /\ held' = held \cup {Holding(p, RegistryLock, FALSE)}
    /\ proc' = [proc EXCEPT ![p].copy = registry, ![p].pc = "store"]
    /\ UNCHANGED <<registry, keychain, file, edits, begun>>

(* The read-only edition looks at the registry under its lock, and at no   *)
(* credential.                                                             *)
AdmitAllowed(c, copy) ==
    ReadOnly(c.topology) /\ (copy[c.name] # None => ~copy[c.name].bound)

DropAllowed(c, copy) == copy[c.name] # None /\ ~copy[c.name].bound

(* registry.Add, Put, Remove and MutateValidated.                          *)
StoreRegistry(p) ==
    /\ proc[p].pc = "store"
    /\ LET c == proc[p].cmd
           copy == proc[p].copy
           allowed ==
             CASE c.op = "admit" -> AdmitAllowed(c, copy) [] c.op = "drop" -> DropAllowed(c, copy)
               [] c.op = "remove" -> copy[c.name] # None
               [] OTHER -> TRUE
           value ==
             CASE c.op \in {"save", "admit"} -> [topology |-> c.topology, bound |-> FALSE]
               [] c.op = "login" -> [topology |-> proc[p].intent, bound |-> TRUE]
               [] OTHER -> None IN
       IF allowed
       THEN /\ registry' = [copy EXCEPT ![c.name] = value]
            /\ Finish(p)
            /\ UNCHANGED <<keychain, file, edits, begun>>
       ELSE Refuse(p)

-----------------------------------------------------------------------------
(* An operation that names no profile.                                     *)
Resolve(p) ==
    /\ proc[p].pc = "resolve"
    /\ LET slot == readDefaults(file)[proc[p].cmd.role] IN
       IF ~Readable(file) \/ slot = None THEN Refuse(p)
       ELSE /\ proc' = [proc EXCEPT ![p].guard = slot, ![p].pc = "look"]
            /\ UNCHANGED <<registry, keychain, file, edits, begun, held>>

Look(p) ==
    /\ proc[p].pc = "look"
    /\ IF SlotState(proc[p].guard, proc[p].cmd.role) = "valid"
       THEN Go(p, "lock") /\ UNCHANGED <<registry, keychain, file, edits, begun, held>>
       ELSE Refuse(p)

(* Broken variant: the guard compares the name only.                       *)
NameOnly(guard) == registry[guard.name] # None

checkSelectionGuard(guard) ==
    /\ registry[guard.name] # None
    /\ guard.identity = SelectionIdentity(guard.name, registry[guard.name])

(* The client is built under the lock and used after it.                   *)
Check(p) ==
    /\ proc[p].pc = "check"
    /\ LET guard == proc[p].guard IN
       IF ~checkSelectionGuard(guard) THEN Refuse(p)
       ELSE IF ~registry[guard.name].bound \/ guard.name \notin keychain THEN Refuse(p)
       ELSE /\ proc' = [proc EXCEPT ![p].used = registry[guard.name].topology,
                                    ![p].pc = "idle"]
            /\ held' = held \ Mine(p)
            /\ UNCHANGED <<registry, keychain, file, edits, begun>>

-----------------------------------------------------------------------------
Blocked(p) ==
    \/ proc[p].pc = "lock" /\ ~Free(ProfileLock(NextLock(p, Waiting(p))), Shares(p))
    \/ proc[p].pc = "load" /\ ~Free(DefaultsLock, FALSE)
    \/ proc[p].pc = "copy" /\ ~Free(RegistryLock, FALSE)

TimeOut(p) == TimeOuts /\ Blocked(p) /\ Refuse(p)

(* A file operation fails before the rename, or the process is killed.     *)
Break(p) ==
    /\ TimeOuts
    /\ proc[p].pc \in {"replace", "copy", "store"}
    /\ Refuse(p)

(* The person rewrites the document, while no command is at it.            *)
Edit ==
    /\ edits < MaxEdits
    /\ Free(DefaultsLock, FALSE)
    /\ file' \in Documents
    /\ edits' = edits + 1
    /\ UNCHANGED <<registry, keychain, begun, held, proc>>

Step(p) ==
    \/ Begin(p) \/ PreviewSet(p) \/ PreviewReadonly(p) \/ PreviewClear(p)
    \/ TakeProfileLock(p) \/ Bind(p) \/ LoadDefaults(p) \/ ReplaceDefaults(p)
    \/ ReadIntent(p) \/ Inspect(p) \/ CopyRegistry(p) \/ StoreRegistry(p)
    \/ Resolve(p) \/ Look(p) \/ Check(p)

Init ==
    /\ registry \in [Names -> {[topology |-> t, bound |-> b] : t \in Topologies, b \in BOOLEAN}]
    /\ keychain = {n \in Names : registry[n].bound}
    /\ file = None /\ edits = 0 /\ begun = 0 /\ held = {}
    /\ proc = [p \in Procs |-> Idle]

Next == (\E p \in Procs : Step(p) \/ TimeOut(p) \/ Break(p)) \/ Edit

Spec == Init /\ [][Next]_vars

(* Each process runs, and a lock that is free when it is tried is taken.   *)
FairSpec == Spec /\ \A p \in Procs : WF_vars(Step(p))

-----------------------------------------------------------------------------
(* The person may write anything, but an identity is that of some profile. *)
ASSUME DocumentsAssumption ==
    /\ \A d \in Documents : Decodes(d) => readDefaults(d) \in [Roles -> Slots \cup {None}]
    /\ \A d \in [Roles -> Slots \cup {None}] : Encode(d) # None

IsProcess(r) ==
    r \in [pc : {"idle", "preview", "lock", "load", "bind", "replace", "intent", "inspect", "copy", "store",
                 "resolve", "look", "check"},
           cmd : Commands \cup {None}, slots : {r.slots}, doc : {r.doc}, copy : {r.copy},
           intent : Topologies \cup {None}, guard : Slots \cup {None}, used : Topologies \cup {None}]

TypeOK ==
    /\ registry \in [Names -> Profiles \cup {None}]
    /\ keychain \subseteq Names /\ edits \in 0 .. MaxEdits /\ begun \in 0 .. MaxCommands
    /\ Readable(file) => readDefaults(file) \in [Roles -> Slots \cup {None}]
    /\ held \subseteq [lock : ({"profile"} \X Names) \cup {DefaultsLock, RegistryLock}, by : Procs, shared : BOOLEAN]
    /\ DOMAIN proc = Procs /\ \A p \in Procs : IsProcess(proc[p])

(* An operation that selected its profile by a saved default works with    *)
(* the topology that was saved, and that topology has the role, whatever   *)
(* became of the profile between the selection and the lock.               *)
FencedUse ==
    \A p \in Procs : proc[p].used # None =>
        /\ proc[p].guard.identity = <<proc[p].guard.name, proc[p].used>>
        /\ proc[p].cmd.role \in Supports[proc[p].used]

(* Why these hold.  Locks exclude, and no command keeps any.               *)
LocksExclude ==
    /\ \A g, h \in held : g.lock = h.lock => g = h \/ (g.shared /\ h.shared)
    /\ \A h \in held : /\ h.shared = Shares(h.by)
                       /\ proc[h.by].pc \notin {"idle", "preview", "intent", "resolve", "look"}

(* What each place of the program is for.                                  *)
Ops(place) ==
    CASE place \in {"preview", "load", "replace"} -> {"set", "set-readonly", "clear"}
      [] place = "bind" -> {"set", "set-readonly"}
      [] place = "intent" -> {"login"}
      [] place = "inspect" -> {"save", "remove", "login", "logout"}
      [] place \in {"copy", "store"} -> {"save", "remove", "login", "logout", "admit", "drop"}
      [] place \in {"resolve", "look", "check"} -> {"use"}
      [] OTHER -> {"set", "set-readonly", "save", "remove", "login", "logout", "admit", "drop", "use"}

Holds(p, l) == Holding(p, l, Shares(p)) \in held

(* What a command has under its locks is what the files still hold.        *)
LocksHeld(p) ==
    LET c == proc[p].cmd
        place == proc[p].pc
    IN  place # "idle" =>
        /\ c \in Commands /\ c.op \in Ops(place)
        /\ place = "lock" => Waiting(p) # {}
        /\ place \in {"load", "bind", "replace", "inspect", "copy", "store", "check"} /\ c.op # "clear" =>
              \A n \in LockNames(p) : Holds(p, ProfileLock(n))
        /\ place = "replace" \/ (place = "bind" /\ c.op = "set") =>
              Holds(p, DefaultsLock) /\ Readable(file) /\ proc[p].doc = readDefaults(file)
        /\ place = "store" => Holds(p, RegistryLock) /\ proc[p].copy = registry

(* And what it decided is still right when it acts.                        *)
Decided(p) ==
    LET c == proc[p].cmd
        place == proc[p].pc
        guard == proc[p].guard
    IN  place # "idle" =>
        /\ proc[p].used = None
        /\ \/ place = "replace" /\ c.op # "clear"
           \/ place = "load" /\ c.op = "set-readonly"
           => \A r \in Named(c) : /\ proc[p].slots[r] \in Slots /\ proc[p].slots[r].name = c.slots[r]
                                  /\ SlotState(proc[p].slots[r], r) = "valid"
        /\ place \in {"copy", "store"} /\ c.op = "save" => registry[c.name] = None \/ ~registry[c.name].bound
        /\ place # "intent" /\ c.op = "login" => proc[p].intent \in Topologies
        /\ place \in {"copy", "store"} /\ c.op = "login" =>
              registry[c.name] # None /\ registry[c.name].topology = proc[p].intent
        /\ place \in {"look", "lock", "check"} /\ c.op = "use" => guard \in Slots
        /\ place \in {"lock", "check"} /\ c.op = "use" =>
              \E t \in Topologies : guard.identity = <<guard.name, t>> /\ c.role \in Supports[t]

(* Saved choices are used as they were saved, under locks that exclude.    *)
DefaultsInv ==
    /\ TypeOK /\ FencedUse /\ LocksExclude
    /\ \A p \in Procs : LocksHeld(p) /\ Decided(p)

(* A default that a command saves names, at the moment it is saved, a      *)
(* profile that exists, has that identity and is eligible for the role:    *)
(* the profile is locked from its check to the rename.                     *)
BoundWhenSaved ==
    \A r \in Roles :
      LET slot == readDefaults(file')[r] IN
      edits' = edits /\ slot # None /\ slot # readDefaults(file)[r] => SlotState(slot, r) = "valid"

(* A command changes only the slots it was asked to change: neither set    *)
(* nor clear undoes what another command did to the other slot.            *)
OtherSlotKept ==
    \A p \in Procs, r \in Roles :
      /\ proc[p].pc = "replace" /\ proc'[p].pc = "idle"
      /\ readDefaults(file')[r] # readDefaults(file)[r]
      => IF proc[p].cmd.op = "clear" THEN r \in proc[p].cmd.roles ELSE r \in Named(proc[p].cmd)

(* A document the program cannot read is never replaced by a command.      *)
UnreadableKept == ~Readable(file) /\ file' # file => edits' # edits

(* As the README has it: logging in again keeps a default, changing the    *)
(* configuration or removing the profile makes it stale.                   *)
ReloginKeepsDefault ==
    \A r \in Roles :
      LET slot == readDefaults(file)[r] IN
      /\ slot # None /\ file' = file
      /\ registry[slot.name] # None /\ registry'[slot.name] # None
      /\ SlotState(slot, r) = "valid"
      => (SlotState(slot, r)' = "valid" <=> registry'[slot.name].topology = registry[slot.name].topology)

(* A profile changes only by the process that holds its lock: a registry   *)
(* rewritten for one profile takes no change to another back.              *)
ProfileUnderItsLock ==
    \A n \in Names : registry'[n] # registry[n] =>
      \E p \in Procs : Holding(p, ProfileLock(n), FALSE) \in held /\ proc'[p] # proc[p]

(* No command gives a profile with a credential generation another         *)
(* topology: it has to be logged out or removed first.                     *)
BoundTopologyKept ==
    \A n \in Names :
      registry[n] # None /\ registry[n].bound /\ registry'[n] # None
      => registry'[n].topology = registry[n].topology

(* What no step does to the defaults and to the profiles they name.        *)
DefaultsKept ==
    [][ /\ BoundWhenSaved /\ OtherSlotKept /\ UnreadableKept /\ ReloginKeepsDefault
        /\ ProfileUnderItsLock /\ BoundTopologyKept ]_vars

(* Without the time limit on locks every command still ends: no two of     *)
(* them ever wait for each other.                                          *)
CommandsEnd == \A p \in Procs : []<>(proc[p].pc = "idle")
=============================================================================
