------------------------ MODULE SavedDefaults_proofs ------------------------
(***************************************************************************)
(* Proofs about the saved defaults: the invariant of SavedDefaults is      *)
(* inductive, and with it every step keeps what DefaultsKept says.         *)
(***************************************************************************)
EXTENDS SavedDefaults, SequenceTheorems, TLAPS

-----------------------------------------------------------------------------
(* The document.                                                           *)

(* The fields that a document of those slots has.                          *)
FieldOf(r, d) == [field |-> r, value |-> d[r]]
VersionField == [field |-> "version", value |-> 1]

(* A sequence and one more value.                                          *)
LEMMA OneMore ==
    ASSUME NEW S, NEW x \in Seq(S), NEW c \in S, NEW t \in Seq(S), Len(t) = Len(x) + 1,
           t[Len(t)] = c, \A i \in 1 .. Len(x) : t[i] = x[i]
    PROVE  x \o <<c>> = t
<1> DEFINE y == <<c>>
<1>1. y \in Seq(S) /\ Len(y) = 1 /\ y[1] = c
    OBVIOUS
<1> HIDE DEF y
<1>2. x \o y \in Seq(S)
    BY <1>1, ConcatProperties
<1>3. Len(x \o y) = Len(x) + Len(y)
    BY <1>1, ConcatProperties
<1>4. \A i \in 1 .. Len(x) + Len(y) : (x \o y)[i] = IF i <= Len(x) THEN x[i] ELSE y[i - Len(x)]
    BY <1>1, ConcatProperties
<1>5. \A i \in 1 .. Len(x \o y) : (x \o y)[i] = t[i]
    BY <1>1, <1>3, <1>4
<1>6. x \o y = t
    BY <1>1, <1>2, <1>3, <1>5, SeqEqual
<1> QED BY <1>6 DEF y

(* Short sequences, joined.                                                *)
LEMMA Joined ==
    ASSUME NEW a, NEW b, NEW c
    PROVE  /\ <<a>> \o <<>> = <<a>> /\ <<a>> \o <<b>> = <<a, b>>
           /\ <<a, b>> \o <<>> = <<a, b>> /\ <<a, b>> \o <<c>> = <<a, b, c>>
<1> DEFINE S == {a, b, c}
           one == <<a>>
           two == <<a, b>>
           three == <<a, b, c>>
<1>1. /\ {a, b, c} \subseteq S /\ {one, two, three} \subseteq Seq(S)
      /\ Len(one) = 1 /\ Len(two) = 2 /\ Len(three) = 3
      /\ one[1] = a /\ two[1] = a /\ two[2] = b
      /\ three[1] = a /\ three[2] = b /\ three[3] = c
    OBVIOUS
<1> HIDE DEF S, one, two, three
<1>2. one \o <<b>> = two
    <2>1. Len(two) = Len(one) + 1 /\ two[Len(two)] = b /\ \A i \in 1 .. Len(one) : two[i] = one[i]
        BY <1>1
    <2> QED BY <1>1, <2>1, OneMore
<1>3. two \o <<c>> = three
    <2>1. Len(three) = Len(two) + 1 /\ three[Len(three)] = c /\ \A i \in 1 .. Len(two) : three[i] = two[i]
        BY <1>1
    <2> QED BY <1>1, <2>1, OneMore
<1>4. <<a>> \o <<>> = <<a>> /\ <<a, b>> \o <<>> = <<a, b>>
    OBVIOUS
<1> QED BY <1>2, <1>3, <1>4 DEF one, two, three

(* What is encoded, slot by slot.                                          *)
LEMMA EncodeCases ==
    ASSUME NEW d
    PROVE  /\ d["read"] = None /\ d["write"] = None => Encode(d) = <<VersionField>>
           /\ d["read"] = None /\ d["write"] # None => Encode(d) = <<VersionField, FieldOf("write", d)>>
           /\ d["read"] # None /\ d["write"] = None => Encode(d) = <<VersionField, FieldOf("read", d)>>
           /\ d["read"] # None /\ d["write"] # None =>
                Encode(d) = <<VersionField, FieldOf("read", d), FieldOf("write", d)>>
<1> DEFINE one == <<VersionField>>
           read == IF d["read"] = None THEN <<>> ELSE <<FieldOf("read", d)>>
           write == IF d["write"] = None THEN <<>> ELSE <<FieldOf("write", d)>>
<1>1. Encode(d) = one \o read \o write
    BY DEF Encode, VersionField, FieldOf
<1>2. CASE d["read"] = None
    <2>1. one \o read = <<VersionField>>
        BY <1>2, Joined
    <2> QED BY <1>1, <1>2, <2>1, Joined
<1>3. CASE d["read"] # None
    <2>1. one \o read = <<VersionField, FieldOf("read", d)>>
        BY <1>3, Joined
    <2> QED BY <1>1, <1>3, <2>1, Joined
<1> QED BY <1>2, <1>3

(* The value of a field that a document has once.                          *)
LEMMA FieldRead ==
    ASSUME NEW f, f # None, NEW r \in Roles, NEW i \in DOMAIN f, f[i].field = r,
           \A j \in DOMAIN f : f[j].field = r => j = i
    PROVE  readDefaults(f)[r] = f[i].value
<1>1. (CHOOSE j \in DOMAIN f : f[j].field = r) = i
    OBVIOUS
<1> QED BY <1>1 DEF readDefaults

(* A field that it has not.                                                *)
LEMMA FieldAbsent ==
    ASSUME NEW f, f # None, NEW r \in Roles, \A j \in DOMAIN f : f[j].field # r
    PROVE  readDefaults(f)[r] = None
BY DEF readDefaults

(* What is saved is what is read again (defaults.go, MarshalJSON and the   *)
(* decoder).                                                               *)
LEMMA EncodeRead ==
    ASSUME NEW d \in [Roles -> Slots \cup {None}]
    PROVE  readDefaults(Encode(d)) = d
<1> DEFINE f == Encode(d)
<1>1. f # None
    BY DocumentsAssumption
<1>2. \A r \in Roles : readDefaults(f)[r] = d[r]
    <2> USE EncodeCases DEF VersionField, FieldOf, Roles
    <2>1. CASE d["read"] = None /\ d["write"] = None
        <3>1. f = <<VersionField>>
            BY <2>1
        <3>2. DOMAIN f = {1} /\ f[1].field = "version"
            BY <3>1
        <3> HIDE DEF f
        <3> QED BY <1>1, <2>1, <3>2, FieldAbsent
    <2>2. CASE d["read"] = None /\ d["write"] # None
        <3>1. f = <<VersionField, FieldOf("write", d)>>
            BY <2>2
        <3>2. /\ DOMAIN f = {1, 2} /\ f[1].field = "version"
              /\ f[2].field = "write" /\ f[2].value = d["write"]
            BY <3>1
        <3> HIDE DEF f
        <3>3. readDefaults(f)["read"] = None
            BY <1>1, <3>2, FieldAbsent
        <3>4. readDefaults(f)["write"] = d["write"]
            BY <1>1, <3>2, FieldRead
        <3> QED BY <2>2, <3>3, <3>4
    <2>3. CASE d["read"] # None /\ d["write"] = None
        <3>1. f = <<VersionField, FieldOf("read", d)>>
            BY <2>3
        <3>2. /\ DOMAIN f = {1, 2} /\ f[1].field = "version"
              /\ f[2].field = "read" /\ f[2].value = d["read"]
            BY <3>1
        <3> HIDE DEF f
        <3>3. readDefaults(f)["write"] = None
            BY <1>1, <3>2, FieldAbsent
        <3>4. readDefaults(f)["read"] = d["read"]
            BY <1>1, <3>2, FieldRead
        <3> QED BY <2>3, <3>3, <3>4
    <2>4. CASE d["read"] # None /\ d["write"] # None
        <3>1. f = <<VersionField, FieldOf("read", d), FieldOf("write", d)>>
            BY <2>4
        <3>2. /\ DOMAIN f = {1, 2, 3} /\ f[1].field = "version"
              /\ f[2].field = "read" /\ f[2].value = d["read"]
              /\ f[3].field = "write" /\ f[3].value = d["write"]
            BY <3>1
        <3> HIDE DEF f
        <3>3. readDefaults(f)["read"] = d["read"]
            BY <1>1, <3>2, FieldRead
        <3>4. readDefaults(f)["write"] = d["write"]
            BY <1>1, <3>2, FieldRead
        <3> QED BY <3>3, <3>4
    <2> QED BY <2>1, <2>2, <2>3, <2>4
<1>3. readDefaults(f) = [r \in Roles |-> readDefaults(f)[r]]
    BY <1>1 DEF readDefaults
<1> QED BY <1>2, <1>3

-----------------------------------------------------------------------------
(* Locks.                                                                  *)

(* Of a nonempty set of names there is a first one, so the lock a command  *)
(* asks for next is one that it needs.                                     *)
LEMMA NextNeeded ==
    ASSUME NEW p, NEW names, names # {}, NEW a, NEW b, names \subseteq {a, b}, {a, b} \subseteq Nat
    PROVE  NextLock(p, names) \in names
<1>1. \E n \in names : \A m \in names : n <= m
    OBVIOUS
<1> QED BY <1>1 DEF NextLock

(* What is held exclusively is held by nobody else.                        *)
LEMMA Excluded ==
    ASSUME LocksExclude, NEW p, NEW q, p # q, NEW l, Holding(p, l, FALSE) \in held
    PROVE  ~Holds(q, l)
BY DEF LocksExclude, Holds, Holding

(* What is free for a holder of its own kind is held by nobody else.       *)
LEMMA FreeHeld ==
    ASSUME NEW q, NEW l, Free(l, FALSE)
    PROVE  ~Holds(q, l)
BY DEF Free, Holds, Holding

(* A lock held is one of the locks that are its holder's.                  *)
LEMMA HoldsMine ==
    ASSUME NEW q, NEW l
    PROVE  /\ Holds(q, l) <=> Holding(q, l, Shares(q)) \in Mine(q)
           /\ Holds(q, l)' <=> (Holding(q, l, Shares(q)) \in Mine(q))'
BY DEF Holds, Holding, Mine

(* The flags of a command.                                                 *)
LEMMA Flags ==
    ASSUME NEW c \in Commands
    PROVE  /\ c.op \in {"set", "set-readonly"} =>
                /\ DOMAIN c.slots \subseteq Roles /\ Named(c) \subseteq Roles
                /\ \A r \in Named(c) : c.slots[r] \in Names
                /\ Named(c) # {}
           /\ c.op = "set-readonly" => Named(c) \subseteq {"read"}
           /\ c.op = "clear" => c.roles \subseteq Roles
           /\ c.op \in {"save", "admit"} => c.topology \in Topologies
           /\ c.op \in {"save", "admit", "remove", "drop", "login", "logout"} => c.name \in Names
           /\ c.op = "use" => c.role \in Roles
           /\ c.op \in Ops("lock") \cup {"clear"}
BY CommandsAssumption DEF Named, Roles, Ops

(* The names a command locks.                                              *)
LEMMA NamesLocked ==
    ASSUME NEW p, NEW c \in Commands, proc[p].cmd = c, c.op # "clear",
           c.op = "use" => proc[p].guard \in Slots
    PROVE  /\ LockNames(p) \subseteq Names
           /\ \E a, b \in Nat : LockNames(p) \subseteq {a, b}
           /\ c.op \in {"set", "set-readonly"} => \A r \in Named(c) : c.slots[r] \in LockNames(p)
           /\ c.op = "use" => LockNames(p) = {proc[p].guard.name}
           /\ c.op \in {"save", "admit", "remove", "drop", "login", "logout"} => LockNames(p) = {c.name}
<1> USE DefaultsAssumption
<1>1. CASE c.op \in {"set", "set-readonly"}
    <2>1. /\ LockNames(p) = {c.slots[r] : r \in Named(c)} /\ Named(c) \subseteq Roles
          /\ \A r \in Named(c) : c.slots[r] \in Names
        BY <1>1, Flags DEF LockNames
    <2>2. PICK s \in Named(c) : TRUE
        BY <1>1, Flags
    <2> DEFINE a == IF "read" \in Named(c) THEN c.slots["read"] ELSE c.slots[s]
               b == IF "write" \in Named(c) THEN c.slots["write"] ELSE c.slots[s]
    <2>3. LockNames(p) \subseteq {a, b}
        BY <2>1 DEF Roles
    <2>4. a \in Nat /\ b \in Nat
        BY <2>1, <2>2
    <2>5. \E x, y \in Nat : LockNames(p) \subseteq {x, y}
        <3> HIDE DEF a, b
        <3> QED BY <2>3, <2>4
    <2> QED BY <1>1, <2>1, <2>5
<1>2. CASE c.op = "use"
    <2>1. LockNames(p) = {proc[p].guard.name} /\ proc[p].guard.name \in Names
        BY <1>2 DEF LockNames, Slots
    <2> QED BY <1>2, <2>1
<1>3. CASE c.op \in {"save", "admit", "remove", "drop", "login", "logout"}
    <2>1. LockNames(p) = {c.name} /\ c.name \in Names
        BY <1>3, Flags DEF LockNames
    <2> QED BY <1>3, <2>1
<1> QED BY <1>1, <1>2, <1>3, Flags DEF Ops

(* The names that q waits for and those it locks are a matter of its own   *)
(* record and of its own locks.                                            *)
LEMMA OwnLocks ==
    ASSUME NEW q, proc'[q] = proc[q], Mine(q)' = Mine(q)
    PROVE  /\ LockNames(q)' = LockNames(q) /\ Waiting(q)' = Waiting(q) /\ Shares(q)' = Shares(q)
           /\ \A l : Holds(q, l)' <=> Holds(q, l)
<1>1. Shares(q)' = Shares(q)
    BY DEF Shares
<1>2. LockNames(q)' = LockNames(q)
    BY DEF LockNames
<1>3. Waiting(q)' = Waiting(q)
    BY <1>2 DEF Waiting
<1>4. \A l : Holds(q, l)' <=> Holds(q, l)
    BY <1>1, HoldsMine DEF Holding
<1> QED BY <1>1, <1>2, <1>3, <1>4

(* A process that the step is not of keeps what it has, since what it      *)
(* locked has not changed.                                                 *)
LEMMA OthersKept ==
    ASSUME DefaultsInv, NEW q \in Procs, proc'[q] = proc[q], Mine(q)' = Mine(q),
           \A n \in Names : Holds(q, ProfileLock(n)) => registry'[n] = registry[n],
           Holds(q, RegistryLock) => registry' = registry,
           Holds(q, DefaultsLock) => file' = file
    PROVE  LocksHeld(q)' /\ Decided(q)'
<1> DEFINE c == proc[q].cmd
           place == proc[q].pc
<1>1. LocksHeld(q) /\ Decided(q) /\ IsProcess(proc[q])
    BY DEF DefaultsInv, TypeOK
<1>2. /\ LockNames(q)' = LockNames(q) /\ Waiting(q)' = Waiting(q) /\ Shares(q)' = Shares(q)
      /\ \A l : Holds(q, l)' <=> Holds(q, l)
    BY OwnLocks
<1>3. LocksHeld(q)'
    <2>1. \A n : Holds(q, ProfileLock(n))' <=> Holds(q, ProfileLock(n))
        BY <1>2 DEF ProfileLock
    <2>2. Holds(q, DefaultsLock)' <=> Holds(q, DefaultsLock)
        BY <1>2 DEF DefaultsLock
    <2>3. Holds(q, RegistryLock)' <=> Holds(q, RegistryLock)
        BY <1>2 DEF RegistryLock
    <2>4. Holds(q, DefaultsLock) => (Readable(file)' <=> Readable(file)) /\ readDefaults(file)' = readDefaults(file)
        BY DEF Readable, readDefaults
    <2> QED BY <1>1, <1>2, <2>1, <2>2, <2>3, <2>4 DEF LocksHeld
<1>4. Decided(q)'
    <2>1. ASSUME place # "idle", c.op # "clear", place \in {"load", "bind", "replace", "inspect", "copy", "store", "check"}
          PROVE  /\ c.op \in {"set", "set-readonly"} => \A r \in Named(c) : registry'[c.slots[r]] = registry[c.slots[r]]
                 /\ c.op \in {"save", "admit", "remove", "drop", "login", "logout"} => registry'[c.name] = registry[c.name]
        <3>1. c \in Commands /\ \A n \in LockNames(q) : Holds(q, ProfileLock(n))
            BY <1>1, <2>1 DEF LocksHeld
        <3>2. c.op = "use" => proc[q].guard \in Slots
            BY <1>1, <2>1 DEF Decided, LocksHeld, Ops
        <3>3. \A n \in LockNames(q) : registry'[n] = registry[n]
            BY <2>1, <3>1, <3>2, NamesLocked
        <3> QED BY <2>1, <3>1, <3>2, <3>3, NamesLocked
    <2>2. ASSUME place # "idle", (place = "replace" /\ c.op # "clear") \/ (place = "load" /\ c.op = "set-readonly")
          PROVE  \A r \in Named(c) : /\ proc[q].slots[r] \in Slots /\ proc[q].slots[r].name = c.slots[r]
                                     /\ SlotState(proc[q].slots[r], r)' = "valid"
        <3>1. c.op \in {"set", "set-readonly"}
            BY <1>1, <2>2 DEF LocksHeld, Ops
        <3>2. TAKE r \in Named(c)
        <3>3. /\ proc[q].slots[r] \in Slots /\ proc[q].slots[r].name = c.slots[r]
              /\ SlotState(proc[q].slots[r], r) = "valid"
            BY <1>1, <2>2 DEF Decided
        <3>4. registry'[proc[q].slots[r].name] = registry[proc[q].slots[r].name]
            BY <2>1, <2>2, <3>1, <3>3
        <3>5. SlotState(proc[q].slots[r], r)' = SlotState(proc[q].slots[r], r)
            BY <3>4 DEF SlotState
        <3> QED BY <3>3, <3>5
    <2>3. Named(c)' = Named(c) /\ proc'[q].slots = proc[q].slots
        BY DEF Named
    <2>4. place # "idle" /\ place \in {"copy", "store"} /\ c.op \in {"save", "login"} => registry'[c.name] = registry[c.name]
        BY <2>1
    <2> QED BY <1>1, <2>2, <2>3, <2>4 DEF Decided
<1> QED BY <1>3, <1>4

-----------------------------------------------------------------------------
(* Steps of one process.                                                   *)

Locks == ({"profile"} \X Names) \cup {DefaultsLock, RegistryLock}

(* Process p takes the step: it leaves the locks of others, and changes    *)
(* nothing but what it has locked.                                         *)
StepOf(p, r) ==
    /\ proc' = [proc EXCEPT ![p] = r]
    /\ \A n \in Names : registry'[n] # registry[n] => Holding(p, ProfileLock(n), FALSE) \in held
    /\ registry' # registry => Holding(p, RegistryLock, FALSE) \in held
    /\ file' # file => Holding(p, DefaultsLock, FALSE) \in held

LEMMA OthersOf ==
    ASSUME DefaultsInv, NEW p \in Procs, NEW r, StepOf(p, r), NEW q \in Procs, q # p,
           \/ held' = held \/ held' = held \ Mine(p)
           \/ \E l, s : held' = held \cup {Holding(p, l, s)}
    PROVE  proc'[q] = proc[q] /\ LocksHeld(q)' /\ Decided(q)'
<1>1. proc'[q] = proc[q]
    BY DEF StepOf, DefaultsInv, TypeOK
<1>2. Mine(q)' = Mine(q)
    BY DEF Mine, Holding
<1>3. \A l : Holding(p, l, FALSE) \in held => ~Holds(q, l)
    BY Excluded DEF DefaultsInv
<1>4. /\ \A n \in Names : Holds(q, ProfileLock(n)) => registry'[n] = registry[n]
      /\ Holds(q, RegistryLock) => registry' = registry
      /\ Holds(q, DefaultsLock) => file' = file
    BY <1>3 DEF StepOf
<1> QED BY <1>1, <1>2, <1>4, OthersKept

(* The command comes back.                                                 *)
LEMMA Finished ==
    ASSUME DefaultsInv, NEW p \in Procs, NEW r, IsProcess(r), StepOf(p, r), r.pc = "idle",
           r.used # None => /\ r.guard.identity = <<r.guard.name, r.used>>
                            /\ r.cmd.role \in Supports[r.used],
           held' = held \ Mine(p),
           registry' \in [Names -> Profiles \cup {None}],
           Readable(file') => readDefaults(file') \in [Roles -> Slots \cup {None}],
           UNCHANGED <<keychain, edits, begun>>
    PROVE  DefaultsInv'
<1>1. proc'[p] = r /\ DOMAIN proc' = Procs
    BY DEF StepOf, DefaultsInv, TypeOK
<1>2. \A q \in Procs : q # p => proc'[q] = proc[q] /\ LocksHeld(q)' /\ Decided(q)'
    BY OthersOf
<1>3. TypeOK'
    <2>1. \A q \in Procs : IsProcess(proc'[q])
        BY <1>1, <1>2 DEF DefaultsInv, TypeOK
    <2> QED BY <1>1, <2>1 DEF DefaultsInv, TypeOK, Readable, readDefaults
<1>4. FencedUse'
    BY <1>1, <1>2 DEF DefaultsInv, FencedUse
<1>5. LocksExclude'
    <2>1. \A h \in held' : h \in held /\ h.by # p /\ h.by \in Procs
        BY DEF DefaultsInv, TypeOK, Mine
    <2>2. \A h \in held' : Shares(h.by)' = Shares(h.by) /\ proc'[h.by] = proc[h.by]
        BY <1>2, <2>1 DEF Shares
    <2> QED BY <2>1, <2>2 DEF DefaultsInv, LocksExclude
<1>6. LocksHeld(p)' /\ Decided(p)'
    BY <1>1 DEF LocksHeld, Decided
<1> QED BY <1>2, <1>3, <1>4, <1>5, <1>6 DEF DefaultsInv

(* The command goes on, perhaps with one more lock.                        *)
LEMMA Moved ==
    ASSUME DefaultsInv, NEW p \in Procs, NEW r, IsProcess(r), r.pc # "idle", r.used = None,
           r.cmd = proc[p].cmd \/ (Mine(p) = {} /\ held' = held),
           proc' = [proc EXCEPT ![p] = r], keychain' \subseteq Names, begun' \in 0 .. MaxCommands,
           UNCHANGED <<registry, file, edits>>,
           \/ held' = held /\ (Mine(p) = {} \/ r.pc \notin {"preview", "intent", "resolve", "look"})
           \/ /\ r.pc \notin {"preview", "intent", "resolve", "look"}
              /\ \E l \in Locks : Free(l, Shares(p)) /\ held' = held \cup {Holding(p, l, Shares(p))},
           LocksHeld(p)', Decided(p)'
    PROVE  DefaultsInv'
<1>1. proc'[p] = r /\ DOMAIN proc' = Procs
    BY DEF DefaultsInv, TypeOK
<1>2. \A q \in Procs : q # p => proc'[q] = proc[q] /\ LocksHeld(q)' /\ Decided(q)'
    <2>1. StepOf(p, r)
        BY DEF StepOf
    <2> QED BY <2>1, OthersOf
<1>3. \A q \in Procs : q # p \/ r.cmd = proc[p].cmd => Shares(q)' = Shares(q)
    BY <1>1, <1>2 DEF Shares
<1>4. TypeOK'
    <2>1. \A q \in Procs : IsProcess(proc'[q])
        BY <1>1, <1>2 DEF DefaultsInv, TypeOK
    <2>2. held' \subseteq [lock : Locks, by : Procs, shared : BOOLEAN]
        <3>1. Shares(p) \in BOOLEAN
            BY DEF Shares
        <3> QED BY <3>1 DEF DefaultsInv, TypeOK, Holding, Locks
    <2> QED BY <1>1, <2>1, <2>2 DEF DefaultsInv, TypeOK, Readable, readDefaults, Locks
<1>5. FencedUse'
    BY <1>1, <1>2 DEF DefaultsInv, FencedUse
<1>6. LocksExclude'
    <2>1. \A h \in held : h.by \in Procs
        BY DEF DefaultsInv, TypeOK
    <2>2. \A h \in held : /\ h.shared = Shares(h.by)'
                          /\ proc'[h.by].pc \notin {"idle", "preview", "intent", "resolve", "look"}
        BY <1>1, <1>2, <1>3, <2>1 DEF DefaultsInv, LocksExclude, Mine
    <2>3. CASE held' = held
        BY <2>2, <2>3 DEF DefaultsInv, LocksExclude
    <2>4. ASSUME NEW l \in Locks, Free(l, Shares(p)), held' = held \cup {Holding(p, l, Shares(p))},
                 r.pc \notin {"preview", "intent", "resolve", "look"}
          PROVE  LocksExclude'
        <3> DEFINE new == Holding(p, l, Shares(p))
        <3>1. new.lock = l /\ new.by = p /\ new.shared = Shares(p)
            BY DEF Holding
        <3>2. \A h \in held : h.lock = l => h.shared /\ Shares(p)
            BY <2>4 DEF Free
        <3> HIDE DEF new
        <3>3. \A g, h \in held' : g.lock = h.lock => g = h \/ (g.shared /\ h.shared)
            BY <2>4, <3>1, <3>2 DEF DefaultsInv, LocksExclude, new
        <3>4. \A h \in held' : /\ h.shared = Shares(h.by)'
                               /\ proc'[h.by].pc \notin {"idle", "preview", "intent", "resolve", "look"}
            <4>1. Shares(p)' = Shares(p)
                <5>1. CASE Mine(p) = {} /\ held' = held
                    <6>1. new \in held /\ new.by = p
                        BY <2>4, <3>1, <5>1 DEF new
                    <6> QED BY <5>1, <6>1 DEF Mine
                <5>2. CASE r.cmd = proc[p].cmd
                    BY <1>3, <5>2
                <5> QED BY <5>1, <5>2
            <4> QED BY <1>1, <2>2, <2>4, <3>1, <4>1 DEF new
        <3> QED BY <3>3, <3>4 DEF LocksExclude
    <2> QED BY <2>3, <2>4
<1> QED BY <1>2, <1>4, <1>5, <1>6 DEF DefaultsInv

-----------------------------------------------------------------------------
(* What a process has at each place.                                       *)

LEMMA Unlocked ==
    ASSUME DefaultsInv, NEW p \in Procs, proc[p].pc \in {"idle", "preview", "intent", "resolve", "look"}
    PROVE  Mine(p) = {}
BY DEF DefaultsInv, LocksExclude, Mine

LEMMA Placed ==
    ASSUME DefaultsInv, NEW p \in Procs
    PROVE  /\ IsProcess(proc[p]) /\ LocksHeld(p) /\ Decided(p)
           /\ proc[p].pc # "idle" => /\ proc[p].cmd \in Commands /\ proc[p].cmd.op \in Ops(proc[p].pc)
                                     /\ proc[p].used = None
BY DEF DefaultsInv, TypeOK, LocksHeld, Decided

(* What a process names and shares does not depend on its place.           *)
LEMMA SameNames ==
    ASSUME NEW p, proc'[p].cmd = proc[p].cmd, proc'[p].cmd.op = "use" => proc'[p].guard = proc[p].guard
    PROVE  /\ LockNames(p)' = LockNames(p) /\ Shares(p)' = Shares(p)
           /\ held \subseteq held' => \A l : Holds(p, l) => Holds(p, l)'
           /\ held' = held => Waiting(p)' = Waiting(p)
<1>1. LockNames(p)' = LockNames(p) /\ Shares(p)' = Shares(p)
    BY DEF LockNames, Shares
<1>2. held \subseteq held' => \A l : Holds(p, l) => Holds(p, l)'
    BY <1>1 DEF Holds, Holding
<1>3. held' = held => Waiting(p)' = Waiting(p)
    BY <1>1 DEF Waiting, Mine
<1> QED BY <1>1, <1>2, <1>3

(* The command came back and nothing changed.                              *)
LEMMA RefuseKeeps ==
    ASSUME DefaultsInv, NEW p \in Procs, Refuse(p)
    PROVE  DefaultsInv'
<1>1. IsProcess(Idle) /\ Idle.pc = "idle" /\ Idle.used = None
    BY DEF IsProcess, Idle
<1>2. proc' = [proc EXCEPT ![p] = Idle] /\ held' = held \ Mine(p)
    BY DEF Refuse, Finish
<1>3. StepOf(p, Idle)
    BY <1>2 DEF StepOf, Refuse
<1>4. /\ registry' \in [Names -> Profiles \cup {None}]
      /\ Readable(file') => readDefaults(file') \in [Roles -> Slots \cup {None}]
    BY DEF Refuse, DefaultsInv, TypeOK
<1>5. UNCHANGED <<keychain, edits, begun>>
    BY DEF Refuse
<1> HIDE DEF Idle
<1> QED BY <1>1, <1>2, <1>3, <1>4, <1>5, Finished

(* Its record at another place.                                            *)
GoneTo(r, place) == [r EXCEPT !.pc = place]

Places == {"idle", "preview", "lock", "load", "bind", "replace", "intent", "inspect", "copy", "store",
           "resolve", "look", "check"}

LEMMA GoneFields ==
    ASSUME NEW r, IsProcess(r), NEW place \in Places
    PROVE  /\ IsProcess(GoneTo(r, place)) /\ GoneTo(r, place).pc = place
           /\ GoneTo(r, place).cmd = r.cmd /\ GoneTo(r, place).slots = r.slots
           /\ GoneTo(r, place).doc = r.doc /\ GoneTo(r, place).copy = r.copy
           /\ GoneTo(r, place).intent = r.intent /\ GoneTo(r, place).guard = r.guard
           /\ GoneTo(r, place).used = r.used
BY DEF IsProcess, GoneTo, Places

(* A command that holds no lock yet goes on to its locks.                  *)
LEMMA ToLocks ==
    ASSUME DefaultsInv, NEW p \in Procs, Mine(p) = {}, NEW r, IsProcess(r), r.pc = "lock", r.used = None,
           proc[p].pc # "idle", r.cmd = proc[p].cmd, r.cmd.op \in Ops("lock"),
           r.guard = proc[p].guard,
           r.cmd.op = "use" => /\ r.guard \in Slots
                               /\ \E t \in Topologies : /\ r.guard.identity = <<r.guard.name, t>>
                                                        /\ r.cmd.role \in Supports[t],
           r.cmd.op = "login" => r.intent \in Topologies,
           proc' = [proc EXCEPT ![p] = r], UNCHANGED <<registry, keychain, file, edits, begun, held>>
    PROVE  DefaultsInv'
<1>1. proc'[p] = r
    BY DEF DefaultsInv, TypeOK
<1>2. LocksHeld(p)'
    <2>1. r.cmd \in Commands
        BY Placed
    <2>2. LockNames(p)' = LockNames(p)
        BY <1>1, SameNames
    <2>3. LockNames(p) # {}
        <3>1. CASE r.cmd.op \in {"set", "set-readonly"}
            <4>1. PICK s \in Named(r.cmd) : TRUE
                BY <2>1, <3>1, Flags
            <4>2. r.cmd.slots[s] \in LockNames(p)
                BY <3>1, <4>1 DEF LockNames
            <4> QED BY <4>2
        <3>2. CASE r.cmd.op \notin {"set", "set-readonly"}
            BY <3>2 DEF LockNames
        <3> QED BY <3>1, <3>2
    <2>4. Waiting(p)' = LockNames(p)'
        BY DEF Waiting, Mine
    <2> QED BY <1>1, <2>1, <2>2, <2>3, <2>4 DEF LocksHeld
<1>3. Decided(p)'
    BY <1>1 DEF Decided
<1>4. keychain' \subseteq Names /\ begun' \in 0 .. MaxCommands
    BY DEF DefaultsInv, TypeOK
<1> QED BY <1>2, <1>3, <1>4, Moved

-----------------------------------------------------------------------------
(* Each action keeps the invariant.                                        *)

BegunAt(c) == [Idle EXCEPT !.cmd = c, !.pc =
                 CASE c.op \in {"set", "set-readonly", "clear"} -> "preview"
                   [] c.op = "use" -> "resolve" [] c.op = "login" -> "intent" [] OTHER -> "lock"]

LEMMA BegunFields ==
    ASSUME NEW c \in Commands
    PROVE  /\ IsProcess(BegunAt(c)) /\ BegunAt(c).cmd = c /\ BegunAt(c).used = None
           /\ BegunAt(c).pc =
                CASE c.op \in {"set", "set-readonly", "clear"} -> "preview"
                  [] c.op = "use" -> "resolve" [] c.op = "login" -> "intent" [] OTHER -> "lock"
           /\ BegunAt(c).pc \in {"preview", "resolve", "intent", "lock"}
<1>1. BegunAt(c).pc \in {"preview", "resolve", "intent", "lock"}
    <2>1. /\ c.op \in {"set", "set-readonly", "clear"} => c.op \notin {"use", "login"}
          /\ c.op = "use" => c.op # "login"
        OBVIOUS
    <2> QED BY <2>1 DEF BegunAt, Idle
<1> QED BY <1>1 DEF BegunAt, Idle, IsProcess

LEMMA BeginKeeps ==
    ASSUME DefaultsInv, NEW p \in Procs, Begin(p)
    PROVE  DefaultsInv'
<1>1. PICK c \in Commands : proc' = [proc EXCEPT ![p] = BegunAt(c)]
    BY DEF Begin, BegunAt
<1> DEFINE r == BegunAt(c)
<1>2. /\ IsProcess(r) /\ r.cmd = c /\ r.used = None
      /\ r.pc = CASE c.op \in {"set", "set-readonly", "clear"} -> "preview"
                  [] c.op = "use" -> "resolve" [] c.op = "login" -> "intent" [] OTHER -> "lock"
      /\ r.pc \in {"preview", "resolve", "intent", "lock"}
    BY BegunFields
<1> HIDE DEF r
<1>3. Mine(p) = {} /\ proc'[p] = r /\ UNCHANGED <<registry, keychain, file, edits, held>>
    BY <1>1, Unlocked DEF Begin, DefaultsInv, TypeOK, r
<1>4. c.op \in Ops("lock") \cup {"clear"}
    BY Flags
<1>5. c.op \in Ops(r.pc)
    BY <1>2, <1>4 DEF Ops
<1>6. LocksHeld(p)'
    <2>1. ASSUME r.pc = "lock" PROVE Waiting(p)' # {}
        <3>1. c.op \in {"save", "admit", "remove", "drop", "logout"}
            BY <1>2, <1>4, <2>1 DEF Ops
        <3>2. LockNames(p)' = {c.name}
            BY <1>2, <1>3, <3>1 DEF LockNames
        <3>3. Waiting(p)' = LockNames(p)'
            BY <1>3 DEF Waiting, Mine
        <3> QED BY <3>2, <3>3
    <2> QED BY <1>2, <1>3, <1>5, <2>1 DEF LocksHeld
<1>7. Decided(p)'
    <2>1. r.pc = "lock" => c.op \notin {"use", "login"}
        BY <1>2
    <2>2. c.op = "login" => r.pc = "intent"
        BY <1>2
    <2> QED BY <1>2, <1>3, <2>1, <2>2 DEF Decided
<1>8. keychain' \subseteq Names /\ begun' \in 0 .. MaxCommands
    BY DefaultsAssumption DEF Begin, DefaultsInv, TypeOK
<1> QED BY <1>1, <1>2, <1>3, <1>6, <1>7, <1>8, Moved DEF r

LEMMA PreviewKeeps ==
    ASSUME DefaultsInv, NEW p \in Procs, PreviewSet(p) \/ PreviewReadonly(p) \/ PreviewClear(p)
    PROVE  DefaultsInv'
<1> DEFINE c == proc[p].cmd
<1> SUFFICES ASSUME ~Refuse(p) PROVE DefaultsInv'
    BY RefuseKeeps
<1>1. /\ IsProcess(proc[p]) /\ LocksHeld(p) /\ Decided(p) /\ proc[p].pc = "preview"
      /\ c \in Commands /\ proc[p].used = None /\ Mine(p) = {}
    BY Placed, Unlocked DEF PreviewSet, PreviewReadonly, PreviewClear
<1>2. PICK place \in {"lock", "load"} :
          /\ \/ c.op \in {"set", "set-readonly"} /\ place = "lock"
             \/ c.op = "clear" /\ place = "load"
          /\ proc' = [proc EXCEPT ![p] = GoneTo(proc[p], place)]
    BY DEF PreviewSet, PreviewReadonly, PreviewClear, Previewed, Go, GoneTo
<1>3. UNCHANGED <<registry, keychain, file, edits, begun, held>>
    BY DEF PreviewSet, PreviewReadonly, PreviewClear, Previewed
<1> DEFINE r == GoneTo(proc[p], place)
<1>4. /\ IsProcess(r) /\ r.pc = place /\ r.cmd = c /\ r.used = None /\ r.guard = proc[p].guard
    BY <1>1, <1>2, GoneFields DEF Places
<1> HIDE DEF r
<1>5. CASE place = "lock"
    BY <1>1, <1>2, <1>3, <1>4, <1>5, ToLocks DEF Ops, r
<1>6. CASE place = "load"
    <2>1. c.op = "clear" /\ proc'[p] = r
        BY <1>2, <1>6 DEF DefaultsInv, TypeOK, r
    <2>2. LocksHeld(p)' /\ Decided(p)'
        BY <1>1, <1>4, <1>6, <2>1 DEF LocksHeld, Decided, Ops
    <2>3. keychain' \subseteq Names /\ begun' \in 0 .. MaxCommands
        BY <1>3 DEF DefaultsInv, TypeOK
    <2> QED BY <1>1, <1>2, <1>3, <1>4, <1>6, <2>2, <2>3, Moved DEF r
<1> QED BY <1>2, <1>5, <1>6

LEMMA TakeProfileLockKeeps ==
    ASSUME DefaultsInv, NEW p \in Procs, TakeProfileLock(p)
    PROVE  DefaultsInv'
<1> DEFINE c == proc[p].cmd
           n == NextLock(p, Waiting(p))
           place == IF Waiting(p) = {n} THEN Entered(c) ELSE "lock"
           r == GoneTo(proc[p], place)
           new == Holding(p, ProfileLock(n), Shares(p))
<1>1. /\ IsProcess(proc[p]) /\ LocksHeld(p) /\ Decided(p) /\ proc[p].pc = "lock"
      /\ c \in Commands /\ c.op \in Ops("lock") /\ proc[p].used = None
    BY Placed DEF TakeProfileLock
<1>2. c.op = "use" => proc[p].guard \in Slots
    BY <1>1 DEF Decided
<1>3. LockNames(p) \subseteq Names /\ \E a, b \in Nat : LockNames(p) \subseteq {a, b}
    BY <1>1, <1>2, NamesLocked DEF Ops
<1>4. n \in Waiting(p) /\ n \in Names
    <2>1. Waiting(p) \subseteq LockNames(p)
        BY DEF Waiting
    <2>2. Waiting(p) # {}
        BY <1>1 DEF LocksHeld
    <2>3. PICK a, b \in Nat : Waiting(p) \subseteq {a, b}
        BY <1>3, <2>1
    <2>4. n \in Waiting(p)
        BY <2>2, <2>3, NextNeeded
    <2> QED BY <1>3, <2>1, <2>4
<1>5. /\ Free(ProfileLock(n), Shares(p)) /\ held' = held \cup {new}
      /\ proc' = [proc EXCEPT ![p] = r] /\ UNCHANGED <<registry, keychain, file, edits, begun>>
    BY DEF TakeProfileLock, Go, GoneTo
<1>6. Entered(c) \in {"load", "bind", "check", "copy", "inspect"} /\ c.op \in Ops(Entered(c)) /\ Entered(c) \in Places
    BY <1>1 DEF Entered, Ops, Places
<1>7. place \in Places /\ place \in {"lock", Entered(c)}
    BY <1>6 DEF Places
<1> HIDE DEF n, place
<1>8. /\ IsProcess(r) /\ r.pc = place /\ r.cmd = c /\ r.used = None /\ r.guard = proc[p].guard
      /\ r.intent = proc[p].intent
    BY <1>1, <1>7, GoneFields
<1> HIDE DEF r
<1>9. proc'[p] = r
    BY <1>5 DEF DefaultsInv, TypeOK
<1>10. LockNames(p)' = LockNames(p) /\ Shares(p)' = Shares(p)
    BY <1>8, <1>9, SameNames
<1>11. new.lock = ProfileLock(n) /\ new.by = p
    BY DEF Holding
<1>12. ASSUME NEW m, m \in LockNames(p), m = n \/ m \notin Waiting(p)
       PROVE  Holds(p, ProfileLock(m))'
    <2>1. CASE m = n
        BY <1>5, <1>10, <2>1 DEF Holds, Holding
    <2>2. CASE m # n
        <3>1. PICK h \in held : h.by = p /\ h.lock = ProfileLock(m)
            BY <1>12, <2>2 DEF Waiting, Mine
        <3>2. h = Holding(p, ProfileLock(m), Shares(p))
            BY <3>1 DEF Holding, DefaultsInv, TypeOK, LocksExclude
        <3> QED BY <1>5, <1>10, <3>2 DEF Holds, Holding
    <2> QED BY <2>1, <2>2
<1>13. LocksHeld(p)'
    <2>1. CASE Waiting(p) = {n}
        <3>1. place = Entered(c)
            BY <2>1 DEF place
        <3>2. \A m \in LockNames(p)' : Holds(p, ProfileLock(m))'
            BY <1>10, <1>12, <2>1
        <3>3. place = "bind" => c.op # "set"
            BY <3>1 DEF Entered
        <3> QED BY <1>1, <1>6, <1>8, <1>9, <3>1, <3>2, <3>3 DEF LocksHeld
    <2>2. CASE Waiting(p) # {n}
        <3>1. place = "lock"
            BY <2>2 DEF place
        <3>2. PICK m \in Waiting(p) : m # n
            BY <1>4, <2>2
        <3>3. ProfileLock(m) # ProfileLock(n)
            BY <3>2 DEF ProfileLock
        <3>4. m \in Waiting(p)'
            BY <1>5, <1>10, <1>11, <3>2, <3>3 DEF Waiting, Mine
        <3> QED BY <1>1, <1>8, <1>9, <3>1, <3>4 DEF LocksHeld
    <2> QED BY <2>1, <2>2
<1>14. Decided(p)'
    <2>1. \/ place = "lock"
          \/ place = "load" /\ c.op = "set"
          \/ place \in {"bind", "inspect"}
          \/ place = "check" /\ c.op = "use"
          \/ place = "copy" /\ c.op \in {"admit", "drop"}
        BY <1>1, <1>7 DEF Entered, Ops
    <2> QED BY <1>1, <1>8, <1>9, <2>1 DEF Decided
<1>15. ProfileLock(n) \in Locks
    BY <1>4 DEF ProfileLock, Locks
<1>16. keychain' \subseteq Names /\ begun' \in 0 .. MaxCommands
    BY <1>5 DEF DefaultsInv, TypeOK
<1>17. r.pc \notin {"idle", "preview", "intent", "resolve", "look"}
    BY <1>6, <1>7, <1>8
<1> QED BY <1>5, <1>8, <1>13, <1>14, <1>15, <1>16, <1>17, Moved

(* A profile that is not only read is locked alone.                        *)
LEMMA NotShared ==
    ASSUME NEW p, proc[p].cmd.op # "use"
    PROVE  Shares(p) = FALSE /\ \A l : Holds(p, l) => Holding(p, l, FALSE) \in held
BY DEF Shares, Holds

BoundTo(r, slots, place) == [r EXCEPT !.slots = slots, !.pc = place]

LEMMA BoundFields ==
    ASSUME NEW r, IsProcess(r), NEW slots, NEW place \in Places
    PROVE  /\ IsProcess(BoundTo(r, slots, place)) /\ BoundTo(r, slots, place).pc = place
           /\ BoundTo(r, slots, place).slots = slots /\ BoundTo(r, slots, place).cmd = r.cmd
           /\ BoundTo(r, slots, place).doc = r.doc /\ BoundTo(r, slots, place).guard = r.guard
           /\ BoundTo(r, slots, place).used = r.used
BY DEF IsProcess, BoundTo, Places

(* A slot is made of an eligible profile and is valid when it is made.     *)
LEMMA SlotMade ==
    ASSUME DefaultsInv, NEW c \in Commands, c.op \in {"set", "set-readonly"}, AllEligible(c), NEW r \in Named(c)
    PROVE  /\ SlotFor(c.slots[r], registry[c.slots[r]]) \in Slots
           /\ SlotFor(c.slots[r], registry[c.slots[r]]).name = c.slots[r]
           /\ SlotState(SlotFor(c.slots[r], registry[c.slots[r]]), r) = "valid"
<1> DEFINE n == c.slots[r]
           value == registry[n]
           slot == SlotFor(n, value)
<1>1. r \in Roles /\ n \in Names /\ (c.op = "set-readonly" => r = "read")
    BY Flags
<1>2. value # None /\ r \in Supports[value.topology]
    BY <1>1 DEF AllEligible, Eligible, ReadOnly
<1>3. value \in Profiles
    BY <1>1, <1>2 DEF DefaultsInv, TypeOK
<1>4. slot.name = n /\ slot.identity = SelectionIdentity(n, value) /\ slot \in Slots
    BY <1>1, <1>3 DEF SlotFor, SelectionIdentity, Slots, Profiles
<1>5. slot # None
    BY <1>4, DefaultsAssumption
<1> HIDE DEF slot
<1>6. SlotState(slot, r) = "valid"
    BY <1>2, <1>4, <1>5 DEF SlotState
<1> QED BY <1>4, <1>6 DEF slot

LEMMA BindKeeps ==
    ASSUME DefaultsInv, NEW p \in Procs, Bind(p)
    PROVE  DefaultsInv'
<1> DEFINE c == proc[p].cmd
           slots == [r \in Named(c) |-> SlotFor(c.slots[r], registry[c.slots[r]])]
           place == IF c.op = "set" THEN "replace" ELSE "load"
           r == BoundTo(proc[p], slots, place)
<1> SUFFICES ASSUME ~Refuse(p) PROVE DefaultsInv'
    BY RefuseKeeps
<1>1. /\ IsProcess(proc[p]) /\ LocksHeld(p) /\ Decided(p) /\ proc[p].pc = "bind"
      /\ c \in Commands /\ c.op \in {"set", "set-readonly"} /\ proc[p].used = None
    BY Placed DEF Bind, Ops
<1>2. /\ AllEligible(c) /\ UNCHANGED <<registry, keychain, file, edits, begun, held>>
      /\ proc' = [proc EXCEPT ![p].slots = slots, ![p].pc = place]
    BY DEF Bind
<1>3. \A s \in Named(c) : /\ slots[s] \in Slots /\ slots[s].name = c.slots[s]
                          /\ SlotState(slots[s], s) = "valid"
    BY <1>1, <1>2, SlotMade
<1> HIDE DEF slots
<1>4. proc' = [proc EXCEPT ![p] = r]
    BY <1>2 DEF BoundTo
<1>5. /\ IsProcess(r) /\ r.pc = place /\ r.cmd = c /\ r.used = None /\ r.guard = proc[p].guard
      /\ r.slots = slots /\ r.doc = proc[p].doc
    BY <1>1, BoundFields DEF Places
<1> HIDE DEF r
<1>6. proc'[p] = r
    BY <1>4 DEF DefaultsInv, TypeOK
<1>7. LockNames(p)' = LockNames(p) /\ \A l : Holds(p, l) => Holds(p, l)'
    BY <1>2, <1>5, <1>6, SameNames
<1>8. LocksHeld(p)'
    <2>1. \A n \in LockNames(p) : Holds(p, ProfileLock(n))
        BY <1>1 DEF LocksHeld
    <2>2. \A n \in LockNames(p)' : Holds(p, ProfileLock(n))'
        BY <1>7, <2>1
    <2>3. place = "replace" => /\ Holds(p, DefaultsLock)' /\ Readable(file)'
                               /\ r.doc = readDefaults(file)'
        BY <1>1, <1>2, <1>5, <1>7 DEF LocksHeld, Readable, readDefaults
    <2> QED BY <1>1, <1>5, <1>6, <2>2, <2>3 DEF LocksHeld, Ops
<1>9. Decided(p)'
    <2>1. ASSUME NEW s \in Named(c)
          PROVE  /\ proc'[p].slots[s] \in Slots /\ proc'[p].slots[s].name = c.slots[s]
                 /\ SlotState(proc[p].slots[s], s)' = "valid"
        <3>1. proc'[p].slots[s] = slots[s]
            BY <1>5, <1>6
        <3>2. SlotState(proc[p].slots[s], s)' = SlotState(slots[s], s)
            BY <1>2, <3>1 DEF SlotState
        <3> QED BY <1>3, <3>1, <3>2
    <2>2. Named(c)' = Named(c) /\ proc'[p].cmd = c
        BY <1>5, <1>6 DEF Named
    <2>3. c.op \notin {"save", "login", "use"} /\ r.pc \in {"replace", "load"}
        BY <1>1, <1>5
    <2> QED BY <1>5, <1>6, <2>1, <2>2, <2>3 DEF Decided
<1>10. keychain' \subseteq Names /\ begun' \in 0 .. MaxCommands
    BY <1>2 DEF DefaultsInv, TypeOK
<1> QED BY <1>1, <1>2, <1>4, <1>5, <1>8, <1>9, <1>10, Moved

LoadedAs(r, doc, place) == [r EXCEPT !.doc = doc, !.pc = place]

LEMMA LoadedFields ==
    ASSUME NEW r, IsProcess(r), NEW doc, NEW place \in Places
    PROVE  /\ IsProcess(LoadedAs(r, doc, place)) /\ LoadedAs(r, doc, place).pc = place
           /\ LoadedAs(r, doc, place).slots = r.slots /\ LoadedAs(r, doc, place).cmd = r.cmd
           /\ LoadedAs(r, doc, place).doc = doc /\ LoadedAs(r, doc, place).guard = r.guard
           /\ LoadedAs(r, doc, place).used = r.used
BY DEF IsProcess, LoadedAs, Places

LEMMA LoadDefaultsKeeps ==
    ASSUME DefaultsInv, NEW p \in Procs, LoadDefaults(p)
    PROVE  DefaultsInv'
<1> DEFINE c == proc[p].cmd
           place == IF c.op = "set" THEN "bind" ELSE "replace"
           r == LoadedAs(proc[p], readDefaults(file), place)
<1> SUFFICES ASSUME ~Refuse(p) PROVE DefaultsInv'
    BY RefuseKeeps
<1>1. /\ IsProcess(proc[p]) /\ LocksHeld(p) /\ Decided(p) /\ proc[p].pc = "load"
      /\ c \in Commands /\ c.op \in {"set", "set-readonly", "clear"} /\ proc[p].used = None
    BY Placed DEF LoadDefaults, Ops
<1>2. /\ Free(DefaultsLock, FALSE) /\ Readable(file)
      /\ UNCHANGED <<registry, keychain, file, edits, begun>>
      /\ held' = held \cup {Holding(p, DefaultsLock, FALSE)}
      /\ proc' = [proc EXCEPT ![p].doc = readDefaults(file), ![p].pc = place]
    BY DEF LoadDefaults
<1>3. Shares(p) = FALSE
    BY <1>1, NotShared
<1>4. proc' = [proc EXCEPT ![p] = r]
    BY <1>2 DEF LoadedAs
<1>5. /\ IsProcess(r) /\ r.pc = place /\ r.cmd = c /\ r.used = None /\ r.guard = proc[p].guard
      /\ r.slots = proc[p].slots /\ r.doc = readDefaults(file)
    BY <1>1, LoadedFields DEF Places
<1> HIDE DEF r
<1>6. proc'[p] = r
    BY <1>4 DEF DefaultsInv, TypeOK
<1>7. LockNames(p)' = LockNames(p) /\ Shares(p)' = Shares(p) /\ \A l : Holds(p, l) => Holds(p, l)'
    BY <1>2, <1>5, <1>6, SameNames
<1>8. LocksHeld(p)'
    <2>1. c.op # "clear" => \A n \in LockNames(p) : Holds(p, ProfileLock(n))
        BY <1>1 DEF LocksHeld
    <2>2. c.op # "clear" => \A n \in LockNames(p)' : Holds(p, ProfileLock(n))'
        BY <1>7, <2>1
    <2>3. Holds(p, DefaultsLock)'
        BY <1>2, <1>3, <1>7 DEF Holds, Holding, DefaultsLock
    <2>4. Readable(file)' /\ r.doc = readDefaults(file)'
        BY <1>2, <1>5 DEF Readable, readDefaults
    <2> QED BY <1>1, <1>5, <1>6, <2>2, <2>3, <2>4 DEF LocksHeld, Ops
<1>9. Decided(p)'
    <2>1. ASSUME place = "replace", c.op # "clear", NEW s \in Named(c)
          PROVE  /\ proc'[p].slots[s] \in Slots /\ proc'[p].slots[s].name = c.slots[s]
                 /\ SlotState(proc[p].slots[s], s)' = "valid"
        <3>1. proc'[p].slots[s] = proc[p].slots[s]
            BY <1>5, <1>6
        <3>2. SlotState(proc[p].slots[s], s)' = SlotState(proc[p].slots[s], s)
            BY <1>2, <3>1 DEF SlotState
        <3>3. c.op = "set-readonly"
            BY <1>1, <2>1
        <3> QED BY <1>1, <2>1, <3>1, <3>2, <3>3 DEF Decided
    <2>2. Named(c)' = Named(c) /\ proc'[p].cmd = c
        BY <1>5, <1>6 DEF Named
    <2>3. c.op \notin {"save", "login", "use"} /\ r.pc \in {"replace", "bind"}
        BY <1>1, <1>5
    <2> QED BY <1>5, <1>6, <2>1, <2>2, <2>3 DEF Decided
<1>10. keychain' \subseteq Names /\ begun' \in 0 .. MaxCommands
    BY <1>2 DEF DefaultsInv, TypeOK
<1>11. DefaultsLock \in Locks
    BY DEF Locks
<1> QED BY <1>1, <1>2, <1>3, <1>4, <1>5, <1>8, <1>9, <1>10, <1>11, Moved

(* What a command writes: the slots it names as it bound them, valid still,*)
(* and the others as the file has them.                                    *)
LEMMA Replaced ==
    ASSUME DefaultsInv, NEW p \in Procs, ReplaceDefaults(p)
    PROVE  /\ proc[p].cmd \in Commands /\ Readable(file) /\ Holding(p, DefaultsLock, FALSE) \in held
           /\ readDefaults(file') \in [Roles -> Slots \cup {None}]
           /\ \A r \in Roles :
                IF proc[p].cmd.op = "clear"
                THEN readDefaults(file')[r] = IF r \in proc[p].cmd.roles THEN None ELSE readDefaults(file)[r]
                ELSE IF r \in Named(proc[p].cmd)
                     THEN /\ readDefaults(file')[r] = proc[p].slots[r]
                          /\ SlotState(proc[p].slots[r], r) = "valid"
                     ELSE readDefaults(file')[r] = readDefaults(file)[r]
<1> DEFINE c == proc[p].cmd
           d == [r \in Roles |->
                 IF c.op = "clear" THEN (IF r \in c.roles THEN None ELSE proc[p].doc[r])
                 ELSE IF r \in Named(c) THEN proc[p].slots[r] ELSE proc[p].doc[r]]
<1>1. /\ LocksHeld(p) /\ Decided(p) /\ proc[p].pc = "replace"
      /\ c \in Commands /\ c.op \in {"set", "set-readonly", "clear"}
    BY Placed DEF ReplaceDefaults, Ops
<1>2. Holds(p, DefaultsLock) /\ Readable(file) /\ proc[p].doc = readDefaults(file)
    BY <1>1 DEF LocksHeld
<1>3. Holding(p, DefaultsLock, FALSE) \in held
    BY <1>1, <1>2, NotShared
<1>4. readDefaults(file) \in [Roles -> Slots \cup {None}]
    BY <1>2 DEF DefaultsInv, TypeOK
<1>5. c.op # "clear" => \A r \in Named(c) : proc[p].slots[r] \in Slots /\ SlotState(proc[p].slots[r], r) = "valid"
    BY <1>1 DEF Decided
<1>6. d \in [Roles -> Slots \cup {None}]
    BY <1>2, <1>4, <1>5
<1>7. readDefaults(file') = d
    BY <1>6, EncodeRead DEF ReplaceDefaults
<1> QED BY <1>1, <1>2, <1>3, <1>5, <1>6, <1>7

LEMMA IdleFields == IsProcess(Idle) /\ Idle.pc = "idle" /\ Idle.used = None
BY DEF IsProcess, Idle

LEMMA ReplaceDefaultsKeeps ==
    ASSUME DefaultsInv, NEW p \in Procs, ReplaceDefaults(p)
    PROVE  DefaultsInv'
<1>1. /\ proc' = [proc EXCEPT ![p] = Idle] /\ held' = held \ Mine(p)
      /\ UNCHANGED <<registry, keychain, edits, begun>>
    BY DEF ReplaceDefaults, Finish
<1>2. StepOf(p, Idle)
    BY <1>1, Replaced DEF StepOf
<1>3. registry' \in [Names -> Profiles \cup {None}]
    BY <1>1 DEF DefaultsInv, TypeOK
<1>4. readDefaults(file') \in [Roles -> Slots \cup {None}]
    BY Replaced
<1> QED BY <1>1, <1>2, <1>3, <1>4, IdleFields, Finished

MeantAs(r, topology) == [r EXCEPT !.intent = topology, !.pc = "lock"]

LEMMA MeantFields ==
    ASSUME NEW r, IsProcess(r), NEW topology \in Topologies
    PROVE  /\ IsProcess(MeantAs(r, topology)) /\ MeantAs(r, topology).pc = "lock"
           /\ MeantAs(r, topology).cmd = r.cmd /\ MeantAs(r, topology).guard = r.guard
           /\ MeantAs(r, topology).intent = topology /\ MeantAs(r, topology).used = r.used
BY DEF IsProcess, MeantAs

LEMMA ReadIntentKeeps ==
    ASSUME DefaultsInv, NEW p \in Procs, ReadIntent(p)
    PROVE  DefaultsInv'
<1> DEFINE c == proc[p].cmd
           value == registry[c.name]
           r == MeantAs(proc[p], value.topology)
<1> SUFFICES ASSUME ~Refuse(p) PROVE DefaultsInv'
    BY RefuseKeeps
<1>1. /\ IsProcess(proc[p]) /\ proc[p].pc = "intent" /\ Mine(p) = {}
      /\ c \in Commands /\ c.op = "login" /\ proc[p].used = None
    BY Placed, Unlocked DEF ReadIntent, Ops
<1>2. /\ value # None /\ UNCHANGED <<registry, keychain, file, edits, begun, held>>
      /\ proc' = [proc EXCEPT ![p].intent = value.topology, ![p].pc = "lock"]
    BY DEF ReadIntent
<1>3. c.name \in Names
    BY <1>1, Flags
<1>4. value \in Profiles
    BY <1>2, <1>3 DEF DefaultsInv, TypeOK
<1>5. value.topology \in Topologies
    BY <1>4 DEF Profiles
<1>6. proc' = [proc EXCEPT ![p] = r]
    BY <1>2 DEF MeantAs
<1>7. /\ IsProcess(r) /\ r.pc = "lock" /\ r.cmd = c /\ r.used = None /\ r.guard = proc[p].guard
      /\ r.intent \in Topologies
    BY <1>1, <1>5, MeantFields
<1> HIDE DEF r
<1> QED BY <1>1, <1>2, <1>6, <1>7, ToLocks DEF Ops

LEMMA InspectKeeps ==
    ASSUME DefaultsInv, NEW p \in Procs, Inspect(p)
    PROVE  DefaultsInv'
<1> DEFINE c == proc[p].cmd
           r == GoneTo(proc[p], "copy")
<1> SUFFICES ASSUME ~Refuse(p) PROVE DefaultsInv'
    BY RefuseKeeps
<1>1. /\ IsProcess(proc[p]) /\ LocksHeld(p) /\ Decided(p) /\ proc[p].pc = "inspect"
      /\ c \in Commands /\ c.op \in {"save", "remove", "login", "logout"} /\ proc[p].used = None
    BY Placed DEF Inspect, Ops
<1>2. /\ UNCHANGED <<registry, file, edits, begun, held>>
      /\ proc' = [proc EXCEPT ![p] = r]
      /\ keychain' = CASE c.op = "login" -> keychain \cup {c.name}
                       [] c.op = "logout" -> keychain \ {c.name}
                       [] OTHER -> keychain
    BY DEF Inspect, Go, GoneTo
<1>3. /\ c.op = "save" => registry[c.name] = None \/ ~registry[c.name].bound
      /\ c.op = "login" => registry[c.name] # None /\ registry[c.name].topology = proc[p].intent
    BY DEF Inspect, SaveAllowed, LoginAllowed, Authenticated
<1>4. /\ IsProcess(r) /\ r.pc = "copy" /\ r.cmd = c /\ r.used = None /\ r.guard = proc[p].guard
      /\ r.intent = proc[p].intent
    BY <1>1, GoneFields DEF Places
<1> HIDE DEF r
<1>5. proc'[p] = r
    BY <1>2 DEF DefaultsInv, TypeOK
<1>6. LockNames(p)' = LockNames(p) /\ \A l : Holds(p, l) => Holds(p, l)'
    BY <1>2, <1>4, <1>5, SameNames
<1>7. LocksHeld(p)'
    <2>1. \A n \in LockNames(p) : Holds(p, ProfileLock(n))
        BY <1>1 DEF LocksHeld
    <2>2. \A n \in LockNames(p)' : Holds(p, ProfileLock(n))'
        BY <1>6, <2>1
    <2> QED BY <1>1, <1>4, <1>5, <2>2 DEF LocksHeld, Ops
<1>8. Decided(p)'
    <2>1. c.op = "login" => proc[p].intent \in Topologies
        BY <1>1 DEF Decided
    <2> QED BY <1>1, <1>2, <1>3, <1>4, <1>5, <2>1 DEF Decided
<1>9. keychain' \subseteq Names /\ begun' \in 0 .. MaxCommands
    <2>1. keychain \subseteq Names /\ c.name \in Names
        BY <1>1, Flags DEF DefaultsInv, TypeOK
    <2>2. begun' \in 0 .. MaxCommands
        BY <1>2 DEF DefaultsInv, TypeOK
    <2> QED BY <1>1, <1>2, <2>1, <2>2
<1> QED BY <1>1, <1>2, <1>4, <1>7, <1>8, <1>9, Moved

CopiedAs(r, copy) == [r EXCEPT !.copy = copy, !.pc = "store"]

LEMMA CopiedFields ==
    ASSUME NEW r, IsProcess(r), NEW copy
    PROVE  /\ IsProcess(CopiedAs(r, copy)) /\ CopiedAs(r, copy).pc = "store"
           /\ CopiedAs(r, copy).cmd = r.cmd /\ CopiedAs(r, copy).guard = r.guard
           /\ CopiedAs(r, copy).intent = r.intent /\ CopiedAs(r, copy).used = r.used
           /\ CopiedAs(r, copy).copy = copy
BY DEF IsProcess, CopiedAs

LEMMA CopyRegistryKeeps ==
    ASSUME DefaultsInv, NEW p \in Procs, CopyRegistry(p)
    PROVE  DefaultsInv'
<1> DEFINE c == proc[p].cmd
           r == CopiedAs(proc[p], registry)
<1>1. /\ IsProcess(proc[p]) /\ LocksHeld(p) /\ Decided(p) /\ proc[p].pc = "copy"
      /\ c \in Commands /\ c.op \in {"save", "remove", "login", "logout", "admit", "drop"}
      /\ proc[p].used = None
    BY Placed DEF CopyRegistry, Ops
<1>2. /\ Free(RegistryLock, FALSE) /\ held' = held \cup {Holding(p, RegistryLock, FALSE)}
      /\ UNCHANGED <<registry, keychain, file, edits, begun>>
      /\ proc' = [proc EXCEPT ![p].copy = registry, ![p].pc = "store"]
    BY DEF CopyRegistry
<1>3. Shares(p) = FALSE
    BY <1>1, NotShared
<1>4. proc' = [proc EXCEPT ![p] = r]
    BY <1>2 DEF CopiedAs
<1>5. /\ IsProcess(r) /\ r.pc = "store" /\ r.cmd = c /\ r.used = None /\ r.guard = proc[p].guard
      /\ r.intent = proc[p].intent /\ r.copy = registry
    BY <1>1, CopiedFields
<1> HIDE DEF r
<1>6. proc'[p] = r
    BY <1>4 DEF DefaultsInv, TypeOK
<1>7. LockNames(p)' = LockNames(p) /\ Shares(p)' = Shares(p) /\ \A l : Holds(p, l) => Holds(p, l)'
    BY <1>2, <1>5, <1>6, SameNames
<1>8. LocksHeld(p)'
    <2>1. \A n \in LockNames(p) : Holds(p, ProfileLock(n))
        BY <1>1 DEF LocksHeld
    <2>2. \A n \in LockNames(p)' : Holds(p, ProfileLock(n))'
        BY <1>7, <2>1
    <2>3. Holds(p, RegistryLock)'
        BY <1>2, <1>3, <1>7 DEF Holds, Holding, RegistryLock
    <2> QED BY <1>1, <1>2, <1>5, <1>6, <2>2, <2>3 DEF LocksHeld, Ops
<1>9. Decided(p)'
    BY <1>1, <1>2, <1>5, <1>6 DEF Decided
<1>10. keychain' \subseteq Names /\ begun' \in 0 .. MaxCommands
    BY <1>2 DEF DefaultsInv, TypeOK
<1>11. RegistryLock \in Locks
    BY DEF Locks
<1> QED BY <1>1, <1>2, <1>3, <1>4, <1>5, <1>8, <1>9, <1>10, <1>11, Moved

(* What a command makes of the registry: one profile, which it has locked, *)
(* and that keeps its topology if a login bound it before.                 *)
LEMMA Stored ==
    ASSUME DefaultsInv, NEW p \in Procs, StoreRegistry(p), ~Refuse(p)
    PROVE  /\ proc[p].cmd.name \in Names /\ registry' \in [Names -> Profiles \cup {None}]
           /\ \A n \in Names : n # proc[p].cmd.name => registry'[n] = registry[n]
           /\ Holding(p, ProfileLock(proc[p].cmd.name), FALSE) \in held
           /\ Holding(p, RegistryLock, FALSE) \in held
           /\ LET old == registry[proc[p].cmd.name]
                  new == registry'[proc[p].cmd.name]
              IN  old # None /\ old.bound /\ new # None => new.topology = old.topology
<1> DEFINE c == proc[p].cmd
           value == CASE c.op \in {"save", "admit"} -> [topology |-> c.topology, bound |-> FALSE]
                      [] c.op = "login" -> [topology |-> proc[p].intent, bound |-> TRUE]
                      [] OTHER -> None
<1>1. /\ LocksHeld(p) /\ Decided(p) /\ proc[p].pc = "store"
      /\ c \in Commands /\ c.op \in {"save", "remove", "login", "logout", "admit", "drop"}
    BY Placed DEF StoreRegistry, Ops
<1>2. /\ c.op = "admit" => AdmitAllowed(c, proc[p].copy)
      /\ registry' = [proc[p].copy EXCEPT ![c.name] = value]
    BY DEF StoreRegistry
<1>3. proc[p].copy = registry /\ Holds(p, RegistryLock)
    BY <1>1 DEF LocksHeld
<1>4. c.name \in Names /\ LockNames(p) = {c.name}
    BY <1>1, Flags, NamesLocked
<1>5. Holds(p, ProfileLock(c.name))
    BY <1>1, <1>4 DEF LocksHeld
<1>6. value \in Profiles \cup {None}
    <2>1. c.op = "login" => proc[p].intent \in Topologies
        BY <1>1 DEF Decided
    <2>2. c.op \in {"save", "admit"} => c.topology \in Topologies
        BY <1>1, Flags
    <2> QED BY <1>1, <2>1, <2>2 DEF Profiles
<1>7. /\ registry' \in [Names -> Profiles \cup {None}] /\ registry'[c.name] = value
      /\ \A n \in Names : n # c.name => registry'[n] = registry[n]
    <2> HIDE DEF value
    <2> QED BY <1>2, <1>3, <1>4, <1>6 DEF DefaultsInv, TypeOK
<1>8. registry[c.name] # None /\ registry[c.name].bound /\ value # None =>
        value.topology = registry[c.name].topology
    <2> SUFFICES ASSUME registry[c.name] # None, registry[c.name].bound, value # None
                 PROVE  value.topology = registry[c.name].topology
        OBVIOUS
    <2>1. c.op # "save"
        BY <1>1 DEF Decided
    <2>2. c.op # "admit"
        BY <1>2, <1>3 DEF AdmitAllowed
    <2>3. c.op = "login"
        BY <1>1, <2>1, <2>2
    <2>4. value = [topology |-> proc[p].intent, bound |-> TRUE]
        BY <2>3
    <2>5. registry[c.name].topology = proc[p].intent
        BY <1>1, <2>3 DEF Decided
    <2> HIDE DEF value
    <2> QED BY <2>4, <2>5
<1>9. Holding(p, ProfileLock(c.name), FALSE) \in held /\ Holding(p, RegistryLock, FALSE) \in held
    BY <1>1, <1>3, <1>5, NotShared
<1> QED BY <1>4, <1>7, <1>8, <1>9

LEMMA StoreRegistryKeeps ==
    ASSUME DefaultsInv, NEW p \in Procs, StoreRegistry(p)
    PROVE  DefaultsInv'
<1> SUFFICES ASSUME ~Refuse(p) PROVE DefaultsInv'
    BY RefuseKeeps
<1>1. /\ proc' = [proc EXCEPT ![p] = Idle] /\ held' = held \ Mine(p)
      /\ UNCHANGED <<keychain, file, edits, begun>>
    BY DEF StoreRegistry, Finish
<1>2. StepOf(p, Idle)
    BY <1>1, Stored DEF StepOf
<1>3. registry' \in [Names -> Profiles \cup {None}]
    BY Stored
<1>4. Readable(file') => readDefaults(file') \in [Roles -> Slots \cup {None}]
    BY <1>1 DEF DefaultsInv, TypeOK
<1> QED BY <1>1, <1>2, <1>3, <1>4, IdleFields, Finished

ChosenAs(r, guard) == [r EXCEPT !.guard = guard, !.pc = "look"]

LEMMA ChosenFields ==
    ASSUME NEW r, IsProcess(r), NEW guard \in Slots
    PROVE  /\ IsProcess(ChosenAs(r, guard)) /\ ChosenAs(r, guard).pc = "look"
           /\ ChosenAs(r, guard).cmd = r.cmd /\ ChosenAs(r, guard).guard = guard
           /\ ChosenAs(r, guard).used = r.used
BY DEF IsProcess, ChosenAs

LEMMA ResolveKeeps ==
    ASSUME DefaultsInv, NEW p \in Procs, Resolve(p)
    PROVE  DefaultsInv'
<1> DEFINE c == proc[p].cmd
           slot == readDefaults(file)[c.role]
           r == ChosenAs(proc[p], slot)
<1> SUFFICES ASSUME ~Refuse(p) PROVE DefaultsInv'
    BY RefuseKeeps
<1>1. /\ IsProcess(proc[p]) /\ proc[p].pc = "resolve" /\ Mine(p) = {}
      /\ c \in Commands /\ c.op = "use" /\ proc[p].used = None
    BY Placed, Unlocked DEF Resolve, Ops
<1>2. /\ Readable(file) /\ slot # None /\ UNCHANGED <<registry, keychain, file, edits, begun, held>>
      /\ proc' = [proc EXCEPT ![p].guard = slot, ![p].pc = "look"]
    BY DEF Resolve
<1>3. slot \in Slots
    <2>1. c.role \in Roles
        BY <1>1, Flags
    <2> QED BY <1>2, <2>1 DEF DefaultsInv, TypeOK
<1>4. proc' = [proc EXCEPT ![p] = r]
    BY <1>2 DEF ChosenAs
<1>5. /\ IsProcess(r) /\ r.pc = "look" /\ r.cmd = c /\ r.used = None /\ r.guard = slot
    BY <1>1, <1>3, ChosenFields
<1> HIDE DEF r, slot
<1>6. proc'[p] = r
    BY <1>4 DEF DefaultsInv, TypeOK
<1>7. LocksHeld(p)' /\ Decided(p)'
    BY <1>1, <1>3, <1>5, <1>6 DEF LocksHeld, Decided, Ops
<1>8. keychain' \subseteq Names /\ begun' \in 0 .. MaxCommands
    BY <1>2 DEF DefaultsInv, TypeOK
<1> QED BY <1>1, <1>2, <1>4, <1>5, <1>7, <1>8, Moved

LEMMA LookKeeps ==
    ASSUME DefaultsInv, NEW p \in Procs, Look(p)
    PROVE  DefaultsInv'
<1> DEFINE c == proc[p].cmd
           guard == proc[p].guard
           r == GoneTo(proc[p], "lock")
<1> SUFFICES ASSUME ~Refuse(p) PROVE DefaultsInv'
    BY RefuseKeeps
<1>1. /\ IsProcess(proc[p]) /\ Decided(p) /\ proc[p].pc = "look" /\ Mine(p) = {}
      /\ c \in Commands /\ c.op = "use" /\ proc[p].used = None
    BY Placed, Unlocked DEF Look, Ops
<1>2. /\ SlotState(guard, c.role) = "valid" /\ UNCHANGED <<registry, keychain, file, edits, begun, held>>
      /\ proc' = [proc EXCEPT ![p] = r]
    BY DEF Look, Go, GoneTo
<1>3. guard \in Slots
    BY <1>1 DEF Decided
<1>4. \E t \in Topologies : guard.identity = <<guard.name, t>> /\ c.role \in Supports[t]
    <2>1. guard # None
        BY <1>3, DefaultsAssumption
    <2>2. registry[guard.name] # None
        BY <1>2, <2>1 DEF SlotState
    <2>3. registry[guard.name] \in Profiles
        BY <1>3, <2>2 DEF DefaultsInv, TypeOK, Slots
    <2>4. /\ guard.identity = <<guard.name, registry[guard.name].topology>>
          /\ c.role \in Supports[registry[guard.name].topology]
        BY <1>2, <2>1, <2>2 DEF SlotState, SelectionIdentity
    <2> QED BY <2>3, <2>4 DEF Profiles
<1>5. IsProcess(r) /\ r.pc = "lock" /\ r.cmd = c /\ r.used = None /\ r.guard = guard
    BY <1>1, GoneFields DEF Places
<1> HIDE DEF r
<1> QED BY <1>1, <1>2, <1>3, <1>4, <1>5, ToLocks DEF Ops

UsedAs(r, topology) == [r EXCEPT !.used = topology, !.pc = "idle"]

LEMMA UsedFields ==
    ASSUME NEW r, IsProcess(r), NEW topology \in Topologies
    PROVE  /\ IsProcess(UsedAs(r, topology)) /\ UsedAs(r, topology).pc = "idle"
           /\ UsedAs(r, topology).cmd = r.cmd /\ UsedAs(r, topology).guard = r.guard
           /\ UsedAs(r, topology).used = topology
BY DEF IsProcess, UsedAs

LEMMA CheckKeeps ==
    ASSUME DefaultsInv, NEW p \in Procs, Check(p)
    PROVE  DefaultsInv'
<1> DEFINE c == proc[p].cmd
           guard == proc[p].guard
           topology == registry[guard.name].topology
           r == UsedAs(proc[p], topology)
<1> SUFFICES ASSUME ~Refuse(p) PROVE DefaultsInv'
    BY RefuseKeeps
<1>1. /\ IsProcess(proc[p]) /\ Decided(p) /\ proc[p].pc = "check" /\ c \in Commands /\ c.op = "use"
    BY Placed DEF Check, Ops
<1>2. /\ checkSelectionGuard(guard) /\ UNCHANGED <<registry, keychain, file, edits, begun>>
      /\ held' = held \ Mine(p) /\ proc' = [proc EXCEPT ![p].used = topology, ![p].pc = "idle"]
    BY DEF Check
<1>3. guard \in Slots /\ \E t \in Topologies : guard.identity = <<guard.name, t>> /\ c.role \in Supports[t]
    BY <1>1 DEF Decided
<1>4. registry[guard.name] # None /\ guard.identity = <<guard.name, topology>>
    BY <1>2 DEF checkSelectionGuard, SelectionIdentity
<1>5. topology \in Topologies /\ c.role \in Supports[topology]
    BY <1>3, <1>4
<1>6. proc' = [proc EXCEPT ![p] = r]
    BY <1>2 DEF UsedAs
<1>7. IsProcess(r) /\ r.pc = "idle" /\ r.cmd = c /\ r.guard = guard /\ r.used = topology
    BY <1>1, <1>5, UsedFields
<1> HIDE DEF r, topology
<1>8. StepOf(p, r)
    BY <1>2, <1>6 DEF StepOf
<1>9. registry' \in [Names -> Profiles \cup {None}]
    BY <1>2 DEF DefaultsInv, TypeOK
<1>10. Readable(file') => readDefaults(file') \in [Roles -> Slots \cup {None}]
    BY <1>2 DEF DefaultsInv, TypeOK
<1> QED BY <1>2, <1>4, <1>5, <1>7, <1>8, <1>9, <1>10, Finished

(* The person writes while no process is at the document.                  *)
LEMMA EditKeeps ==
    ASSUME DefaultsInv, Edit
    PROVE  DefaultsInv'
<1>1. /\ Free(DefaultsLock, FALSE) /\ file' \in Documents /\ edits' = edits + 1 /\ edits < MaxEdits
      /\ UNCHANGED <<registry, keychain, begun, held, proc>>
    BY DEF Edit
<1>2. \A q \in Procs : LocksHeld(q)' /\ Decided(q)'
    <2> TAKE q \in Procs
    <2>1. ~Holds(q, DefaultsLock)
        BY <1>1, FreeHeld
    <2>2. Mine(q)' = Mine(q)
        BY <1>1 DEF Mine
    <2> QED BY <1>1, <2>1, <2>2, OthersKept
<1>3. Readable(file') => readDefaults(file') \in [Roles -> Slots \cup {None}]
    BY <1>1, DocumentsAssumption DEF Readable, readDefaults, EmptyDefaults
<1>4. edits' \in 0 .. MaxEdits
    BY <1>1, DefaultsAssumption DEF DefaultsInv, TypeOK
<1>5. TypeOK'
    BY <1>1, <1>3, <1>4 DEF DefaultsInv, TypeOK, Readable, readDefaults
<1>6. FencedUse' /\ LocksExclude'
    BY <1>1 DEF DefaultsInv, FencedUse, LocksExclude, Shares
<1> QED BY <1>2, <1>5, <1>6 DEF DefaultsInv

LEMMA InvInit == Init => DefaultsInv
<1> SUFFICES ASSUME Init PROVE DefaultsInv
    OBVIOUS
<1>1. \A p \in Procs : proc[p] = Idle
    BY DEF Init
<1>2. TypeOK
    <2>1. DOMAIN proc = Procs /\ \A p \in Procs : IsProcess(proc[p])
        BY <1>1, IdleFields DEF Init
    <2>2. registry \in [Names -> Profiles]
        BY DEF Init, Profiles
    <2>3. readDefaults(file) = EmptyDefaults
        BY DEF Init, readDefaults
    <2>4. EmptyDefaults \in [Roles -> Slots \cup {None}]
        BY DEF EmptyDefaults
    <2>5. keychain \subseteq Names /\ edits = 0 /\ begun = 0 /\ held = {}
        BY DEF Init
    <2> QED BY <2>1, <2>2, <2>3, <2>4, <2>5, DefaultsAssumption DEF TypeOK
<1>3. FencedUse /\ \A p \in Procs : LocksHeld(p) /\ Decided(p)
    BY <1>1, IdleFields DEF FencedUse, LocksHeld, Decided
<1>4. LocksExclude
    BY DEF Init, LocksExclude
<1> QED BY <1>2, <1>3, <1>4 DEF DefaultsInv

LEMMA InvStep == DefaultsInv /\ [Next]_vars => DefaultsInv'
<1> SUFFICES ASSUME DefaultsInv, [Next]_vars PROVE DefaultsInv'
    OBVIOUS
<1>1. ASSUME NEW p \in Procs, Step(p) PROVE DefaultsInv'
    BY <1>1, BeginKeeps, PreviewKeeps, TakeProfileLockKeeps, BindKeeps, LoadDefaultsKeeps,
       ReplaceDefaultsKeeps, ReadIntentKeeps, InspectKeeps, CopyRegistryKeeps, StoreRegistryKeeps,
       ResolveKeeps, LookKeeps, CheckKeeps DEF Step
<1>2. ASSUME NEW p \in Procs, TimeOut(p) \/ Break(p) PROVE DefaultsInv'
    BY <1>2, RefuseKeeps DEF TimeOut, Break
<1>3. CASE Edit
    BY <1>3, EditKeeps
<1>4. CASE UNCHANGED vars
    <2>1. \A q \in Procs : LocksHeld(q)' /\ Decided(q)'
        <3> TAKE q \in Procs
        <3>1. Mine(q)' = Mine(q)
            BY <1>4 DEF vars, Mine
        <3> QED BY <1>4, <3>1, OthersKept DEF vars
    <2>2. TypeOK'
        BY <1>4 DEF vars, DefaultsInv, TypeOK, Readable, readDefaults
    <2>3. FencedUse' /\ LocksExclude'
        BY <1>4 DEF vars, DefaultsInv, FencedUse, LocksExclude, Shares
    <2> QED BY <2>1, <2>2, <2>3 DEF DefaultsInv
<1> QED BY <1>1, <1>2, <1>3, <1>4 DEF Next

(* Locks exclude each other, what a command has under its locks is what    *)
(* the files still hold and what it decided is right when it acts; so an   *)
(* operation that selected its profile by a saved default works with the   *)
(* topology that was saved (withSelectionGuard, checkSelectionGuard).      *)
THEOREM DefaultsSafe == Spec => []DefaultsInv
<1> QED BY InvInit, InvStep, PTL DEF Spec

(* The same, of the use alone: whatever became of the profile between the  *)
(* selection and the lock.                                                 *)
THEOREM UseFenced == Spec => []FencedUse
<1>1. DefaultsInv => FencedUse
    BY DEF DefaultsInv
<1> QED BY <1>1, DefaultsSafe, PTL

-----------------------------------------------------------------------------
(* What a step does to the files.                                          *)

(* Only a replacement writes the document, only a store the registry.      *)
LEMMA QuietSteps ==
    ASSUME Next
    PROVE  \/ UNCHANGED <<registry, file, edits>> /\ \A p \in Procs : ~ReplaceDefaults(p)
           \/ (\E p \in Procs : ReplaceDefaults(p)) /\ UNCHANGED <<registry, edits>>
           \/ (\E p \in Procs : StoreRegistry(p) /\ ~Refuse(p)) /\ UNCHANGED <<file, edits>>
           \/ Edit /\ UNCHANGED <<registry, proc>>
<1> SUFFICES ASSUME ~UNCHANGED <<registry, file, edits>>
             PROVE  \/ (\E p \in Procs : ReplaceDefaults(p)) /\ UNCHANGED <<registry, edits>>
                    \/ (\E p \in Procs : StoreRegistry(p) /\ ~Refuse(p)) /\ UNCHANGED <<file, edits>>
                    \/ Edit /\ UNCHANGED <<registry, proc>>
    OBVIOUS
<1>1. \A p : ~Refuse(p)
    BY DEF Refuse
<1>2. CASE Edit
    BY <1>2 DEF Edit
<1>3. ASSUME NEW p \in Procs, TimeOut(p) \/ Break(p) PROVE FALSE
    BY <1>1, <1>3 DEF TimeOut, Break
<1>4. ASSUME NEW p \in Procs, Step(p) PROVE ReplaceDefaults(p) \/ StoreRegistry(p)
    BY <1>1, <1>4 DEF Step, Begin, PreviewSet, PreviewReadonly, PreviewClear, Previewed, TakeProfileLock,
       Bind, LoadDefaults, ReadIntent, Inspect, CopyRegistry, Resolve, Look, Check
<1>5. ASSUME NEW p \in Procs, ReplaceDefaults(p) PROVE UNCHANGED <<registry, edits>>
    BY <1>5 DEF ReplaceDefaults
<1>6. ASSUME NEW p \in Procs, StoreRegistry(p) PROVE UNCHANGED <<file, edits>>
    BY <1>1, <1>6 DEF StoreRegistry
<1> QED BY <1>1, <1>2, <1>3, <1>4, <1>5, <1>6 DEF Next

(* The person's edits are counted.                                         *)
LEMMA EditCounted == DefaultsInv /\ Edit => edits' # edits
<1> SUFFICES ASSUME DefaultsInv, Edit PROVE edits' # edits
    OBVIOUS
<1>1. edits \in 0 .. MaxEdits /\ edits' = edits + 1
    BY DEF DefaultsInv, TypeOK, Edit
<1> QED BY <1>1, DefaultsAssumption

LEMMA BoundStep == DefaultsInv /\ Next => BoundWhenSaved
<1> SUFFICES ASSUME DefaultsInv, Next, NEW r \in Roles, edits' = edits,
                    readDefaults(file')[r] # None, readDefaults(file')[r] # readDefaults(file)[r]
             PROVE  SlotState(readDefaults(file')[r], r) = "valid"
    BY DEF BoundWhenSaved
<1>1. file' # file /\ ~Edit
    BY EditCounted
<1>2. PICK p \in Procs : ReplaceDefaults(p)
    BY <1>1, QuietSteps
<1> QED BY <1>2, Replaced

LEMMA OtherStep == DefaultsInv /\ Next => OtherSlotKept
<1> SUFFICES ASSUME DefaultsInv, Next, NEW p \in Procs, NEW r \in Roles,
                    proc[p].pc = "replace", proc'[p].pc = "idle",
                    readDefaults(file')[r] # readDefaults(file)[r]
             PROVE  IF proc[p].cmd.op = "clear" THEN r \in proc[p].cmd.roles ELSE r \in Named(proc[p].cmd)
    BY DEF OtherSlotKept
<1>1. file' # file /\ proc' # proc
    OBVIOUS
<1>2. PICK q \in Procs : ReplaceDefaults(q)
    BY <1>1, QuietSteps
<1>3. q = p
    BY <1>2 DEF ReplaceDefaults, Finish, DefaultsInv, TypeOK
<1> QED BY <1>2, <1>3, Replaced

LEMMA UnreadableStep == DefaultsInv /\ Next => UnreadableKept
<1> SUFFICES ASSUME DefaultsInv, Next, ~Readable(file), file' # file, edits' = edits
             PROVE  FALSE
    BY DEF UnreadableKept
<1>1. ~Edit
    BY EditCounted
<1>2. PICK p \in Procs : ReplaceDefaults(p)
    BY <1>1, QuietSteps
<1> QED BY <1>2, Replaced

(* Whatever happens to the registry: the slot's identity is of the name    *)
(* and the topology, and of nothing that a login changes.                  *)
LEMMA ReloginStep == ReloginKeepsDefault
<1> SUFFICES ASSUME NEW r \in Roles, readDefaults(file)[r] # None, file' = file,
                    registry[readDefaults(file)[r].name] # None,
                    registry'[readDefaults(file)[r].name] # None,
                    SlotState(readDefaults(file)[r], r) = "valid"
             PROVE  SlotState(readDefaults(file)[r], r)' = "valid"
                    <=> registry'[readDefaults(file)[r].name].topology = registry[readDefaults(file)[r].name].topology
    BY DEF ReloginKeepsDefault
<1> DEFINE slot == readDefaults(file)[r]
<1>1. slot' = slot
    BY DEF readDefaults
<1>2. /\ slot.identity = <<slot.name, registry[slot.name].topology>>
      /\ r \in Supports[registry[slot.name].topology]
    BY DEF SlotState, SelectionIdentity
<1>3. SlotState(slot, r)' = "valid" <=>
        /\ slot.identity = <<slot.name, registry'[slot.name].topology>>
        /\ r \in Supports[registry'[slot.name].topology]
    <2> HIDE DEF slot
    <2> QED BY <1>1 DEF SlotState, SelectionIdentity, slot
<1> QED BY <1>2, <1>3

LEMMA UnderLockStep == DefaultsInv /\ Next => ProfileUnderItsLock
<1> SUFFICES ASSUME DefaultsInv, Next, NEW n \in Names, registry'[n] # registry[n]
             PROVE  \E p \in Procs : Holding(p, ProfileLock(n), FALSE) \in held /\ proc'[p] # proc[p]
    BY DEF ProfileUnderItsLock
<1>1. PICK p \in Procs : StoreRegistry(p) /\ ~Refuse(p)
    BY QuietSteps
<1>2. Holding(p, ProfileLock(n), FALSE) \in held
    BY <1>1, Stored
<1>3. proc[p].pc = "store" /\ proc'[p] = Idle
    BY <1>1 DEF StoreRegistry, Finish, DefaultsInv, TypeOK
<1> QED BY <1>2, <1>3, IdleFields

LEMMA BoundTopologyStep == DefaultsInv /\ Next => BoundTopologyKept
<1> SUFFICES ASSUME DefaultsInv, Next, NEW n \in Names,
                    registry[n] # None, registry[n].bound, registry'[n] # None
             PROVE  registry'[n].topology = registry[n].topology
    BY DEF BoundTopologyKept
<1>1. CASE registry'[n] = registry[n]
    BY <1>1
<1>2. CASE registry'[n] # registry[n]
    <2>1. PICK p \in Procs : StoreRegistry(p) /\ ~Refuse(p)
        BY <1>2, QuietSteps
    <2> QED BY <1>2, <2>1, Stored
<1> QED BY <1>1, <1>2

(* No step does harm to the defaults or to the profiles they name: a       *)
(* default is valid when a command saves it, set and clear leave the other *)
(* slot and a document they cannot read, a login keeps a default and a     *)
(* change of the configuration does not, and a profile changes under its   *)
(* lock and keeps its topology while it is bound (defaults.go, registry.go,*)
(* lock.go).                                                               *)
THEOREM DefaultsSafeSteps == Spec => DefaultsKept
<1>1. DefaultsInv /\ [Next]_vars =>
        [ /\ BoundWhenSaved /\ OtherSlotKept /\ UnreadableKept /\ ReloginKeepsDefault
          /\ ProfileUnderItsLock /\ BoundTopologyKept ]_vars
    BY BoundStep, OtherStep, UnreadableStep, ReloginStep, UnderLockStep, BoundTopologyStep
<1> QED BY <1>1, DefaultsSafe, PTL DEF Spec, DefaultsKept

=============================================================================
