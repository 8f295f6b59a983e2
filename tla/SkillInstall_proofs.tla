------------------------ MODULE SkillInstall_proofs ------------------------
(***************************************************************************)
(* The skill installer's safety, for every number of callers, files and    *)
(* releases, and whatever the person does to the directory meanwhile.      *)
(***************************************************************************)
EXTENDS SkillInstall, TLAPS

-----------------------------------------------------------------------------
(* What a name may hold.                                                   *)

LEMMA ShippedNotUser ==
    \A v \in Versions, f \in Files : Shipped(v, f) \notin UserContents /\ Shipped(v, f) # Absent
  BY FilesAssumption, AbsentAssumption DEF Shipped, UserContents

LEMMA ManifestNotUser == \A m \in Manifests : m \notin UserContents
  <1> SUFFICES ASSUME NEW m \in Manifests, m \in UserContents PROVE FALSE
    OBVIOUS
  <1>1. DOMAIN m = {"complete", "files"}
    BY DEF Manifests, Manifest
  <1>2. DOMAIN m = {"by", "of"}
    BY DEF UserContents
  <1> QED
    BY <1>1, <1>2

LEMMA ShippedFiles == \A v \in Versions : Ships[v] \subseteq Files /\ manifestName \notin Ships[v]
  BY FilesAssumption DEF manifestName

LEMMA FileNames == \A f \in Files : f \in Names /\ f # manifestName
  BY FilesAssumption DEF Names, manifestName

LEMMA ManifestShape ==
    ASSUME NEW v \in Versions, NEW b \in BOOLEAN
    PROVE  /\ Manifest(v, b) \in Manifests /\ Manifest(v, b) # Absent
           /\ Manifest(v, b).complete = b
           /\ DOMAIN Manifest(v, b).files = Ships[v]
           /\ \A f \in Ships[v] : Manifest(v, b).files[f] = Shipped(v, f)
  BY AbsentAssumption DEF Manifests, Manifest, Payload

LEMMA ManifestFiles ==
    ASSUME NEW m \in Manifests
    PROVE  \E v \in Versions : m.files = Payload(v) /\ DOMAIN m.files = Ships[v]
  BY DEF Manifests, Manifest, Payload

(* A manifest's hashes are never those of what the person wrote.           *)
LEMMA HashesKnown ==
    ASSUME NEW m \in Manifests \cup {Absent}
    PROVE  /\ DOMAIN Hashes(m) \subseteq Files
           /\ \A f \in DOMAIN Hashes(m) :
                  Hashes(m)[f] # Absent /\ Hashes(m)[f] \notin UserContents /\ Hashes(m)[f] \in Everything
  <1>1. CASE m = Absent
    BY <1>1 DEF Hashes
  <1>2. CASE m # Absent
    <2>1. PICK v \in Versions : Hashes(m) = Payload(v)
      BY <1>2, ManifestFiles DEF Hashes
    <2>2. DOMAIN Hashes(m) = Ships[v] /\ \A f \in Ships[v] : Hashes(m)[f] = Shipped(v, f)
      BY <2>1 DEF Payload
    <2>3. \A f \in Ships[v] : Shipped(v, f) \in Contents(f) /\ f \in Names
      BY ShippedFiles, FileNames DEF Contents
    <2> QED
      BY <2>2, <2>3, ShippedNotUser, ShippedFiles DEF Everything
  <1> QED
    BY <1>1, <1>2

-----------------------------------------------------------------------------
(* The invariant, seen from one call.                                      *)

Lone(c) == CallOK(c) /\ CallLegal(c) /\ WriteLegal(c) /\ FilesInPlace(c) /\ ManifestOpen(c)

World ==
    /\ DOMAIN entries = Names /\ \A name \in Names : entries[name] \in Contents(name)
    /\ aside \subseteq UserContents /\ owed \subseteq UserContents
    /\ edits \in 0 .. MaxEdits /\ touched \in BOOLEAN
    /\ lock \in Callers \cup {None}
    /\ pc \in [Callers -> {"idle", "preflighted", "manifest", "file", "create", "detach", "judge", "discard"}]
    /\ DOMAIN held = Callers
    /\ answer \in [Callers -> {"idle", "unmanaged", "refused", "failed", "ok", "killed"}]

(* The invariant but for the range of the record of strays.                *)
Sound == World /\ UserBytesKept /\ NoMixture /\ \A c \in Callers : Lone(c)

LEMMA Parts == Sound <=> World /\ UserBytesKept /\ NoMixture /\ \A c \in Callers : Lone(c)
  BY DEF Sound

LEMMA PartsAfter ==
    ASSUME World', UserBytesKept', NoMixture', \A c \in Callers : Lone(c)'
    PROVE  Sound'
  BY DEF Sound

LEMMA Whole == SkillInv <=> Sound /\ strays \subseteq Files
  BY DEF SkillInv, Sound, TypeOK, World, Lone

(* What a step of one call leaves to the others: the lock is not taken     *)
(* from its holder, who alone exchanges files.                             *)
Frame(c) ==
    /\ \A d \in Callers \ {c} : held'[d] = held[d] /\ pc'[d] = pc[d]
    /\ lock' = lock \/ (lock \in {None, c} /\ lock' \in {None, c})
    /\ entries' = entries \/ lock = c
    /\ touched' = touched \/ lock = None

LEMMA OthersKept ==
    ASSUME Sound, NEW c \in Callers, Frame(c), NEW d \in Callers \ {c}
    PROVE  Lone(d)'
  <1>1. Lone(d) /\ d # None
    BY Parts, FilesAssumption
  <1>2. held'[d] = held[d] /\ pc'[d] = pc[d] /\ (lock' = d <=> lock = d)
    BY <1>1 DEF Frame
  <1>3. CASE lock = d
    <2>1. entries' = entries /\ touched' = touched
      BY <1>1, <1>3 DEF Frame
    <2>2. CallOK(d)' /\ CallLegal(d)'
      BY <1>1, <1>2 DEF Lone, CallOK, CallLegal, Want
    <2>3. WriteLegal(d)'
      BY <1>1, <1>2 DEF Lone, WriteLegal, Want
    <2>4. FilesInPlace(d)'
      BY <1>1, <1>2, <2>1 DEF Lone, FilesInPlace, Settled, InHand
    <2>5. ManifestOpen(d)'
      BY <1>1, <1>2, <2>1 DEF Lone, ManifestOpen, Truthful, InHand
    <2> QED
      BY <2>2, <2>3, <2>4, <2>5 DEF Lone
  <1>4. CASE lock # d
    <2>1. pc[d] \in {"idle", "preflighted"}
      BY <1>1, <1>4 DEF Lone, CallOK
    <2>2. CallOK(d)' /\ CallLegal(d)'
      BY <1>1, <1>2 DEF Lone, CallOK, CallLegal, Want
    <2>3. WriteLegal(d)' /\ FilesInPlace(d)' /\ ManifestOpen(d)'
      BY <1>2, <1>4, <2>1 DEF WriteLegal, FilesInPlace, ManifestOpen
    <2> QED
      BY <2>2, <2>3 DEF Lone
  <1> QED
    BY <1>3, <1>4

LEMMA LoneStep ==
    ASSUME Sound, NEW c \in Callers, Frame(c), World', UserBytesKept', NoMixture', Lone(c)'
    PROVE  Sound'
  <1>1. \A d \in Callers : Lone(d)'
    BY OthersKept
  <1> QED
    BY <1>1, PartsAfter

(* A call that holds nothing.                                              *)
LEMMA Nothing ==
    /\ IsCall(NoCall) /\ NoCall.op = "none" /\ NoCall.plan = [f \in {} |-> Absent]
    /\ NoCall.detached = Absent /\ NoCall.todo = {} /\ NoCall.done = FALSE
  <1>1. Absent \in Everything /\ manifestName \in Names
    BY DEF Everything, Contents, Names
  <1>2. NoCall.recorded \in {Hashes(m) : m \in Manifests \cup {Absent}}
    BY DEF NoCall, Hashes
  <1>3. NoCall.plan \in [{} -> Entries] /\ DOMAIN NoCall.plan = {}
    BY DEF NoCall
  <1> QED
    BY <1>1, <1>2, <1>3 DEF IsCall, NoCall

LEMMA AtRest ==
    ASSUME NEW c \in Callers, pc'[c] = "idle", lock' # c, held'[c] = NoCall
    PROVE  Lone(c)'
  BY Nothing DEF Lone, CallOK, CallLegal, WriteLegal, FilesInPlace, ManifestOpen

-----------------------------------------------------------------------------
(* Steps that exchange no file.                                            *)

LEMMA BytesSame ==
    ASSUME Sound, NEW c \in Callers, Frame(c), entries' = entries, owed' = owed,
           aside \subseteq aside',
           held[c].detached \in UserContents => held[c].detached \in aside'
    PROVE  UserBytesKept' /\ NoMixture'
  <1>1. UserBytesKept /\ NoMixture /\ owed \subseteq UserContents
    BY Parts DEF World
  <1>2. NoMixture'
    BY <1>1 DEF NoMixture, Truthful
  <1>3. UserBytesKept'
    <2> SUFFICES ASSUME NEW u \in owed
                 PROVE  (u \in aside \/ (\E f \in Files : entries[f] = u) \/ \E d \in Callers : held[d].detached = u)'
      BY DEF UserBytesKept
    <2>1. u \in aside \/ (\E f \in Files : entries[f] = u) \/ \E d \in Callers : held[d].detached = u
      BY <1>1 DEF UserBytesKept
    <2>2. CASE \E d \in Callers : held[d].detached = u
      BY <2>2, <1>1 DEF Frame
    <2> QED
      BY <2>1, <2>2
  <1> QED
    BY <1>2, <1>3

Statuses == {"idle", "unmanaged", "refused", "failed", "ok", "killed"}

LEMMA Returns ==
    ASSUME Sound, NEW c \in Callers, NEW status \in Statuses, Return(c, status),
           entries' = entries \/ lock = c, touched' = touched \/ lock = None,
           DOMAIN entries' = Names, \A name \in Names : entries'[name] \in Contents(name),
           aside' \subseteq UserContents, owed' \subseteq UserContents, touched' \in BOOLEAN
    PROVE  Frame(c) /\ World' /\ Lone(c)' /\ held'[c] = NoCall
  <1>1. World /\ c # None
    BY Parts, FilesAssumption
  <1>2. /\ pc' = [pc EXCEPT ![c] = "idle"] /\ held' = [held EXCEPT ![c] = NoCall]
        /\ lock' = IF lock = c THEN None ELSE lock
        /\ answer' = [answer EXCEPT ![c] = status] /\ edits' = edits
    BY DEF Return, Keep
  <1>3. /\ pc'[c] = "idle" /\ held'[c] = NoCall /\ lock' # c
        /\ \A d \in Callers \ {c} : held'[d] = held[d] /\ pc'[d] = pc[d]
    BY <1>1, <1>2 DEF World
  <1>4. World'
    BY <1>1, <1>2 DEF World, Statuses
  <1>5. Frame(c)
    BY <1>2, <1>3 DEF Frame
  <1> QED
    BY <1>3, <1>4, <1>5, AtRest

LEMMA WorldFacts ==
    ASSUME Sound
    PROVE  /\ DOMAIN entries = Names /\ \A name \in Names : entries[name] \in Contents(name)
           /\ aside \subseteq UserContents /\ owed \subseteq UserContents /\ touched \in BOOLEAN
  BY Parts DEF World

LEMMA FailStep ==
    ASSUME Sound, NEW c \in Callers, NEW status \in Statuses, Fail(c, status)
    PROVE  Sound'
  <1>1. /\ Return(c, status) /\ UNCHANGED <<entries, owed, touched>>
        /\ aside' = aside \cup ({held[c].detached} \cap UserContents)
    BY DEF Fail, history, LeftAside
  <1>2. Frame(c) /\ World' /\ Lone(c)'
    BY <1>1, WorldFacts, Returns
  <1>3. UserBytesKept' /\ NoMixture'
    BY <1>1, <1>2, BytesSame
  <1> QED
    BY <1>2, <1>3, LoneStep

(* A step that only thinks: the call's place and memory change.            *)
LEMMA Thinks ==
    ASSUME Sound, NEW c \in Callers, NEW step, NEW memory,
           Keep(c, memory), pc' = [pc EXCEPT ![c] = step],
           step \in {"idle", "preflighted", "manifest", "file", "create", "detach", "judge", "discard"},
           lock' = lock \/ (lock \in {None, c} /\ lock' \in {None, c}),
           answer' \in [Callers -> Statuses], UNCHANGED <<files, edits, owed>>,
           touched' = touched \/ (lock = None /\ touched' = FALSE),
           pc[c] \notin {"judge", "discard"}
    PROVE  /\ Frame(c) /\ World' /\ UserBytesKept' /\ NoMixture'
           /\ pc'[c] = step /\ held'[c] = memory
  <1>1. World /\ CallOK(c)
    BY Parts DEF Lone
  <1>2. /\ pc'[c] = step /\ held'[c] = memory
        /\ \A d \in Callers \ {c} : held'[d] = held[d] /\ pc'[d] = pc[d]
    BY <1>1 DEF World, Keep
  <1>3. Frame(c)
    BY <1>2 DEF Frame, files
  <1>4. World'
    <2>1. entries' = entries /\ aside' = aside /\ owed' = owed /\ edits' = edits
      BY DEF files
    <2>2. pc' \in [Callers -> {"idle", "preflighted", "manifest", "file", "create", "detach", "judge", "discard"}]
      BY <1>1 DEF World
    <2>3. DOMAIN held' = Callers
      BY <1>1 DEF World, Keep
    <2>4. lock' \in Callers \cup {None} /\ touched' \in BOOLEAN
      BY <1>1 DEF World
    <2> QED
      BY <1>1, <2>1, <2>2, <2>3, <2>4 DEF World, Statuses
  <1>5. held[c].detached \notin UserContents
    BY <1>1, AbsentAssumption DEF CallOK
  <1>6. UserBytesKept' /\ NoMixture'
    BY <1>3, <1>5, BytesSame DEF files
  <1> QED
    BY <1>2, <1>3, <1>4, <1>6

(* What a call remembers, field by field.                                  *)
LEMMA CallFields ==
    ASSUME NEW r, IsCall(r)
    PROVE  /\ r.op \in {"none", "install", "uninstall"} /\ r.version \in Versions \cup {None}
           /\ r.confirmed \in BOOLEAN /\ r.done \in BOOLEAN
           /\ DOMAIN r.plan \subseteq Files /\ r.todo \subseteq Files /\ r.target \in Names
           /\ r.recorded \in {Hashes(m) : m \in Manifests \cup {Absent}}
           /\ {r.data, r.expected, r.detached} \subseteq Everything
           /\ \A f \in DOMAIN r.plan : r.plan[f] \in Entries
  BY DEF IsCall

Begun(op, v, confirmed) == [NoCall EXCEPT !.op = op, !.version = v, !.confirmed = confirmed]
Planned(r, plan, m) == [r EXCEPT !.plan = plan, !.todo = DOMAIN plan, !.recorded = Hashes(m)]
Noted(r, m) == [r EXCEPT !.recorded = IF r.done THEN @ ELSE Hashes(m)]
Rested(r, f) == [r EXCEPT !.todo = @ \ {f}]
Ended(r) == [r EXCEPT !.done = TRUE]
Aimed(r, target, data, expected) ==
    [r EXCEPT !.target = target, !.data = data, !.expected = expected, !.detached = Absent]
Holding(r, value) == [r EXCEPT !.detached = value]

(* The fields that only the start and the plan of a call set.              *)
SameCall(n, r) ==
    /\ n.op = r.op /\ n.version = r.version /\ n.confirmed = r.confirmed

SameAim(n, r) ==
    n.target = r.target /\ n.data = r.data /\ n.expected = r.expected

LEMMA BeginMemory ==
    ASSUME NEW op \in {"install", "uninstall"}, NEW v \in Versions \cup {None}, NEW confirmed, confirmed \in BOOLEAN
    PROVE  LET n == Begun(op, v, confirmed)
           IN  /\ IsCall(n) /\ n.op = op /\ n.version = v
               /\ ~n.done /\ n.todo = {} /\ n.detached = Absent
  BY Nothing DEF IsCall, Begun

LEMMA PlanMemory ==
    ASSUME NEW r, IsCall(r), NEW m \in Manifests \cup {Absent}, NEW plan,
           DOMAIN plan \subseteq Files, plan \in [DOMAIN plan -> Entries]
    PROVE  LET n == Planned(r, plan, m)
           IN  /\ IsCall(n) /\ SameCall(n, r) /\ n.plan = plan /\ n.todo = DOMAIN plan
               /\ n.done = r.done /\ n.detached = r.detached
  BY DEF IsCall, SameCall, Planned

LEMMA NoteMemory ==
    ASSUME NEW r, IsCall(r), NEW m \in Manifests \cup {Absent}
    PROVE  LET n == Noted(r, m)
           IN  /\ IsCall(n) /\ SameCall(n, r) /\ n.plan = r.plan /\ n.todo = r.todo
               /\ n.done = r.done /\ n.detached = r.detached
  BY DEF IsCall, SameCall, Noted

LEMMA RestMemory ==
    ASSUME NEW r, IsCall(r), NEW f
    PROVE  LET n == Rested(r, f)
           IN  /\ IsCall(n) /\ SameCall(n, r) /\ n.plan = r.plan /\ n.todo = r.todo \ {f}
               /\ n.done = r.done /\ n.detached = r.detached
  BY DEF IsCall, SameCall, Rested

LEMMA EndMemory ==
    ASSUME NEW r, IsCall(r)
    PROVE  LET n == Ended(r)
           IN  /\ IsCall(n) /\ SameCall(n, r) /\ n.plan = r.plan /\ n.todo = r.todo
               /\ n.done /\ n.detached = r.detached
  BY DEF IsCall, SameCall, Ended

LEMMA AimMemory ==
    ASSUME NEW r, IsCall(r), NEW target \in Names, NEW data \in Everything, NEW expected \in Everything
    PROVE  LET n == Aimed(r, target, data, expected)
           IN  /\ IsCall(n) /\ SameCall(n, r) /\ n.plan = r.plan /\ n.todo = r.todo
               /\ n.done = r.done /\ n.detached = Absent
               /\ n.target = target /\ n.data = data /\ n.expected = expected
  BY DEF IsCall, SameCall, Aimed, Everything, Contents, Names

LEMMA HoldMemory ==
    ASSUME NEW r, IsCall(r), NEW value \in Everything
    PROVE  LET n == Holding(r, value)
           IN  /\ IsCall(n) /\ SameCall(n, r) /\ n.plan = r.plan /\ n.todo = r.todo
               /\ n.done = r.done /\ n.detached = value /\ SameAim(n, r)
  BY DEF IsCall, SameCall, SameAim, Holding

-----------------------------------------------------------------------------
(* The plan of a call.                                                     *)

LEMMA WantFiles ==
    ASSUME NEW call, call.op = "install" => call.version \in Versions
    PROVE  /\ DOMAIN Want(call) = IF call.op = "install" THEN Ships[call.version] ELSE {}
           /\ DOMAIN Want(call) \subseteq Files
           /\ \A f \in DOMAIN Want(call) :
                  /\ Want(call)[f] = Shipped(call.version, f) /\ Want(call)[f] # Absent
                  /\ Want(call)[f] \in Contents(f) /\ Want(call)[f] \in Everything
  <1>1. CASE call.op = "install"
    <2>1. DOMAIN Want(call) = Ships[call.version] /\ \A f \in Ships[call.version] : Want(call)[f] = Shipped(call.version, f)
      BY <1>1 DEF Want, Payload
    <2>2. \A f \in Ships[call.version] : f \in Files /\ Shipped(call.version, f) \in Contents(f)
      BY <1>1, ShippedFiles, FileNames DEF Contents
    <2> QED
      BY <1>1, <2>1, <2>2, ShippedNotUser, FileNames DEF Everything
  <1>2. CASE call.op # "install"
    BY <1>2 DEF Want
  <1> QED
    BY <1>1, <1>2

LEMMA PlanFacts ==
    ASSUME Sound, NEW want, DOMAIN want \subseteq Files, NEW plan, plan = Classified(want)
    PROVE  /\ entries[manifestName] \in Manifests \cup {Absent}
           /\ DOMAIN plan \subseteq Files /\ DOMAIN want \subseteq DOMAIN plan
           /\ plan \in [DOMAIN plan -> Entries]
           /\ \A f \in DOMAIN plan :
                 /\ plan[f].observed = entries[f]
                 /\ plan[f].status = "orphan" => f \notin DOMAIN want
                 /\ plan[f].status = "current" => f \in DOMAIN want /\ entries[f] = want[f]
                 /\ entries[f] \in UserContents => plan[f].status \in {"foreign", "modified"}
  <1>1. entries[manifestName] \in Manifests \cup {Absent}
    BY WorldFacts DEF Contents, Names
  <1> DEFINE recorded == Hashes(entries[manifestName])
  <1>2. /\ DOMAIN recorded \subseteq Files
        /\ \A f \in DOMAIN recorded : recorded[f] \notin UserContents
    BY <1>1, HashesKnown
  <1>3. DOMAIN plan = DOMAIN want \cup {g \in DOMAIN recorded : entries[g] # Absent}
    BY DEF Classified
  <1>4. \A f \in DOMAIN plan : plan[f] = [status |-> StatusOf(recorded, want, f), observed |-> entries[f]]
    BY DEF Classified
  <1>5. ASSUME NEW f \in Files
        PROVE  /\ StatusOf(recorded, want, f) \in {"absent", "foreign", "modified", "orphan", "stale", "current"}
               /\ StatusOf(recorded, want, f) = "orphan" => f \notin DOMAIN want
               /\ StatusOf(recorded, want, f) = "current" => f \in DOMAIN want /\ entries[f] = want[f]
               /\ entries[f] \in UserContents => StatusOf(recorded, want, f) \in {"foreign", "modified"}
    <2> HIDE DEF recorded
    <2> QED
      BY <1>2, AbsentAssumption DEF StatusOf
  <1>6. \A f \in Files : entries[f] \in Everything
    BY WorldFacts, FileNames DEF Everything
  <1>7. DOMAIN plan \subseteq Files
    BY <1>2, <1>3
  <1> HIDE DEF recorded
  <1>8. \A f \in DOMAIN plan :
            /\ plan[f] \in Entries /\ plan[f].observed = entries[f]
            /\ plan[f].status = StatusOf(recorded, want, f)
    BY <1>4, <1>5, <1>6, <1>7 DEF Entries
  <1>9. plan \in [DOMAIN plan -> Entries]
    BY <1>8 DEF Classified
  <1> QED
    BY <1>1, <1>3, <1>5, <1>7, <1>8, <1>9

LEMMA BeginStep ==
    ASSUME Sound, NEW c \in Callers, NEW op, NEW v, NEW confirmed, confirmed \in BOOLEAN, Begin(c, op, v, confirmed),
           (op = "install" /\ v \in Versions) \/ (op = "uninstall" /\ v = None)
    PROVE  Sound'
  <1> DEFINE call == Begun(op, v, confirmed)
  <1>1. /\ pc[c] = "idle" /\ Keep(c, call) /\ pc' = [pc EXCEPT ![c] = "preflighted"]
        /\ answer' = [answer EXCEPT ![c] = "idle"] /\ UNCHANGED <<files, lock, edits, history>>
    BY DEF Begin, Begun
  <1>2. /\ IsCall(call) /\ call.op = op /\ call.version = v /\ call.detached = Absent /\ ~call.done
    <2>1. op \in {"install", "uninstall"} /\ v \in Versions \cup {None}
      OBVIOUS
    <2> QED
      BY <2>1, BeginMemory
  <1> HIDE DEF call
  <1>3. Lone(c) /\ World /\ lock # c
    BY <1>1, Parts DEF Lone, CallOK
  <1>4. answer' \in [Callers -> Statuses]
    BY <1>1, <1>3 DEF World, Statuses
  <1>5. /\ Frame(c) /\ World' /\ UserBytesKept' /\ NoMixture'
        /\ pc'[c] = "preflighted" /\ held'[c] = call
    BY <1>1, <1>4, Thinks DEF history
  <1>6. Lone(c)'
    BY <1>1, <1>2, <1>3, <1>5 DEF Lone, CallOK, CallLegal, WriteLegal, FilesInPlace, ManifestOpen
  <1> QED
    BY <1>5, <1>6, LoneStep

LEMMA PreflightRefusedStep ==
    ASSUME Sound, NEW c \in Callers, NEW v, PreflightRefused(c, v)
    PROVE  Sound'
  <1>1. answer' = [answer EXCEPT ![c] = "unmanaged"] /\ UNCHANGED <<files, lock, pc, held, edits, history>> /\ pc[c] = "idle"
    BY DEF PreflightRefused
  <1>2. Lone(c) /\ World
    BY Parts
  <1>3. Frame(c)
    BY <1>1 DEF Frame, files, history
  <1>4. World'
    BY <1>1, <1>2 DEF World, files, history
  <1>5. UserBytesKept' /\ NoMixture'
    BY <1>1, Parts DEF UserBytesKept, NoMixture, Truthful, files, history
  <1>6. lock # c
    BY <1>1, <1>2 DEF Lone, CallOK
  <1>7. Lone(c)'
    BY <1>1, <1>2, <1>6 DEF Lone, CallOK, CallLegal, WriteLegal, FilesInPlace, ManifestOpen, files, history
  <1> QED
    BY <1>3, <1>4, <1>5, <1>7, LoneStep

LEMMA ClassifyStep == ASSUME Sound, NEW c \in Callers, Classify(c) PROVE Sound'
  <1> DEFINE call == held[c]
             plan == Classified(Want(call))
             memory == Planned(call, plan, entries[manifestName])
             step == IF call.op = "install" THEN "manifest" ELSE "file"
  <1>1. pc[c] = "preflighted" /\ lock = None /\ touched' = FALSE /\ UNCHANGED <<entries, aside, owed>>
    BY DEF Classify, files
  <1>2. World /\ Lone(c)
    BY Parts
  <1>3. CASE call.op = "install" /\ refuseUnmanaged(plan, call.confirmed)
    <2>1. Return(c, "unmanaged")
      BY <1>3 DEF Classify
    <2>2. Frame(c) /\ World' /\ Lone(c)'
      BY <1>1, <2>1, WorldFacts, Returns DEF Statuses
    <2>3. held[c].detached \notin UserContents
      BY <1>1, <1>2, AbsentAssumption DEF Lone, CallOK
    <2>4. UserBytesKept' /\ NoMixture'
      BY <1>1, <2>2, <2>3, BytesSame
    <2> QED
      BY <2>2, <2>4, LoneStep
  <1>4. CASE ~(call.op = "install" /\ refuseUnmanaged(plan, call.confirmed))
    <2>1. /\ lock' = c /\ pc' = [pc EXCEPT ![c] = step] /\ Keep(c, memory)
          /\ UNCHANGED <<answer, edits>>
      BY <1>4 DEF Classify, Planned
    <2>2. /\ (call.op = "install" /\ call.version \in Versions) \/ call.op = "uninstall"
          /\ IsCall(call) /\ call.detached = Absent /\ ~call.done
      BY <1>1, <1>2, FilesAssumption DEF Lone, CallLegal, CallOK
    <2>3. /\ DOMAIN Want(call) = IF call.op = "install" THEN Ships[call.version] ELSE {}
          /\ DOMAIN Want(call) \subseteq Files
          /\ \A f \in DOMAIN Want(call) : Want(call)[f] = Shipped(call.version, f)
      BY <2>2, WantFiles
    <2> HIDE DEF call
    <2>4. /\ entries[manifestName] \in Manifests \cup {Absent}
          /\ DOMAIN plan \subseteq Files /\ DOMAIN Want(call) \subseteq DOMAIN plan
          /\ plan \in [DOMAIN plan -> Entries]
          /\ \A f \in DOMAIN plan :
                 /\ plan[f].observed = entries[f]
                 /\ plan[f].status = "orphan" => f \notin DOMAIN Want(call)
                 /\ plan[f].status = "current" => f \in DOMAIN Want(call) /\ entries[f] = Want(call)[f]
                 /\ entries[f] \in UserContents => plan[f].status \in {"foreign", "modified"}
      BY <2>3, PlanFacts
    <2>5. \A f \in DOMAIN plan : plan[f].observed \in UserContents /\ call.op = "install" => call.confirmed
      BY <1>4, <2>4 DEF refuseUnmanaged
    <2> HIDE DEF plan
    <2>6. /\ IsCall(memory) /\ memory.op = call.op /\ memory.version = call.version
          /\ memory.confirmed = call.confirmed /\ memory.plan = plan /\ memory.todo = DOMAIN plan
          /\ memory.done = call.done /\ memory.detached = Absent
      BY <2>2, <2>4, PlanMemory DEF SameCall
    <2> HIDE DEF memory
    <2>7. answer' \in [Callers -> Statuses]
      BY <1>2, <2>1 DEF World, Statuses
    <2>8. /\ Frame(c) /\ World' /\ UserBytesKept' /\ NoMixture'
          /\ pc'[c] = step /\ held'[c] = memory
      BY <1>1, <2>1, <2>7, Thinks DEF files
    <2>9. CallOK(c)'
      BY <2>1, <2>6, <2>8 DEF CallOK
    <2>10. Want(memory) = Want(call)
      BY <2>6 DEF Want
    <2>11. CallLegal(c)'
      <3>1. lock' = c /\ pc'[c] = step /\ held'[c] = memory
        BY <2>1, <2>8
      <3>2. \/ memory.op = "install" /\ memory.version \in Versions
            \/ memory.op = "uninstall" /\ step # "manifest"
        BY <2>2, <2>6
      <3>3. memory.op = "install" => Ships[memory.version] \subseteq DOMAIN memory.plan
        BY <2>3, <2>4, <2>6
      <3>4. memory.todo \subseteq DOMAIN memory.plan /\ ~memory.done
        BY <2>2, <2>6
      <3>5. \A f \in DOMAIN memory.plan :
               /\ memory.plan[f].status = "orphan" => f \notin DOMAIN Want(memory)
               /\ memory.plan[f].observed \in UserContents /\ memory.op = "install" => memory.confirmed
        BY <2>4, <2>5, <2>6, <2>10
      <3> HIDE DEF step
      <3> QED
        BY <3>1, <3>2, <3>3, <3>4, <3>5 DEF CallLegal
    <2>12. WriteLegal(c)' /\ ManifestOpen(c)'
      BY <2>8, <2>2, <2>6 DEF WriteLegal, ManifestOpen, InHand
    <2>13. FilesInPlace(c)'
      BY <1>1, <2>2, <2>3, <2>4, <2>6, <2>8 DEF FilesInPlace, Settled, InHand
    <2> QED
      BY <2>8, <2>9, <2>11, <2>12, <2>13, LoneStep DEF Lone
  <1> QED
    BY <1>3, <1>4

-----------------------------------------------------------------------------
(* The choice of the next name to write.                                   *)

(* What a call may aim at: see WriteLegal.                                 *)
Legal(call, target, data, expected) ==
    /\ target \in Names /\ data \in Everything /\ expected \in Everything
    /\ target = manifestName =>
          /\ data = IF call.op = "install" THEN Manifest(call.version, call.done) ELSE Absent
          /\ call.op = "uninstall" => call.done
    /\ target # manifestName =>
          /\ ~call.done /\ target \notin call.todo
          /\ data = IF target \in DOMAIN Want(call) THEN Want(call)[target] ELSE Absent
    /\ expected \in UserContents =>
          /\ call.op = "install" /\ data # Absent
          /\ target \in DOMAIN call.plan /\ expected = call.plan[target].observed
    /\ expected = Absent => data # Absent

LEMMA WriteStep ==
    ASSUME Sound, NEW c \in Callers, pc[c] \in {"manifest", "file"},
           NEW target, NEW data, NEW expected, NEW memory,
           Write(c, target, data, expected, memory), Legal(memory, target, data, expected),
           IsCall(memory), SameCall(memory, held[c]), memory.plan = held[c].plan,
           memory.todo \subseteq held[c].todo, held[c].todo \ memory.todo \subseteq {target},
           memory.done => memory.todo = {},
           target # manifestName => pc[c] = "file" /\ held[c].done = memory.done
    PROVE  Sound'
  <1> DEFINE n == Aimed(memory, target, data, expected)
             call == held[c]
             step == IF expected = Absent THEN "create" ELSE "detach"
  <1>1. /\ Keep(c, n) /\ pc' = [pc EXCEPT ![c] = step]
        /\ UNCHANGED <<files, lock, answer, edits, owed, touched>>
    BY DEF Write, Aimed, Goto, history
  <1>2. World /\ Lone(c)
    BY Parts
  <1>3. lock = c
    BY <1>2 DEF Lone, CallOK
  <1>4. /\ IsCall(n) /\ SameCall(n, call) /\ n.plan = call.plan /\ n.todo = memory.todo
        /\ n.done = memory.done /\ n.detached = Absent
        /\ n.target = target /\ n.data = data /\ n.expected = expected
    BY AimMemory DEF Legal, SameCall
  <1> HIDE DEF n
  <1>5. answer' \in [Callers -> Statuses]
    BY <1>1, <1>2 DEF World, Statuses
  <1>6. /\ Frame(c) /\ World' /\ UserBytesKept' /\ NoMixture'
        /\ pc'[c] = step /\ held'[c] = n
    BY <1>1, <1>5, Thinks
  <1>7. pc'[c] \in {"create", "detach"} /\ (pc'[c] = "create" => expected = Absent)
    BY <1>6
  <1>8. lock' = c /\ entries' = entries /\ touched' = touched
    BY <1>1, <1>3 DEF files
  <1>9. CallOK(c)'
    BY <1>4, <1>6, <1>7, <1>8 DEF CallOK
  <1>10. Want(n) = Want(call) /\ Want(memory) = Want(call)
    BY <1>4 DEF Want, SameCall
  <1>11. CallLegal(c)'
    BY <1>2, <1>3, <1>4, <1>6, <1>7, <1>8, <1>10 DEF Lone, CallLegal, SameCall
  <1>12. WriteLegal(c)'
    <2>1. Absent \in Contents(target)
      BY DEF Contents
    <2> QED
      BY <1>4, <1>6, <1>7, <1>10, <2>1 DEF WriteLegal, Legal, SameCall
  <1>13. FilesInPlace(c)'
    <2>1. \A f : ~InHand(c, f)
      BY DEF InHand
    <2>2. /\ n.op = call.op /\ n.version = call.version /\ n.plan = call.plan
          /\ n.todo \subseteq call.todo /\ call.todo \ n.todo \subseteq {target}
      BY <1>4 DEF SameCall
    <2>3. \A f : InHand(c, f)' <=> f = target
      BY <1>4, <1>6, <1>7 DEF InHand
    <2>4. \A f, v : Settled(f, v)' <=> Settled(f, v)
      BY <1>8 DEF Settled
    <2>5. FilesInPlace(c)
      BY <1>2 DEF Lone
    <2> HIDE DEF call, step
    <2> QED
      BY <1>3, <1>6, <1>7, <2>1, <2>2, <2>3, <2>4, <2>5 DEF FilesInPlace, call
  <1>14. ManifestOpen(c)'
    <2>1. ManifestOpen(c)
      BY <1>2 DEF Lone
    <2>2. CASE target = manifestName
      BY <1>4, <1>6, <1>7, <2>2 DEF ManifestOpen, InHand
    <2>3. CASE target # manifestName
      BY <1>3, <1>4, <1>6, <1>7, <1>8, <2>1, <2>3 DEF ManifestOpen, InHand, SameCall
    <2> QED
      BY <2>2, <2>3
  <1> QED
    BY <1>6, <1>9, <1>11, <1>12, <1>13, <1>14, LoneStep DEF Lone

LEMMA WriteManifestStep == ASSUME Sound, NEW c \in Callers, WriteManifest(c) PROVE Sound'
  <1> DEFINE call == held[c]
             old == entries[manifestName]
             data == Manifest(call.version, call.done)
             memory == Noted(call, old)
  <1>1. pc[c] = "manifest" /\ lock = c
    BY DEF WriteManifest, At
  <1>2. CASE Fail(c, "failed")
    BY <1>2, FailStep DEF Statuses
  <1>3. CASE Write(c, manifestName, data, old, memory)
    <2>1. World /\ Lone(c)
      BY Parts
    <2>2. call.op = "install" /\ call.version \in Versions /\ IsCall(call) /\ (call.done => call.todo = {})
      BY <1>1, <2>1 DEF Lone, CallLegal, CallOK
    <2>3. call.done \in BOOLEAN
      BY <2>2 DEF IsCall
    <2>4. data \in Manifests /\ data # Absent
      BY <2>2, <2>3, ManifestShape
    <2>5. old \in Manifests \cup {Absent} /\ manifestName \in Names
      BY WorldFacts DEF Contents, Names
    <2>6. data \in Everything /\ old \in Everything
      BY <2>4, <2>5 DEF Everything, Contents
    <2>7. old \notin UserContents
      BY <2>5, ManifestNotUser, AbsentAssumption
    <2>8. /\ IsCall(memory) /\ SameCall(memory, call) /\ memory.plan = call.plan /\ memory.todo = call.todo
          /\ memory.done = call.done
      BY <2>2, <2>5, NoteMemory
    <2> HIDE DEF memory
    <2>9. data = Manifest(memory.version, memory.done)
      BY <2>8 DEF SameCall
    <2> HIDE DEF data, old
    <2>10. Legal(memory, manifestName, data, old)
      BY <2>2, <2>4, <2>5, <2>6, <2>7, <2>8, <2>9 DEF Legal, SameCall
    <2> QED
      BY <1>1, <1>3, <2>2, <2>8, <2>10, WriteStep
  <1> QED
    BY <1>2, <1>3 DEF WriteManifest, Noted

(* A file that is taken up is one that the plan lists.                     *)
LEMMA Picked ==
    ASSUME Sound, NEW c \in Callers, NEW f, pc[c] = "file", Pick(c, f)
    PROVE  /\ lock = c /\ Lone(c) /\ IsCall(held[c]) /\ IsCall(Rested(held[c], f))
           /\ f \in DOMAIN held[c].plan /\ f \in Files /\ f \in Names /\ f # manifestName
           /\ held[c].plan[f] \in Entries /\ ~held[c].done
           /\ (held[c].op = "install" => held[c].version \in Versions)
           /\ SameCall(Rested(held[c], f), held[c]) /\ Rested(held[c], f).plan = held[c].plan
           /\ Rested(held[c], f).todo = held[c].todo \ {f}
           /\ Rested(held[c], f).done = held[c].done /\ Rested(held[c], f).detached = held[c].detached
           /\ Want(Rested(held[c], f)) = Want(held[c])
  <1>1. Lone(c)
    BY Parts
  <1>2. lock = c /\ IsCall(held[c])
    BY <1>1 DEF Lone, CallOK
  <1>3. /\ f \in held[c].todo /\ held[c].todo \subseteq DOMAIN held[c].plan /\ ~held[c].done
        /\ (held[c].op = "install" => held[c].version \in Versions)
    BY <1>1, <1>2 DEF Lone, CallLegal, Pick
  <1>4. f \in DOMAIN held[c].plan /\ f \in Files /\ held[c].plan[f] \in Entries
    BY <1>2, <1>3, CallFields
  <1>5. f \in Names /\ f # manifestName
    BY <1>4, FileNames
  <1>6. /\ IsCall(Rested(held[c], f)) /\ SameCall(Rested(held[c], f), held[c])
        /\ Rested(held[c], f).plan = held[c].plan /\ Rested(held[c], f).todo = held[c].todo \ {f}
        /\ Rested(held[c], f).done = held[c].done /\ Rested(held[c], f).detached = held[c].detached
    BY <1>2, RestMemory
  <1>7. Want(Rested(held[c], f)) = Want(held[c])
    BY <1>6 DEF Want, SameCall
  <1> QED
    BY <1>1, <1>2, <1>3, <1>4, <1>5, <1>6, <1>7

LEMMA RemoveFileStep == ASSUME Sound, NEW c \in Callers, NEW f, RemoveFile(c, f) PROVE Sound'
  <1> DEFINE call == held[c]
             memory == Rested(call, f)
  <1>1. pc[c] = "file" /\ Pick(c, f) /\ call.plan[f].status = "orphan"
    BY DEF RemoveFile, At
  <1>2. CASE Fail(c, "failed")
    BY <1>2, FailStep DEF Statuses
  <1>3. CASE f \in DOMAIN call.recorded /\ Write(c, f, Absent, call.recorded[f], memory)
    <2>1. /\ Lone(c) /\ lock = c /\ IsCall(call) /\ IsCall(memory) /\ f \in DOMAIN call.plan
          /\ f \in Names /\ f # manifestName /\ ~call.done
          /\ SameCall(memory, call) /\ memory.plan = call.plan /\ memory.todo = call.todo \ {f}
          /\ memory.done = call.done /\ Want(memory) = Want(call)
      BY <1>1, Picked
    <2>2. f \notin DOMAIN Want(call)
      BY <1>1, <2>1 DEF Lone, CallLegal
    <2>3. call.recorded \in {Hashes(m) : m \in Manifests \cup {Absent}}
      BY <2>1, CallFields
    <2>4. /\ call.recorded[f] # Absent /\ call.recorded[f] \notin UserContents
          /\ call.recorded[f] \in Everything
      BY <1>3, <2>3, HashesKnown
    <2>5. Absent \in Everything
      BY <2>1 DEF Everything, Contents
    <2> DEFINE expected == call.recorded[f]
    <2> HIDE DEF memory, expected
    <2>6. expected # Absent /\ expected \notin UserContents /\ expected \in Everything
      BY <2>4 DEF expected
    <2>7. Legal(memory, f, Absent, expected)
      BY <2>1, <2>2, <2>5, <2>6 DEF Legal
    <2>8. Write(c, f, Absent, expected, memory)
      BY <1>3 DEF expected, memory
    <2> QED
      BY <1>1, <2>1, <2>7, <2>8, WriteStep
  <1> QED
    BY <1>2, <1>3 DEF RemoveFile, Rest, Rested

LEMMA WriteFileStep == ASSUME Sound, NEW c \in Callers, NEW f, WriteFile(c, f) PROVE Sound'
  <1> DEFINE call == held[c]
             memory == Rested(call, f)
             data == Want(call)[f]
             expected == call.plan[f].observed
  <1>1. pc[c] = "file" /\ Pick(c, f) /\ ~Untouched(c, f) /\ call.plan[f].status # "orphan"
    BY DEF WriteFile, At
  <1>2. CASE Fail(c, "failed")
    BY <1>2, FailStep DEF Statuses
  <1>3. CASE Write(c, f, data, expected, memory)
    <2>1. /\ Lone(c) /\ lock = c /\ IsCall(call) /\ IsCall(memory) /\ f \in DOMAIN call.plan
          /\ f \in Names /\ f # manifestName /\ ~call.done /\ call.plan[f] \in Entries
          /\ (call.op = "install" => call.version \in Versions)
          /\ SameCall(memory, call) /\ memory.plan = call.plan /\ memory.todo = call.todo \ {f}
          /\ memory.done = call.done /\ Want(memory) = Want(call)
      BY <1>1, Picked
    <2>2. f \in DOMAIN Want(call)
      BY <1>1 DEF Untouched
    <2>3. call.op = "install" /\ data # Absent /\ data \in Everything
      BY <2>1, <2>2, WantFiles
    <2>4. expected \in Everything
      BY <2>1 DEF Entries
    <2> HIDE DEF memory
    <2>5. Legal(memory, f, data, expected)
      BY <2>1, <2>2, <2>3, <2>4 DEF Legal, SameCall
    <2> QED
      BY <1>1, <1>3, <2>1, <2>5, WriteStep
  <1> QED
    BY <1>2, <1>3 DEF WriteFile, Rest, Rested

LEMMA SkipFileStep == ASSUME Sound, NEW c \in Callers, NEW f, SkipFile(c, f) PROVE Sound'
  <1> DEFINE call == held[c]
             n == Rested(call, f)
  <1>1. /\ pc[c] = "file" /\ Pick(c, f) /\ Untouched(c, f)
        /\ Keep(c, n) /\ pc' = [pc EXCEPT ![c] = "file"]
        /\ UNCHANGED <<files, lock, answer, edits, owed, touched>>
    BY DEF SkipFile, At, Rest, Rested, Goto, history
  <1>2. /\ Lone(c) /\ lock = c /\ IsCall(call) /\ IsCall(n) /\ f \in DOMAIN call.plan
        /\ f \in Names /\ f # manifestName /\ ~call.done
        /\ (call.op = "install" => call.version \in Versions)
        /\ SameCall(n, call) /\ n.plan = call.plan /\ n.todo = call.todo \ {f}
        /\ n.done = call.done /\ n.detached = call.detached /\ Want(n) = Want(call)
    BY <1>1, Picked
  <1>3. answer' \in [Callers -> Statuses] /\ call.detached = Absent
    BY <1>1, <1>2, Parts DEF World, Statuses, Lone, CallOK
  <1> HIDE DEF n
  <1>4. /\ Frame(c) /\ World' /\ UserBytesKept' /\ NoMixture'
        /\ pc'[c] = "file" /\ held'[c] = n
    BY <1>1, <1>3, Thinks
  <1>5. lock' = c /\ entries' = entries /\ touched' = touched
    BY <1>1, <1>2 DEF files
  <1>6. CallOK(c)' /\ WriteLegal(c)'
    BY <1>2, <1>3, <1>4, <1>5 DEF CallOK, WriteLegal
  <1>7. CallLegal(c)'
    BY <1>1, <1>2, <1>4, <1>5 DEF Lone, CallLegal, SameCall
  <1>8. FilesInPlace(c)'
    <2>1. \A g : ~InHand(c, g) /\ ~InHand(c, g)'
      BY <1>1, <1>4 DEF InHand
    <2>2. \A g, v : Settled(g, v)' <=> Settled(g, v)
      BY <1>5 DEF Settled
    <2>3. DOMAIN Want(call) = IF call.op = "install" THEN Ships[call.version] ELSE {}
      BY <1>2, WantFiles
    <2>4. call.plan[f].status = "current" \/ (call.plan[f].status # "orphan" /\ f \notin DOMAIN Want(call))
      BY <1>1 DEF Untouched
    <2>5. FilesInPlace(c)
      BY <1>2 DEF Lone
    <2> QED
      BY <1>1, <1>2, <1>4, <2>1, <2>2, <2>3, <2>4, <2>5 DEF FilesInPlace, SameCall
  <1>9. ManifestOpen(c)'
    BY <1>1, <1>2, <1>4, <1>5 DEF Lone, ManifestOpen, InHand, SameCall
  <1> QED
    BY <1>4, <1>6, <1>7, <1>8, <1>9, LoneStep DEF Lone

LEMMA FinishStep == ASSUME Sound, NEW c \in Callers, Finish(c) PROVE Sound'
  <1> DEFINE call == held[c]
             n == Ended(call)
             old == entries[manifestName]
  <1>1. pc[c] = "file" /\ lock = c /\ call.todo = {}
    BY DEF Finish, At
  <1>2. World /\ Lone(c)
    BY Parts
  <1>3. IsCall(call) /\ call.detached = Absent
    BY <1>1, <1>2 DEF Lone, CallOK
  <1>4. /\ IsCall(n) /\ SameCall(n, call) /\ n.plan = call.plan /\ n.todo = {} /\ n.done
        /\ n.detached = Absent
    BY <1>1, <1>3, EndMemory
  <1> HIDE DEF n
  <1>5. CASE Fail(c, "failed")
    BY <1>5, FailStep DEF Statuses
  <1>6. CASE call.op = "install" /\ Keep(c, n) /\ Goto(c, "manifest") /\ UNCHANGED <<files, history>>
    <2>1. pc' = [pc EXCEPT ![c] = "manifest"] /\ UNCHANGED <<files, lock, answer, edits, owed, touched>>
      BY <1>6 DEF Goto, history
    <2>2. answer' \in [Callers -> Statuses]
      BY <1>2, <2>1 DEF World, Statuses
    <2>3. /\ Frame(c) /\ World' /\ UserBytesKept' /\ NoMixture'
          /\ pc'[c] = "manifest" /\ held'[c] = n
      BY <1>1, <1>6, <2>1, <2>2, Thinks
    <2>4. lock' = c /\ entries' = entries /\ touched' = touched
      BY <1>1, <2>1 DEF files
    <2>5. CallOK(c)' /\ WriteLegal(c)' /\ ManifestOpen(c)'
      BY <1>4, <2>3, <2>4 DEF CallOK, WriteLegal, ManifestOpen, InHand
    <2>6. Want(n) = Want(call)
      BY <1>4 DEF Want, SameCall
    <2>7. CallLegal(c)'
      BY <1>1, <1>2, <1>4, <1>6, <2>3, <2>4, <2>6 DEF Lone, CallLegal, SameCall
    <2>8. FilesInPlace(c)'
      <3>1. \A g : ~InHand(c, g) /\ ~InHand(c, g)'
        BY <1>1, <2>3 DEF InHand
      <3>2. \A g, v : Settled(g, v)' <=> Settled(g, v)
        BY <2>4 DEF Settled
      <3>3. FilesInPlace(c)
        BY <1>2 DEF Lone
      <3> QED
        BY <1>1, <1>4, <2>3, <3>1, <3>2, <3>3 DEF FilesInPlace, SameCall
    <2> QED
      BY <2>3, <2>5, <2>7, <2>8, LoneStep DEF Lone
  <1>7. CASE call.op = "uninstall" /\ old # Absent /\ Write(c, manifestName, Absent, old, n)
    <2>1. old \in Manifests \cup {Absent} /\ manifestName \in Names /\ old \in Contents(manifestName)
      BY WorldFacts DEF Contents, Names
    <2>2. old \in Everything /\ Absent \in Everything
      BY <2>1 DEF Everything, Contents
    <2>3. old \notin UserContents
      BY <2>1, ManifestNotUser, AbsentAssumption
    <2> HIDE DEF old
    <2>4. Legal(n, manifestName, Absent, old)
      BY <1>4, <1>7, <2>1, <2>2, <2>3 DEF Legal, SameCall
    <2>5. n.todo \subseteq call.todo /\ call.todo \ n.todo \subseteq {manifestName}
      BY <1>1, <1>4
    <2> QED
      BY <1>1, <1>4, <1>7, <2>4, <2>5, WriteStep
  <1>8. CASE Return(c, "ok") /\ UNCHANGED <<files, history>>
    <2>1. Frame(c) /\ World' /\ Lone(c)'
      BY <1>8, WorldFacts, Returns DEF Statuses, files, history
    <2>2. UserBytesKept' /\ NoMixture'
      BY <1>3, <1>8, <2>1, BytesSame, AbsentAssumption DEF files, history
    <2> QED
      BY <2>1, <2>2, LoneStep
  <1> QED
    BY <1>5, <1>6, <1>7, <1>8 DEF Finish, n, Ended

-----------------------------------------------------------------------------
(* Links, exchanges and removals.                                          *)

LEMMA Working ==
    ASSUME Sound, NEW c \in Callers, pc[c] \in {"create", "detach", "judge", "discard"}
    PROVE  /\ lock = c /\ c # None /\ IsCall(held[c])
           /\ (held[c].op = "install" /\ held[c].version \in Versions) \/ held[c].op = "uninstall"
           /\ CallLegal(c) /\ WriteLegal(c) /\ FilesInPlace(c) /\ ManifestOpen(c)
           /\ held[c].target \in Names /\ held[c].done \in BOOLEAN
           /\ DOMAIN Want(held[c]) = IF held[c].op = "install" THEN Ships[held[c].version] ELSE {}
           /\ \A f \in DOMAIN Want(held[c]) :
                  Want(held[c])[f] = Shipped(held[c].version, f) /\ Want(held[c])[f] \in Contents(f)
           /\ held[c].data \in Contents(held[c].target)
           /\ pc[c] \notin {"judge", "discard"} => held[c].detached = Absent
  <1>1. Lone(c) /\ c # None
    BY Parts, FilesAssumption
  <1>2. /\ lock = c /\ IsCall(held[c])
        /\ (held[c].op = "install" /\ held[c].version \in Versions) \/ held[c].op = "uninstall"
        /\ CallLegal(c) /\ WriteLegal(c) /\ FilesInPlace(c) /\ ManifestOpen(c)
        /\ pc[c] \notin {"judge", "discard"} => held[c].detached = Absent
    BY <1>1 DEF Lone, CallOK, CallLegal
  <1>3. held[c].target \in Names /\ held[c].done \in BOOLEAN
    BY <1>2 DEF IsCall
  <1>4. /\ DOMAIN Want(held[c]) = IF held[c].op = "install" THEN Ships[held[c].version] ELSE {}
        /\ \A f \in DOMAIN Want(held[c]) :
               Want(held[c])[f] = Shipped(held[c].version, f) /\ Want(held[c])[f] \in Contents(f)
    BY <1>2, WantFiles
  <1>5. held[c].data \in Contents(held[c].target)
    <2>1. CASE held[c].target = manifestName
      <3>1. held[c].data = IF held[c].op = "install" THEN Manifest(held[c].version, held[c].done) ELSE Absent
        BY <1>2, <2>1 DEF WriteLegal
      <3>2. held[c].data \in Manifests \cup {Absent}
        BY <1>2, <1>3, <3>1, ManifestShape
      <3> QED
        BY <2>1, <3>2 DEF Contents
    <2>2. CASE held[c].target # manifestName
      <3>1. held[c].data = IF held[c].target \in DOMAIN Want(held[c]) THEN Want(held[c])[held[c].target] ELSE Absent
        BY <1>2, <2>2 DEF WriteLegal
      <3>2. Absent \in Contents(held[c].target)
        BY DEF Contents
      <3> QED
        BY <1>4, <3>1, <3>2
    <2> QED
      BY <2>1, <2>2
  <1> QED
    BY <1>1, <1>2, <1>3, <1>4, <1>5

SettledAfter(name, value) ==
    entries'[name] = value \/ (touched' /\ entries'[name] \in {Absent} \cup UserContents)

(* The name has what it should have, and the call goes on or is over.      *)
LEMMA Dealt ==
    ASSUME Sound, NEW c \in Callers, pc[c] \in {"create", "judge", "discard"}, Done(c),
           DOMAIN entries' = Names, \A name \in Names : entries'[name] \in Contents(name),
           \A name \in Names \ {held[c].target} : entries'[name] = entries[name],
           SettledAfter(held[c].target, held[c].data), UNCHANGED <<aside, touched>>,
           owed' \subseteq UserContents,
           \A u \in owed' : \/ u \in aside
                            \/ \E f \in Files : entries'[f] = u
                            \/ \E d \in Callers \ {c} : held[d].detached = u,
           NoMixture'
    PROVE  Sound'
  <1> DEFINE call == held[c]
             n == Holding(call, Absent)
  <1>1. /\ lock = c /\ IsCall(call) /\ call.target \in Names
        /\ (call.op = "install" /\ call.version \in Versions) \/ call.op = "uninstall"
        /\ CallLegal(c) /\ WriteLegal(c) /\ FilesInPlace(c) /\ ManifestOpen(c) /\ World
        /\ DOMAIN Want(call) = IF call.op = "install" THEN Ships[call.version] ELSE {}
        /\ \A f \in DOMAIN Want(call) : Want(call)[f] = Shipped(call.version, f)
    BY Working, Parts
  <1>2. \A d \in Callers \ {c} : held'[d] = held[d] => (held[d].detached = held'[d].detached)
    OBVIOUS
  <1>3. CASE call.done
    <2>1. Return(c, "ok")
      BY <1>3 DEF Done
    <2>2. Frame(c) /\ World' /\ Lone(c)'
      BY <1>1, <2>1, WorldFacts, Returns DEF Statuses
    <2>3. UserBytesKept'
      BY <2>2 DEF UserBytesKept, Frame
    <2> QED
      BY <2>2, <2>3, LoneStep
  <1>4. CASE ~call.done
    <2>1. Keep(c, n) /\ pc' = [pc EXCEPT ![c] = "file"] /\ UNCHANGED <<lock, answer, edits>>
      BY <1>4 DEF Done, Goto, Holding
    <2>2. Absent \in Everything
      BY <1>1 DEF Everything, Contents
    <2>3. /\ IsCall(n) /\ SameCall(n, call) /\ n.plan = call.plan /\ n.todo = call.todo
          /\ n.done = call.done /\ n.detached = Absent
      BY <1>1, <2>2, HoldMemory
    <2> HIDE DEF n
    <2>4. /\ pc'[c] = "file" /\ held'[c] = n /\ lock' = c /\ touched' = touched
          /\ \A d \in Callers \ {c} : held'[d] = held[d] /\ pc'[d] = pc[d]
      BY <1>1, <2>1 DEF World, Keep
    <2>5. Frame(c)
      BY <1>1, <2>1, <2>4 DEF Frame
    <2>6. World'
      BY <1>1, <2>1 DEF World, Keep
    <2>7. UserBytesKept'
      BY <2>4 DEF UserBytesKept
    <2>8. CallOK(c)' /\ WriteLegal(c)'
      BY <2>3, <2>4 DEF CallOK, WriteLegal
    <2>9. Want(n) = Want(call)
      BY <2>3 DEF Want, SameCall
    <2>10. CallLegal(c)'
      BY <1>1, <2>3, <2>4, <2>9 DEF CallLegal, SameCall
    <2>11. FilesInPlace(c)'
      <3>1. \A g : ~InHand(c, g)' /\ (InHand(c, g) => g = call.target)
        BY <2>4 DEF InHand
      <3>2. \A g \in Names \ {call.target} : \A v : Settled(g, v) => SettledAfter(g, v)
        BY DEF Settled, SettledAfter
      <3>a. \A g, v : Settled(g, v)' <=> SettledAfter(g, v)
        BY DEF Settled, SettledAfter
      <3>3. CASE call.target = manifestName
        <4>1. /\ \A f \in DOMAIN call.plan : f \in Names \ {call.target}
              /\ (call.op = "install" => \A f \in Ships[call.version] : f \in Names \ {call.target})
          BY <1>1, <3>3, CallFields, FileNames, ShippedFiles
        <4> QED
          BY <1>1, <2>3, <2>4, <3>1, <3>2, <3>a, <4>1 DEF FilesInPlace, SameCall
      <3>4. CASE call.target # manifestName
        <4>1. /\ \A f \in DOMAIN call.plan : f \in Names
              /\ (call.op = "install" => \A f \in Ships[call.version] : f \in Names)
          BY <1>1, CallFields, FileNames, ShippedFiles
        <4>2. call.data = IF call.target \in DOMAIN Want(call) THEN Want(call)[call.target] ELSE Absent
          BY <1>1, <3>4 DEF WriteLegal
        <4>3. call.op = "install" /\ call.target \in Ships[call.version] => SettledAfter(call.target, Shipped(call.version, call.target))
          BY <1>1, <4>2
        <4>4. call.target \in DOMAIN call.plan /\ call.plan[call.target].status = "orphan" => SettledAfter(call.target, Absent)
          BY <1>1, <4>2 DEF CallLegal
        <4> QED
          BY <1>1, <2>3, <2>4, <3>1, <3>2, <3>a, <4>1, <4>3, <4>4 DEF FilesInPlace, SameCall
      <3> QED
        BY <3>3, <3>4
    <2>12. ManifestOpen(c)'
      <3>1. ASSUME call.op = "install" PROVE entries'[manifestName] = Absent \/ ~entries'[manifestName].complete
        <4>1. CASE call.target = manifestName
          <5>1. call.data = Manifest(call.version, call.done)
            BY <1>1, <3>1, <4>1 DEF WriteLegal
          <5>2. entries'[manifestName] = call.data \/ entries'[manifestName] \in {Absent} \cup UserContents
            BY <4>1 DEF SettledAfter
          <5>3. entries'[manifestName] \in Manifests \cup {Absent}
            BY <1>1, <4>1 DEF Contents
          <5>4. call.done = FALSE
            BY <1>4, Working, Zenon
          <5>5. ~Manifest(call.version, FALSE).complete
            BY DEF Manifest
          <5> QED
            BY <5>1, <5>2, <5>3, <5>4, <5>5, ManifestNotUser
        <4>2. CASE call.target # manifestName
          <5>1. entries'[manifestName] = entries[manifestName]
            BY <4>2 DEF Names
          <5> QED
            BY <1>1, <1>4, <3>1, <4>2, <5>1 DEF ManifestOpen, InHand
        <4> QED
          BY <4>1, <4>2
      <3> QED
        BY <2>3, <2>4, <3>1 DEF ManifestOpen, SameCall
    <2> QED
      BY <2>5, <2>6, <2>7, <2>8, <2>10, <2>11, <2>12, LoneStep DEF Lone
  <1> QED
    BY <1>3, <1>4

TruthfulAfter(m) ==
    m.complete => \A f \in DOMAIN m.files : entries'[f] \in {m.files[f], Absent} \cup UserContents

(* A complete manifest is linked when all of its files are in place, and   *)
(* while they are exchanged none is complete.                              *)
LEMMA LinkTruth ==
    ASSUME Sound, NEW c \in Callers, pc[c] \in {"create", "judge"}, held[c].data # Absent,
           Linked(c, held[c].data)
    PROVE  /\ DOMAIN entries' = Names /\ \A name \in Names : entries'[name] \in Contents(name)
           /\ entries'[held[c].target] = held[c].data /\ entries[held[c].target] = Absent
           /\ \A name \in Names \ {held[c].target} : entries'[name] = entries[name]
           /\ held[c].op = "install" /\ ~held[c].done =>
                 entries'[manifestName] = Absent \/ ~entries'[manifestName].complete
           /\ NoMixture'
  <1> DEFINE call == held[c]
             v    == call.version
             m    == entries'[manifestName]
  <1>1. /\ lock = c /\ IsCall(call) /\ call.target \in Names /\ call.done \in BOOLEAN
        /\ (call.op = "install" /\ v \in Versions) \/ call.op = "uninstall"
        /\ CallLegal(c) /\ WriteLegal(c) /\ FilesInPlace(c) /\ ManifestOpen(c)
        /\ DOMAIN Want(call) = IF call.op = "install" THEN Ships[v] ELSE {}
        /\ call.data \in Contents(call.target)
    BY Working
  <1>2. entries[call.target] = Absent /\ entries' = [entries EXCEPT ![call.target] = call.data]
    BY DEF Linked
  <1>3. /\ DOMAIN entries' = Names /\ \A name \in Names : entries'[name] \in Contents(name)
        /\ entries'[call.target] = call.data
        /\ \A name \in Names \ {call.target} : entries'[name] = entries[name]
    BY <1>1, <1>2, WorldFacts
  <1>4. call.op = "install" /\ v \in Versions
    BY <1>1 DEF WriteLegal
  <1>5. CASE call.target = manifestName
    <2>1. m = Manifest(v, call.done)
      BY <1>1, <1>3, <1>4, <1>5 DEF WriteLegal
    <2>2. /\ m.complete = call.done /\ DOMAIN m.files = Ships[v]
          /\ \A f \in Ships[v] : m.files[f] = Shipped(v, f)
      BY <1>1, <1>4, <2>1, ManifestShape
    <2>3. ASSUME call.done, NEW f \in Ships[v] PROVE entries'[f] \in {m.files[f], Absent} \cup UserContents
      <3>1. call.todo = {}
        BY <1>1, <2>3 DEF CallLegal
      <3>2. f \in Names /\ f # manifestName
        BY <1>4, ShippedFiles, FileNames
      <3>3. Settled(f, Shipped(v, f))
        BY <1>1, <1>4, <1>5, <2>3, <3>1, <3>2 DEF FilesInPlace, InHand
      <3> QED
        BY <1>3, <1>5, <2>2, <2>3, <3>2, <3>3 DEF Settled
    <2>4. NoMixture'
      BY <2>2, <2>3 DEF NoMixture, Truthful
    <2> QED
      BY <1>2, <1>3, <2>2, <2>4
  <1>6. CASE call.target # manifestName
    <2>1. ~call.done /\ m = entries[manifestName]
      BY <1>1, <1>3, <1>6 DEF WriteLegal, Names
    <2>2. m = Absent \/ ~m.complete
      BY <1>1, <1>4, <1>6, <2>1 DEF ManifestOpen, InHand
    <2>3. NoMixture'
      BY <2>2 DEF NoMixture, Truthful
    <2> QED
      BY <1>2, <1>3, <2>2, <2>3
  <1> QED
    BY <1>5, <1>6

LEMMA Owed ==
    ASSUME Sound, NEW u \in owed
    PROVE  /\ u \in UserContents /\ u # Absent
           /\ u \in aside \/ (\E f \in Files : entries[f] = u) \/ \E d \in Callers : held[d].detached = u
  BY WorldFacts, Parts, AbsentAssumption DEF UserBytesKept

LEMMA LinkNewStep == ASSUME Sound, NEW c \in Callers, LinkNew(c) PROVE Sound'
  <1>1. pc[c] = "create"
    BY DEF LinkNew, At
  <1>2. CASE Fail(c, "failed")
    BY <1>2, FailStep DEF Statuses
  <1>3. CASE Linked(c, held[c].data) /\ Done(c) /\ UNCHANGED <<aside, history>>
    <2>1. held[c].data # Absent /\ held[c].detached = Absent /\ held[c].target \in Names
      BY <1>1, Working DEF WriteLegal
    <2>2. /\ DOMAIN entries' = Names /\ \A name \in Names : entries'[name] \in Contents(name)
          /\ entries'[held[c].target] = held[c].data /\ entries[held[c].target] = Absent
          /\ \A name \in Names \ {held[c].target} : entries'[name] = entries[name]
          /\ NoMixture'
      BY <1>1, <1>3, <2>1, LinkTruth
    <2>3. SettledAfter(held[c].target, held[c].data)
      BY <2>2 DEF SettledAfter
    <2>4. ASSUME NEW u \in owed'
          PROVE  \/ u \in aside \/ \E f \in Files : entries'[f] = u
                 \/ \E d \in Callers \ {c} : held[d].detached = u
      BY <1>3, <2>1, <2>2, <2>4, Owed, FileNames DEF history
    <2>5. UNCHANGED <<aside, touched>> /\ owed' \subseteq UserContents
      BY <1>3, WorldFacts DEF history
    <2> QED
      BY <1>1, <1>3, <2>2, <2>3, <2>4, <2>5, Dealt
  <1> QED
    BY <1>2, <1>3 DEF LinkNew

LEMMA DetachStep == ASSUME Sound, NEW c \in Callers, Detach(c) PROVE Sound'
  <1> DEFINE call   == held[c]
             target == call.target
             value  == entries[target]
             n      == Holding(call, value)
  <1>1. pc[c] = "detach"
    BY DEF Detach, At
  <1>2. CASE Fail(c, "failed")
    BY <1>2, FailStep DEF Statuses
  <1>3. CASE /\ value # Absent /\ Keep(c, n)
             /\ entries' = [entries EXCEPT ![target] = Absent]
             /\ Goto(c, "judge") /\ UNCHANGED <<aside, history>>
    <2>1. /\ lock = c /\ IsCall(call) /\ target \in Names
          /\ (call.op = "install" /\ call.version \in Versions) \/ call.op = "uninstall"
          /\ CallLegal(c) /\ WriteLegal(c) /\ FilesInPlace(c) /\ ManifestOpen(c)
          /\ call.detached = Absent
      BY <1>1, Working
    <2>2. World /\ NoMixture
      BY Parts
    <2>3. value \in Contents(target) /\ value \in Everything
      BY <2>1, WorldFacts DEF Everything
    <2>4. /\ IsCall(n) /\ SameCall(n, call) /\ n.plan = call.plan /\ n.todo = call.todo
          /\ n.done = call.done /\ n.detached = value /\ SameAim(n, call)
      BY <2>1, <2>3, HoldMemory
    <2> HIDE DEF n
    <2>5. /\ pc' = [pc EXCEPT ![c] = "judge"] /\ UNCHANGED <<lock, answer, edits, aside, owed, touched>>
          /\ held' = [held EXCEPT ![c] = n]
      BY <1>3 DEF Goto, history, Keep
    <2>6. /\ pc'[c] = "judge" /\ held'[c] = n /\ lock' = c
          /\ \A d \in Callers \ {c} : held'[d] = held[d] /\ pc'[d] = pc[d]
      BY <2>1, <2>2, <2>5 DEF World
    <2>7. Frame(c)
      BY <2>1, <2>5, <2>6 DEF Frame
    <2>8. /\ DOMAIN entries' = Names /\ entries'[target] = Absent
          /\ \A name \in Names \ {target} : entries'[name] = entries[name]
          /\ \A name \in Names : entries'[name] \in Contents(name)
      BY <1>3, <2>1, WorldFacts DEF Contents
    <2>9. World'
      BY <2>2, <2>5, <2>8 DEF World
    <2>10. UserBytesKept'
      <3> SUFFICES ASSUME NEW u \in owed
                   PROVE  (u \in aside \/ (\E f \in Files : entries[f] = u) \/ \E d \in Callers : held[d].detached = u)'
        BY <2>5 DEF UserBytesKept
      <3>1. /\ u # Absent
            /\ u \in aside \/ (\E f \in Files : entries[f] = u) \/ \E d \in Callers : held[d].detached = u
        BY Owed
      <3>2. CASE \E f \in Files : entries[f] = u
        BY <2>4, <2>6, <2>8, <3>2, FileNames
      <3>3. CASE \E d \in Callers : held[d].detached = u
        BY <2>1, <2>6, <3>1, <3>3
      <3> QED
        BY <2>5, <3>1, <3>2, <3>3
    <2>11. ASSUME target = manifestName PROVE TruthfulAfter(value) /\ entries'[manifestName] = Absent
      <3>1. value \in Manifests /\ Truthful(value)
        BY <1>3, <2>2, <2>3, <2>11 DEF NoMixture, Contents
      <3>2. \A f \in DOMAIN value.files : f \in Names \ {target}
        BY <2>11, <3>1, ManifestFiles, ShippedFiles, FileNames
      <3>3. \A f \in DOMAIN value.files : entries'[f] = entries[f]
        BY <2>8, <3>2
      <3> QED
        BY <2>8, <2>11, <3>1, <3>3 DEF Truthful, TruthfulAfter
    <2>12. ASSUME target # manifestName
           PROVE  /\ entries'[manifestName] = entries[manifestName]
                  /\ entries[manifestName] # Absent =>
                        TruthfulAfter(entries[manifestName])
      <3>1. entries'[manifestName] = entries[manifestName]
        BY <2>8, <2>12 DEF Names
      <3>2. ASSUME entries[manifestName] # Absent PROVE \A f \in DOMAIN entries[manifestName].files : f \in Names
        <4>1. entries[manifestName] \in Manifests
          BY <3>2, WorldFacts DEF Contents, Names
        <4> QED
          BY <4>1, ManifestFiles, ShippedFiles, FileNames
      <3> QED
        BY <2>2, <2>8, <3>1, <3>2 DEF NoMixture, Truthful, TruthfulAfter
    <2>13. NoMixture'
      <3>1. CASE target = manifestName
        BY <2>11, <3>1 DEF NoMixture
      <3>2. CASE target # manifestName
        BY <2>12, <3>2 DEF NoMixture, Truthful, TruthfulAfter
      <3> QED
        BY <3>1, <3>2
    <2>14. CallOK(c)'
      BY <2>4, <2>6 DEF CallOK
    <2>15. Want(n) = Want(call)
      BY <2>4 DEF Want, SameCall
    <2>16. CallLegal(c)'
      BY <1>1, <2>1, <2>4, <2>6, <2>15 DEF CallLegal, SameCall
    <2>17. WriteLegal(c)'
      BY <1>1, <2>1, <2>3, <2>4, <2>6, <2>15 DEF WriteLegal, SameCall, SameAim
    <2>18. FilesInPlace(c)'
      <3>1. \A g : (InHand(c, g)' <=> g = target) /\ (InHand(c, g) <=> g = target)
        BY <1>1, <2>4, <2>6 DEF InHand, SameAim
      <3>2. \A g \in Names \ {target} : \A v : Settled(g, v)' <=> Settled(g, v)
        BY <2>5, <2>8 DEF Settled
      <3>3. /\ \A f \in DOMAIN call.plan : f \in Names
            /\ (call.op = "install" => \A f \in Ships[call.version] : f \in Names)
        BY <2>1, CallFields, FileNames, ShippedFiles
      <3>4. n.target = target /\ entries'[n.target] = Absent
        BY <2>4, <2>8 DEF SameAim
      <3>5. Settled(held[c].target, Absent)'
        BY <2>6, <3>4 DEF Settled
      <3> QED
        BY <2>1, <2>4, <2>6, <3>1, <3>2, <3>3, <3>5 DEF FilesInPlace, SameCall
    <2>19. ManifestOpen(c)'
      <3>1. n.target = target /\ n.detached = value /\ n.op = call.op /\ n.done = call.done
        BY <2>4 DEF SameAim, SameCall
      <3>3. CASE target = manifestName
        <4>1. Truthful(held[c].detached)'
          BY <2>6, <2>11, <3>1, <3>3 DEF Truthful, TruthfulAfter
        <4> QED
          BY <2>6, <2>11, <3>1, <3>3, <4>1 DEF ManifestOpen, InHand
      <3>4. CASE target # manifestName
        <4>1. ~InHand(c, manifestName)
          BY <3>4 DEF InHand
        <4>2. ASSUME entries[manifestName] # Absent, entries[manifestName].complete,
                     target \in DOMAIN entries[manifestName].files
              PROVE  value \in {entries[manifestName].files[target]} \cup UserContents
          BY <1>3, <2>2, <4>2 DEF NoMixture, Truthful
        <4> QED
          BY <1>1, <2>1, <2>6, <2>12, <3>1, <3>4, <4>1, <4>2 DEF ManifestOpen
      <3> QED
        BY <3>3, <3>4
    <2> QED
      BY <2>7, <2>9, <2>10, <2>13, <2>14, <2>16, <2>17, <2>18, <2>19, LoneStep DEF Lone
  <1> QED
    BY <1>2, <1>3 DEF Detach, Holding

LEMMA DiscardStep == ASSUME Sound, NEW c \in Callers, Discard(c) PROVE Sound'
  <1> DEFINE call == held[c]
  <1>1. pc[c] = "discard"
    BY DEF Discard, At
  <1>2. CASE Fail(c, "failed")
    BY <1>2, FailStep DEF Statuses
  <1>3. CASE Done(c) /\ owed' = owed \ Agreed(c) /\ UNCHANGED <<files, touched>>
    <2>1. /\ lock = c /\ CallLegal(c) /\ WriteLegal(c) /\ FilesInPlace(c)
      BY <1>1, Working
    <2>2. Settled(call.target, call.data)
      BY <1>1, <2>1 DEF FilesInPlace
    <2>3. SettledAfter(call.target, call.data)
      BY <1>3, <2>2 DEF Settled, SettledAfter, files
    <2>4. ASSUME NEW u \in owed' PROVE call.detached # u
      <3>1. CASE call.detached \in UserContents
        <4>1. /\ call.expected = call.detached /\ call.op = "install"
              /\ call.target \in DOMAIN call.plan /\ call.expected = call.plan[call.target].observed
          BY <1>1, <2>1, <3>1 DEF WriteLegal
        <4>2. call.confirmed
          BY <2>1, <3>1, <4>1 DEF CallLegal
        <4>3. Agreed(c) = {call.detached}
          BY <4>1, <4>2 DEF Agreed
        <4> QED
          BY <1>3, <2>4, <4>3
      <3>2. CASE call.detached \notin UserContents
        BY <1>3, <2>4, <3>2, Owed
      <3> QED
        BY <3>1, <3>2
    <2>5. ASSUME NEW u \in owed'
          PROVE  \/ u \in aside \/ \E f \in Files : entries'[f] = u
                 \/ \E d \in Callers \ {c} : held[d].detached = u
      BY <1>3, <2>4, <2>5, Owed DEF files
    <2>6. /\ UNCHANGED <<entries, aside, touched>> /\ owed' \subseteq UserContents
          /\ DOMAIN entries' = Names /\ \A name \in Names : entries'[name] \in Contents(name)
      BY <1>3, WorldFacts DEF files
    <2>7. NoMixture'
      BY <2>6, Parts DEF NoMixture, Truthful
    <2> QED
      BY <1>1, <1>3, <2>3, <2>5, <2>6, <2>7, Dealt
  <1> QED
    BY <1>2, <1>3 DEF Discard

(* The new content is linked: what it replaces is still under its other    *)
(* name.                                                                   *)
LEMMA ExchangedStep ==
    ASSUME Sound, NEW c \in Callers, pc[c] = "judge", held[c].data # Absent, Expected(c),
           Linked(c, held[c].data), Goto(c, "discard"), UNCHANGED <<held, aside, history>>
    PROVE  Sound'
  <1> DEFINE call   == held[c]
             target == call.target
  <1>1. /\ lock = c /\ IsCall(call) /\ target \in Names
        /\ (call.op = "install" /\ call.version \in Versions) \/ call.op = "uninstall"
        /\ CallLegal(c) /\ WriteLegal(c) /\ FilesInPlace(c) /\ ManifestOpen(c)
    BY Working
  <1>2. /\ DOMAIN entries' = Names /\ \A name \in Names : entries'[name] \in Contents(name)
        /\ entries'[target] = call.data /\ entries[target] = Absent
        /\ \A name \in Names \ {target} : entries'[name] = entries[name]
        /\ call.op = "install" /\ ~call.done => entries'[manifestName] = Absent \/ ~entries'[manifestName].complete
        /\ NoMixture'
    BY LinkTruth
  <1>3. /\ pc' = [pc EXCEPT ![c] = "discard"] /\ UNCHANGED <<lock, answer, edits, held, aside, owed, touched>>
    BY DEF Goto, history
  <1>4. World
    BY Parts
  <1>5. /\ pc'[c] = "discard" /\ held'[c] = call /\ lock' = c
        /\ \A d \in Callers \ {c} : held'[d] = held[d] /\ pc'[d] = pc[d]
    BY <1>1, <1>3, <1>4 DEF World
  <1>6. Frame(c)
    BY <1>1, <1>3, <1>5 DEF Frame
  <1>7. World'
    BY <1>2, <1>3, <1>4 DEF World
  <1>8. UserBytesKept'
    <2> SUFFICES ASSUME NEW u \in owed
                 PROVE  u \in aside \/ (\E f \in Files : entries'[f] = u) \/ \E d \in Callers : held[d].detached = u
      BY <1>3 DEF UserBytesKept
    <2> QED
      BY <1>2, Owed, FileNames
  <1>9. CallOK(c)' /\ CallLegal(c)'
    BY <1>1, <1>5 DEF CallOK, CallLegal, Want
  <1>10. WriteLegal(c)'
    BY <1>1, <1>5 DEF WriteLegal, Want, Expected
  <1>11. FilesInPlace(c)'
    <2>1. \A g : ~InHand(c, g)' /\ (InHand(c, g) <=> g = target)
      BY <1>5 DEF InHand
    <2>2. \A g \in Names \ {target} : \A v : Settled(g, v)' <=> Settled(g, v)
      BY <1>2, <1>3 DEF Settled
    <2>3. /\ \A f \in DOMAIN call.plan : f \in Names /\ f # manifestName
          /\ (call.op = "install" => \A f \in Ships[call.version] : f \in Names /\ f # manifestName)
      BY <1>1, CallFields, FileNames, ShippedFiles
    <2>4. DOMAIN Want(call) = IF call.op = "install" THEN Ships[call.version] ELSE {}
      BY <1>1, WantFiles
    <2>5. target # manifestName => call.data = IF target \in DOMAIN Want(call) THEN Want(call)[target] ELSE Absent
      BY <1>1 DEF WriteLegal
    <2>6. \A f \in DOMAIN Want(call) : Want(call)[f] = Shipped(call.version, f)
      BY <1>1, WantFiles
    <2>7. target # manifestName => target \in DOMAIN Want(call)
      BY <2>5
    <2>8. \A v : call.data = v => Settled(target, v)'
      BY <1>2, <1>5 DEF Settled, SettledAfter
    <2>9. call.op = "install" /\ target \in Ships[call.version] => Settled(target, Shipped(call.version, target))'
      BY <2>2, <2>3, <2>4, <2>5, <2>6, <2>8
    <2>10. \A f \in DOMAIN call.plan : call.plan[f].status = "orphan" => f # target
      BY <1>1, <2>3, <2>7 DEF CallLegal
    <2> QED
      BY <1>1, <1>5, <2>1, <2>2, <2>3, <2>8, <2>9, <2>10 DEF FilesInPlace
  <1>12. ManifestOpen(c)'
    <2>1. call.op = "install"
      BY <1>1, WantFiles DEF WriteLegal
    <2> QED
      BY <1>2, <1>5, <2>1 DEF ManifestOpen
  <1> QED
    BY <1>6, <1>7, <1>8, <1>2, <1>9, <1>10, <1>11, <1>12, LoneStep DEF Lone

(* What the call moved aside is not what it expected: it is linked again,  *)
(* or stays where it is.                                                   *)
LEMMA RestoredStep ==
    ASSUME Sound, NEW c \in Callers, pc[c] = "judge", Restored(c), Return(c, "failed"), UNCHANGED history
    PROVE  Sound'
  <1> DEFINE call   == held[c]
             target == call.target
             value  == call.detached
  <1>1. /\ lock = c /\ target \in Names /\ WriteLegal(c) /\ ManifestOpen(c)
    BY Working
  <1>2. value \in Contents(target) /\ UNCHANGED <<owed, touched>>
    BY <1>1 DEF WriteLegal, history
  <1>3. /\ DOMAIN entries' = Names /\ \A name \in Names : entries'[name] \in Contents(name)
        /\ \A name \in Names \ {target} : entries'[name] = entries[name]
        /\ \/ entries[target] = Absent /\ entries'[target] = value /\ aside' = aside
           \/ entries' = entries /\ aside' = aside \cup ({value} \cap UserContents)
        /\ aside' \subseteq UserContents
    BY <1>1, <1>2, WorldFacts DEF Restored, Linked, LeftAside
  <1>4. Frame(c) /\ World' /\ Lone(c)'
    BY <1>1, <1>2, <1>3, WorldFacts, Returns DEF Statuses
  <1>5. UserBytesKept'
    <2> SUFFICES ASSUME NEW u \in owed
                 PROVE  (u \in aside \/ (\E f \in Files : entries[f] = u) \/ \E d \in Callers : held[d].detached = u)'
      BY <1>2 DEF UserBytesKept
    <2>1. /\ u \in UserContents /\ u # Absent
          /\ u \in aside \/ (\E f \in Files : entries[f] = u) \/ \E d \in Callers : held[d].detached = u
      BY Owed
    <2>2. CASE u \in aside
      BY <1>3, <2>2
    <2>3. CASE \E f \in Files : entries[f] = u
      BY <1>3, <2>1, <2>3, FileNames
    <2>4. CASE \E d \in Callers \ {c} : held[d].detached = u
      BY <1>4, <2>4 DEF Frame
    <2>5. CASE value = u
      <3>1. CASE entries'[target] = value
        <4>1. target # manifestName
          BY <1>2, <2>1, <2>5, ManifestNotUser DEF Contents
        <4> QED
          BY <1>1, <2>5, <3>1, <4>1 DEF Names
      <3>2. CASE aside' = aside \cup ({value} \cap UserContents)
        BY <2>1, <2>5, <3>2
      <3> QED
        BY <1>3, <3>1, <3>2
    <2> QED
      BY <2>1, <2>2, <2>3, <2>4, <2>5
  <1>6. NoMixture'
    <2>1. NoMixture
      BY Parts
    <2> SUFFICES ASSUME entries'[manifestName] # Absent PROVE TruthfulAfter(entries'[manifestName])
      BY DEF NoMixture, Truthful, TruthfulAfter
    <2>2. entries'[manifestName] \in Manifests
      BY <1>3 DEF Contents, Names
    <2>3. \A f \in DOMAIN entries'[manifestName].files : f \in Names /\ f # manifestName
      BY <2>2, ManifestFiles, ShippedFiles, FileNames
    <2>4. CASE entries' = entries
      BY <2>1, <2>4 DEF NoMixture, Truthful, TruthfulAfter
    <2>5. CASE target = manifestName /\ entries'[target] = value
      <3>1. Truthful(value)
        BY <1>1, <2>5 DEF ManifestOpen
      <3> QED
        BY <1>3, <2>3, <2>5, <3>1 DEF Truthful, TruthfulAfter
    <2>6. CASE target # manifestName /\ entries'[target] = value
      <3>1. entries'[manifestName] = entries[manifestName]
        BY <1>3, <2>6 DEF Names
      <3> QED
        BY <1>1, <1>3, <2>1, <2>3, <2>6, <3>1 DEF NoMixture, Truthful, TruthfulAfter, ManifestOpen
    <2> QED
      BY <1>3, <2>4, <2>5, <2>6
  <1> QED
    BY <1>4, <1>5, <1>6, LoneStep

LEMMA JudgeStep == ASSUME Sound, NEW c \in Callers, Judge(c) PROVE Sound'
  <1> DEFINE call == held[c]
  <1>1. pc[c] = "judge"
    BY DEF Judge, At
  <1>2. CASE /\ call.data # Absent /\ Expected(c) /\ Linked(c, call.data)
             /\ Goto(c, "discard") /\ UNCHANGED <<held, aside, history>>
    BY <1>1, <1>2, ExchangedStep
  <1>3. CASE call.data # Absent /\ Restored(c) /\ Return(c, "failed") /\ UNCHANGED history
    BY <1>1, <1>3, RestoredStep
  <1>4. CASE call.data = Absent /\ Expected(c) /\ Done(c) /\ UNCHANGED <<files, history>>
    <2>1. lock = c /\ WriteLegal(c) /\ FilesInPlace(c)
      BY <1>1, Working
    <2>2. Settled(call.target, Absent)
      BY <1>1, <2>1 DEF FilesInPlace
    <2>3. SettledAfter(call.target, call.data)
      BY <1>4, <2>2 DEF Settled, SettledAfter, files, history
    <2>4. call.detached \notin UserContents
      BY <1>1, <1>4, <2>1 DEF WriteLegal, Expected
    <2>5. ASSUME NEW u \in owed'
          PROVE  \/ u \in aside \/ \E f \in Files : entries'[f] = u
                 \/ \E d \in Callers \ {c} : held[d].detached = u
      BY <1>4, <2>4, <2>5, Owed DEF files, history
    <2>6. /\ UNCHANGED <<entries, aside, touched>> /\ owed' \subseteq UserContents
          /\ DOMAIN entries' = Names /\ \A name \in Names : entries'[name] \in Contents(name)
      BY <1>4, WorldFacts DEF files, history
    <2>7. NoMixture'
      BY <2>6, Parts DEF NoMixture, Truthful
    <2> QED
      BY <1>1, <1>4, <2>3, <2>5, <2>6, <2>7, Dealt
  <1>5. CASE Fail(c, "failed")
    BY <1>5, FailStep DEF Statuses
  <1> QED
    BY <1>2, <1>3, <1>4, <1>5 DEF Judge

-----------------------------------------------------------------------------
(* The person acts at any time.                                            *)

LEMMA PersonStep ==
    ASSUME Sound, NEW name \in Names, NEW value \in {Absent} \cup UserContents, value \in Contents(name),
           entries' = [entries EXCEPT ![name] = value], touched' = TRUE,
           UNCHANGED <<aside, lock, pc, held, answer>>, edits' \in 0 .. MaxEdits,
           owed' \subseteq (owed \ {entries[name]}) \cup ({value} \cap UserContents)
    PROVE  Sound'
  <1>1. World /\ NoMixture
    BY Parts
  <1>2. /\ DOMAIN entries' = Names /\ entries'[name] = value
        /\ \A other \in Names \ {name} : entries'[other] = entries[other]
        /\ \A other \in Names : entries'[other] \in Contents(other)
    BY <1>1 DEF World
  <1>3. World'
    BY <1>1, <1>2 DEF World
  <1>4. UserBytesKept'
    <2> SUFFICES ASSUME NEW u \in owed'
                 PROVE  u \in aside \/ (\E f \in Files : entries'[f] = u) \/ \E d \in Callers : held[d].detached = u
      BY DEF UserBytesKept
    <2>1. CASE u = value /\ u \in UserContents
      <3>1. name # manifestName
        BY <2>1, ManifestNotUser, AbsentAssumption DEF Contents
      <3> QED
        BY <1>2, <2>1, <3>1 DEF Names
    <2>2. CASE u \in owed /\ u # entries[name]
      BY <1>2, <2>2, Owed, FileNames
    <2> QED
      BY <2>1, <2>2
  <1>5. entries'[manifestName] = entries[manifestName] \/ entries'[manifestName] = Absent
    <2>1. CASE name = manifestName
      BY <1>2, <2>1, ManifestNotUser, AbsentAssumption DEF Contents
    <2>2. CASE name # manifestName
      BY <1>2, <2>2 DEF Names
    <2> QED
      BY <2>1, <2>2
  <1>6. ASSUME NEW m \in Manifests, Truthful(m) PROVE TruthfulAfter(m)
    <2>1. \A f \in DOMAIN m.files : f \in Names
      BY ManifestFiles, ShippedFiles, FileNames
    <2> QED
      BY <1>2, <1>6, <2>1 DEF Truthful, TruthfulAfter
  <1>7. NoMixture'
    <2>1. entries[manifestName] \in Manifests \cup {Absent}
      BY WorldFacts DEF Contents, Names
    <2> QED
      BY <1>1, <1>5, <1>6, <2>1 DEF NoMixture, Truthful, TruthfulAfter
  <1>8. ASSUME NEW c \in Callers PROVE Lone(c)'
    <2>1. Lone(c)
      BY Parts
    <2>2. CallOK(c)' /\ CallLegal(c)' /\ WriteLegal(c)'
      BY <2>1 DEF Lone, CallOK, CallLegal, WriteLegal, Want
    <2>3. FilesInPlace(c)'
      <3>1. \A g \in Names : \A v : Settled(g, v) => Settled(g, v)'
        BY <1>2 DEF Settled
      <3>2. \A g : InHand(c, g)' <=> InHand(c, g)
        BY DEF InHand
      <3>3. CASE lock = c
        <4>1. IsCall(held[c]) /\ CallLegal(c) /\ FilesInPlace(c) /\ pc[c] # "idle"
          BY <2>1, <3>3 DEF Lone, CallOK
        <4>2. /\ \A f \in DOMAIN held[c].plan : f \in Names
              /\ held[c].target \in Names
          BY <4>1, CallFields, FileNames
        <4>3. held[c].op = "install" => \A f \in Ships[held[c].version] : f \in Names
          BY <4>1, ShippedFiles, FileNames DEF CallLegal
        <4>4. pc[c] = "judge" => Settled(held[c].target, Absent)'
          BY <1>2, <3>3, <4>1, <4>2 DEF FilesInPlace, Settled
        <4>5. pc[c] = "discard" => Settled(held[c].target, held[c].data)'
          BY <1>2, <3>3, <4>1, <4>2 DEF FilesInPlace, Settled
        <4> QED
          BY <3>1, <3>2, <4>1, <4>2, <4>3, <4>4, <4>5 DEF FilesInPlace
      <3>4. CASE lock # c
        BY <3>4 DEF FilesInPlace
      <3> QED
        BY <3>3, <3>4
    <2>4. ManifestOpen(c)'
      <3>1. pc[c] = "judge" /\ held[c].target = manifestName =>
                held[c].detached = Absent \/ TruthfulAfter(held[c].detached)
        <4>1. pc[c] = "judge" /\ held[c].target = manifestName => held[c].detached \in Manifests \cup {Absent}
          BY <2>1 DEF Lone, WriteLegal, Contents
        <4> QED
          BY <1>6, <2>1, <4>1 DEF Lone, ManifestOpen
      <3> QED
        BY <1>5, <2>1, <3>1 DEF Lone, ManifestOpen, InHand, Truthful, TruthfulAfter
    <2> QED
      BY <2>2, <2>3, <2>4 DEF Lone
  <1> QED
    BY <1>3, <1>4, <1>7, <1>8, PartsAfter

LEMMA UserWritesStep == ASSUME Sound, NEW f \in Files, UserWrites(f) PROVE Sound'
  <1> DEFINE mine == [by |-> "user", of |-> edits + 1]
  <1>1. /\ edits < MaxEdits /\ edits' = edits + 1 /\ owed' = (owed \ {entries[f]}) \cup {mine}
        /\ entries' = [entries EXCEPT ![f] = mine] /\ touched' = TRUE
        /\ UNCHANGED <<aside, lock, pc, held, answer>>
    BY DEF UserWrites
  <1>2. edits \in 0 .. MaxEdits /\ MaxEdits \in Nat
    BY Parts, FilesAssumption DEF World
  <1>3. mine \in UserContents /\ edits' \in 0 .. MaxEdits
    BY <1>1, <1>2 DEF UserContents
  <1> HIDE DEF mine
  <1>4. f \in Names /\ mine \in Contents(f)
    BY <1>3, FileNames DEF Contents
  <1>5. owed' \subseteq (owed \ {entries[f]}) \cup ({mine} \cap UserContents)
    BY <1>1, <1>3
  <1> QED
    BY <1>1, <1>3, <1>4, <1>5, PersonStep

LEMMA UserRemovesStep == ASSUME Sound, NEW name \in Names, UserRemoves(name) PROVE Sound'
  <1>1. /\ edits < MaxEdits /\ edits' = edits + 1 /\ owed' = owed \ {entries[name]}
        /\ entries' = [entries EXCEPT ![name] = Absent] /\ touched' = TRUE
        /\ UNCHANGED <<aside, lock, pc, held, answer>>
    BY DEF UserRemoves
  <1>2. edits \in 0 .. MaxEdits /\ MaxEdits \in Nat
    BY Parts, FilesAssumption DEF World
  <1>3. edits' \in 0 .. MaxEdits /\ Absent \in Contents(name)
    BY <1>1, <1>2 DEF Contents
  <1> QED
    BY <1>1, <1>3, PersonStep

-----------------------------------------------------------------------------
(* The specification.                                                      *)

LEMMA InitLegal == Init => Sound
  <1> SUFFICES ASSUME Init PROVE Sound
    OBVIOUS
  <1>1. World
    <2>1. /\ DOMAIN entries = Names /\ \A name \in Names : entries[name] \in Contents(name)
          /\ aside \subseteq UserContents /\ owed \subseteq UserContents
      BY DEF Init, Contents
    <2>2. edits \in 0 .. MaxEdits /\ lock \in Callers \cup {None} /\ DOMAIN held = Callers
      BY FilesAssumption DEF Init
    <2>3. touched \in BOOLEAN
      BY Zenon DEF Init
    <2>4. /\ pc \in [Callers -> {"idle", "preflighted", "manifest", "file", "create", "detach", "judge", "discard"}]
          /\ answer \in [Callers -> {"idle", "unmanaged", "refused", "failed", "ok", "killed"}]
      BY DEF Init
    <2> QED
      BY <2>1, <2>2, <2>3, <2>4 DEF World
  <1>2. UserBytesKept /\ NoMixture
    BY DEF Init, UserBytesKept, NoMixture, Names
  <1>3. ASSUME NEW c \in Callers PROVE Lone(c)
    <2>1. pc[c] = "idle" /\ held[c] = NoCall /\ lock # c
      BY FilesAssumption DEF Init
    <2> QED
      BY <2>1, Nothing DEF Lone, CallOK, CallLegal, WriteLegal, FilesInPlace, ManifestOpen
  <1> QED
    BY <1>1, <1>2, <1>3, Parts

LEMMA StillLegal == ASSUME Sound, UNCHANGED vars PROVE Sound'
  <1>1. UNCHANGED <<entries, aside, lock, pc, held, answer, edits, owed, touched>>
    BY DEF vars, files, history
  <1>2. World /\ UserBytesKept /\ NoMixture /\ \A c \in Callers : Lone(c)
    BY Parts
  <1>3. World' /\ UserBytesKept' /\ NoMixture'
    BY <1>1, <1>2 DEF World, UserBytesKept, NoMixture, Truthful
  <1>4. ASSUME NEW c \in Callers PROVE Lone(c)'
    <2>1. Lone(c)
      BY <1>2
    <2>2. CallOK(c)' /\ CallLegal(c)' /\ WriteLegal(c)'
      BY <1>1, <2>1 DEF Lone, CallOK, CallLegal, WriteLegal, Want
    <2>3. FilesInPlace(c)'
      BY <1>1, <2>1 DEF Lone, FilesInPlace, Settled, InHand
    <2>4. ManifestOpen(c)'
      BY <1>1, <2>1 DEF Lone, ManifestOpen, Truthful, InHand
    <2> QED
      BY <2>2, <2>3, <2>4 DEF Lone
  <1> QED
    BY <1>3, <1>4, PartsAfter

LEMMA CallStep == ASSUME Sound, NEW c \in Callers, Step(c) PROVE Sound'
  <1>1. CASE \E v \in Versions, confirmed \in BOOLEAN : Begin(c, "install", v, confirmed)
    BY <1>1, BeginStep
  <1>2. CASE Begin(c, "uninstall", None, FALSE)
    BY <1>2, BeginStep
  <1>3. CASE \E v \in Versions : PreflightRefused(c, v)
    BY <1>3, PreflightRefusedStep
  <1>4. CASE Classify(c)
    BY <1>4, ClassifyStep
  <1>5. CASE GiveUp(c)
    BY <1>5, FailStep DEF GiveUp, Statuses
  <1>6. CASE WriteManifest(c)
    BY <1>6, WriteManifestStep
  <1>7. CASE \E f \in Files : SkipFile(c, f) \/ RemoveFile(c, f) \/ WriteFile(c, f)
    BY <1>7, SkipFileStep, RemoveFileStep, WriteFileStep
  <1>8. CASE Finish(c)
    BY <1>8, FinishStep
  <1>9. CASE LinkNew(c)
    BY <1>9, LinkNewStep
  <1>10. CASE Detach(c)
    BY <1>10, DetachStep
  <1>11. CASE Judge(c)
    BY <1>11, JudgeStep
  <1>12. CASE Discard(c)
    BY <1>12, DiscardStep
  <1>13. CASE Kill(c)
    BY <1>13, FailStep DEF Kill, Statuses
  <1> QED
    BY <1>1, <1>2, <1>3, <1>4, <1>5, <1>6, <1>7, <1>8, <1>9, <1>10, <1>11, <1>12, <1>13 DEF Step

LEMMA SoundStep == ASSUME Sound, [Next]_vars PROVE Sound'
  <1>1. CASE \E c \in Callers : Step(c)
    BY <1>1, CallStep
  <1>2. CASE \E f \in Files : UserWrites(f)
    BY <1>2, UserWritesStep
  <1>3. CASE \E name \in Names : UserRemoves(name)
    BY <1>3, UserRemovesStep
  <1>4. CASE UNCHANGED vars
    BY <1>4, StillLegal
  <1> QED
    BY <1>1, <1>2, <1>3, <1>4 DEF Next

(* Only the end of a call and the loss of the manifest make strays.        *)
LEMMA StraysStep == ASSUME strays \subseteq Files, [Next]_vars PROVE strays' \subseteq Files
  <1>1. Unrecorded' \subseteq Files
    BY DEF Unrecorded
  <1>2. ASSUME NEW c, NEW status, Return(c, status) PROVE strays' \subseteq Files
    BY <1>1, <1>2 DEF Return
  <1>3. ASSUME NEW c, NEW status, Fail(c, status) PROVE strays' \subseteq Files
    BY <1>2, <1>3 DEF Fail
  <1>4. ASSUME NEW c, NEW step, Goto(c, step) PROVE strays' \subseteq Files
    BY <1>4 DEF Goto
  <1>5. ASSUME NEW c, NEW target, NEW data, NEW expected, NEW memory, Write(c, target, data, expected, memory)
        PROVE  strays' \subseteq Files
    BY <1>4, <1>5 DEF Write
  <1>6. ASSUME NEW c, Done(c) PROVE strays' \subseteq Files
    BY <1>2, <1>4, <1>6 DEF Done
  <1>7. ASSUME NEW c \in Callers, Step(c) PROVE strays' \subseteq Files
    <2>1. ASSUME NEW op, NEW v, NEW confirmed, Begin(c, op, v, confirmed) PROVE strays' \subseteq Files
      BY <2>1 DEF Begin
    <2>2. ASSUME NEW v, PreflightRefused(c, v) PROVE strays' \subseteq Files
      BY <2>2 DEF PreflightRefused
    <2>3. CASE Classify(c)
      BY <1>2, <2>3 DEF Classify
    <2>4. CASE GiveUp(c) \/ Kill(c)
      BY <1>3, <2>4 DEF GiveUp, Kill
    <2>5. CASE WriteManifest(c)
      BY <1>3, <1>5, <2>5 DEF WriteManifest
    <2>6. ASSUME NEW f, SkipFile(c, f) \/ RemoveFile(c, f) \/ WriteFile(c, f) PROVE strays' \subseteq Files
      BY <1>3, <1>4, <1>5, <2>6 DEF SkipFile, RemoveFile, WriteFile
    <2>7. CASE Finish(c)
      BY <1>2, <1>3, <1>4, <1>5, <2>7 DEF Finish
    <2>8. CASE LinkNew(c) \/ Detach(c) \/ Discard(c)
      BY <1>3, <1>4, <1>6, <2>8 DEF LinkNew, Detach, Discard
    <2>9. CASE Judge(c)
      BY <1>2, <1>3, <1>4, <1>6, <2>9 DEF Judge
    <2> QED
      BY <1>7, <2>1, <2>2, <2>3, <2>4, <2>5, <2>6, <2>7, <2>8, <2>9 DEF Step
  <1>8. ASSUME NEW f, UserWrites(f) PROVE strays' \subseteq Files
    BY <1>8 DEF UserWrites
  <1>9. ASSUME NEW name, UserRemoves(name) PROVE strays' \subseteq Files
    BY <1>1, <1>9 DEF UserRemoves
  <1> QED
    BY <1>7, <1>8, <1>9 DEF Next, vars

(* Whatever installs and uninstalls of any releases run, are killed, fail  *)
(* or give up, and whatever the person does to the directory meanwhile:    *)
(* no bytes of theirs are destroyed but those a confirmed install saw      *)
(* under that name, and no file that a complete manifest records is of     *)
(* another release.  What it does not record is NothingLost's matter.      *)
THEOREM SkillSafe == Spec => []SkillInv
  <1>1. Init => SkillInv
    BY InitLegal, Whole DEF Init
  <1>2. SkillInv /\ [Next]_vars => SkillInv'
    <2>1. SkillInv' <=> Sound' /\ strays' \subseteq Files
      BY DEF SkillInv, Sound, TypeOK, World, Lone
    <2> QED
      BY <2>1, Whole, SoundStep, StraysStep
  <1> QED
    BY <1>1, <1>2, PTL DEF Spec

-----------------------------------------------------------------------------
(* Files that no manifest records.                                         *)

(* The file is there and is not the person's.                              *)
Ours(f) == entries[f] \notin {Absent} \cup UserContents

(* The call has the file, or will exchange or remove it.                   *)
Has(call, f) ==
    call.op = "install" /\ f \in Ships[call.version] /\ entries[f] = Shipped(call.version, f)

Doubtful(call, f) ==
    /\ f \in DOMAIN call.plan
    /\ \/ call.plan[f].status = "orphan"
       \/ call.plan[f].status = "stale" /\ f \in DOMAIN Want(call)

Pending(c) ==
    lock = c =>
        \A f \in Files \ strays :
            Ours(f) => \/ Has(held[c], f)
                       \/ Doubtful(held[c], f) /\ (f \in held[c].todo \/ InHand(c, f))

(* The last manifest of a call is in place and its predecessor is thrown   *)
(* away.                                                                   *)
Final(c) == pc[c] = "discard" /\ held[c].done => Unrecorded \subseteq strays

Remembered == NothingForgotten /\ \A c \in Callers : Pending(c) /\ Final(c)

LEMMA UnrecordedFiles ==
    ASSUME NEW f
    PROVE  f \in Unrecorded <=>
              /\ f \in Files /\ Ours(f)
              /\ f \in DOMAIN Hashes(entries[manifestName]) => entries[f] # Hashes(entries[manifestName])[f]
  BY DEF Unrecorded, Ours

LEMMA UnrecordedSame == ASSUME entries' = entries PROVE Unrecorded' = Unrecorded
  BY DEF Unrecorded, Hashes

LEMMA UnrecordedShrinks ==
    ASSUME entries'[manifestName] = entries[manifestName],
           \A f \in Files : entries'[f] = entries[f] \/ entries'[f] \in {Absent} \cup UserContents
    PROVE  Unrecorded' \subseteq Unrecorded
  BY DEF Unrecorded, Hashes

(* A step that leaves the files, the lock and every call under the lock    *)
(* alone.                                                                  *)
LEMMA Quiet ==
    ASSUME Remembered, Sound', NEW c \in Callers, lock # c, UNCHANGED <<entries, strays, lock>>,
           \A d \in Callers \ {c} : held'[d] = held[d] /\ pc'[d] = pc[d]
    PROVE  Remembered'
  <1>1. Unrecorded' = Unrecorded
    BY UnrecordedSame
  <1>2. NothingForgotten'
    BY <1>1 DEF Remembered, NothingForgotten
  <1>3. ASSUME NEW d \in Callers \ {c} PROVE (Pending(d) /\ Final(d))'
    BY <1>1, <1>3 DEF Remembered, Pending, Final, Ours, Has, Doubtful, InHand, Want
  <1>4. pc'[c] # "discard"
    BY DEF Sound, Lone, CallOK
  <1>5. (Pending(c) /\ Final(c))'
    BY <1>4 DEF Pending, Final
  <1> QED
    BY <1>2, <1>3, <1>5 DEF Remembered

(* The call that holds the lock speaks for all.                            *)
LEMMA Holder ==
    ASSUME Sound', NEW c \in Callers, lock' \in {c, None}, NothingForgotten', Pending(c)', Final(c)'
    PROVE  Remembered'
  <1>1. ASSUME NEW d \in Callers \ {c} PROVE (Pending(d) /\ Final(d))'
    <2>1. lock' # d /\ pc'[d] # "discard"
      BY FilesAssumption DEF Sound, Lone, CallOK
    <2> QED
      BY <2>1 DEF Pending, Final
  <1> QED
    BY <1>1 DEF Remembered

(* A call under the lock is over: its strays are noted, or there are none. *)
LEMMA Over ==
    ASSUME Sound', NEW c \in Callers, lock = c, NEW status, Return(c, status),
           status # "ok" \/ Unrecorded' \subseteq strays
    PROVE  Remembered'
  <1>1. lock' = None /\ Unrecorded' \subseteq strays' /\ c # None
    BY FilesAssumption DEF Return
  <1>2. pc'[c] # "discard"
    BY <1>1 DEF Sound, Lone, CallOK
  <1>3. NothingForgotten' /\ Pending(c)' /\ Final(c)'
    BY <1>1, <1>2 DEF NothingForgotten, Pending, Final
  <1> QED
    BY <1>1, <1>3, Holder

LEMMA FailRemembers ==
    ASSUME Sound, Sound', Remembered, NEW c \in Callers, NEW status, status # "ok", Fail(c, status)
    PROVE  Remembered'
  <1>1. Return(c, status) /\ entries' = entries
    BY DEF Fail
  <1>2. CASE lock = c
    BY <1>1, <1>2, Over
  <1>3. CASE lock # c
    <2>1. /\ UNCHANGED <<entries, strays, lock>>
          /\ \A d \in Callers \ {c} : held'[d] = held[d] /\ pc'[d] = pc[d]
      BY <1>1, <1>3, Parts DEF Return, Keep, World
    <2> QED
      BY <1>3, <2>1, Quiet
  <1> QED
    BY <1>2, <1>3

(* The call goes on under the lock and no file has changed.                *)
LEMMA GoesOn ==
    ASSUME Sound, Sound', Remembered, NEW c \in Callers, NEW memory, NEW step, lock = c,
           Keep(c, memory), pc' = [pc EXCEPT ![c] = step], UNCHANGED <<entries, strays, lock>>,
           step # "discard", SameCall(memory, held[c]), memory.plan = held[c].plan,
           \A f \in Files : Ours(f) /\ Doubtful(held[c], f) /\ (f \in held[c].todo \/ InHand(c, f))
                               => f \in memory.todo \/ (step \in {"create", "detach"} /\ memory.target = f)
    PROVE  Remembered'
  <1>1. held'[c] = memory /\ pc'[c] = step
    BY Parts DEF Keep, World
  <1>2. NothingForgotten'
    BY UnrecordedSame DEF Remembered, NothingForgotten
  <1>3. Pending(c)'
    <2> SUFFICES ASSUME NEW f \in Files \ strays, Ours(f)
                 PROVE  (Has(held[c], f) \/ (Doubtful(held[c], f) /\ (f \in held[c].todo \/ InHand(c, f))))'
      BY DEF Pending, Ours
    <2>1. Want(memory) = Want(held[c])
      BY DEF Want, SameCall
    <2>2. Has(held[c], f) => Has(held[c], f)'
      BY <1>1 DEF Has, SameCall
    <2>3. Doubtful(held[c], f) => Doubtful(held[c], f)'
      BY <1>1, <2>1 DEF Doubtful
    <2>4. f \in memory.todo \/ (step \in {"create", "detach"} /\ memory.target = f)
             => (f \in held[c].todo \/ InHand(c, f))'
      BY <1>1 DEF InHand
    <2>5. Has(held[c], f) \/ (Doubtful(held[c], f) /\ (f \in held[c].todo \/ InHand(c, f)))
      BY DEF Remembered, Pending
    <2> QED
      BY <2>2, <2>3, <2>4, <2>5
  <1>4. Final(c)'
    BY <1>1 DEF Final
  <1> QED
    BY <1>2, <1>3, <1>4, Holder

LEMMA WriteRemembers ==
    ASSUME Sound, Sound', Remembered, NEW c \in Callers, lock = c, pc[c] \in {"manifest", "file"},
           NEW target, NEW data, NEW expected, NEW memory, Write(c, target, data, expected, memory),
           SameCall(memory, held[c]), memory.plan = held[c].plan, held[c].todo \ memory.todo \subseteq {target},
           IsCall(memory), target \in Names, data \in Everything, expected \in Everything
    PROVE  Remembered'
  <1> DEFINE n == Aimed(memory, target, data, expected)
             step == IF expected = Absent THEN "create" ELSE "detach"
  <1>1. Keep(c, n) /\ pc' = [pc EXCEPT ![c] = step] /\ UNCHANGED <<entries, strays, lock>>
    BY DEF Write, Aimed, Goto, files
  <1>2. SameCall(n, memory) /\ n.plan = memory.plan /\ n.todo = memory.todo /\ n.target = target
    BY AimMemory
  <1>3. \A f : ~InHand(c, f)
    BY DEF InHand
  <1> HIDE DEF n
  <1>4. SameCall(n, held[c])
    BY <1>2 DEF SameCall
  <1>5. step \in {"create", "detach"} /\ step # "discard"
    OBVIOUS
  <1> HIDE DEF step
  <1> QED
    BY <1>1, <1>2, <1>3, <1>4, <1>5, GoesOn

LEMMA ClassifyRemembers ==
    ASSUME Sound, Sound', Remembered, NEW c \in Callers, Classify(c)
    PROVE  Remembered'
  <1> DEFINE call == held[c]
             plan == Classified(Want(call))
             recorded == Hashes(entries[manifestName])
             memory == Planned(call, plan, entries[manifestName])
             step == IF call.op = "install" THEN "manifest" ELSE "file"
  <1>1. pc[c] = "preflighted" /\ lock = None /\ entries' = entries /\ c # None
    BY FilesAssumption DEF Classify, files
  <1>2. CASE Return(c, "unmanaged")
    <2>1. /\ UNCHANGED <<strays, lock>> /\ lock # c
          /\ \A d \in Callers \ {c} : held'[d] = held[d] /\ pc'[d] = pc[d]
      BY <1>1, <1>2, Parts DEF Return, Keep, World
    <2> QED
      BY <1>1, <2>1, Quiet
  <1>3. CASE lock' = c /\ pc' = [pc EXCEPT ![c] = step] /\ Keep(c, memory) /\ UNCHANGED strays
    <2>1. pc'[c] = step /\ held'[c] = memory
      BY <1>3, Parts DEF Keep, World
    <2>2. IsCall(call) /\ (call.op = "install" => call.version \in Versions)
      BY <1>1, Parts DEF Lone, CallOK, CallLegal
    <2>3. /\ DOMAIN Want(call) = IF call.op = "install" THEN Ships[call.version] ELSE {}
          /\ \A f \in DOMAIN Want(call) : Want(call)[f] = Shipped(call.version, f)
      BY <2>2, WantFiles
    <2>4. Unrecorded \subseteq strays
      BY <1>1 DEF Remembered, NothingForgotten
    <2>5. NothingForgotten'
      BY <1>1, <1>3, <2>4, UnrecordedSame DEF NothingForgotten
    <2>6. memory.op = call.op /\ memory.version = call.version /\ memory.plan = plan /\ memory.todo = DOMAIN plan
      BY <2>2 DEF Planned, IsCall
    <2>7. ASSUME NEW f \in Files \ strays, Ours(f) PROVE Has(call, f) \/ Doubtful(memory, f)
      <3>1. f \in DOMAIN recorded /\ entries[f] = recorded[f] /\ entries[f] # Absent
        BY <2>4, <2>7, UnrecordedFiles DEF Ours
      <3>2. /\ f \in DOMAIN plan /\ plan[f].status = StatusOf(recorded, Want(call), f)
        BY <3>1 DEF Classified
      <3> HIDE DEF recorded, plan, memory
      <3>3. CASE f \notin DOMAIN Want(call)
        BY <2>6, <3>1, <3>2, <3>3 DEF StatusOf, Doubtful
      <3>4. CASE f \in DOMAIN Want(call) /\ entries[f] # Want(call)[f]
        BY <2>6, <3>1, <3>2, <3>4 DEF StatusOf, Doubtful, Want
      <3>5. CASE f \in DOMAIN Want(call) /\ entries[f] = Want(call)[f]
        BY <2>3, <3>5 DEF Has
      <3> QED
        BY <3>3, <3>4, <3>5
    <2> HIDE DEF call, plan, memory
    <2>8. Pending(c)'
      <3> SUFFICES ASSUME NEW f \in Files \ strays, Ours(f)
                   PROVE  Has(memory, f) \/ (Doubtful(memory, f) /\ f \in memory.todo)
        BY <1>1, <1>3, <2>1 DEF Pending, Ours, Has, Doubtful, Want
      <3> QED
        BY <2>6, <2>7 DEF Has, Doubtful
    <2>9. Final(c)'
      BY <2>1 DEF Final
    <2> QED
      BY <1>3, <2>5, <2>8, <2>9, Holder
  <1> QED
    BY <1>2, <1>3 DEF Classify, Planned

LEMMA WriteManifestRemembers ==
    ASSUME Sound, Sound', Remembered, NEW c \in Callers, WriteManifest(c)
    PROVE  Remembered'
  <1> DEFINE call == held[c]
             old  == entries[manifestName]
             data == Manifest(call.version, call.done)
             memory == Noted(call, old)
  <1>1. pc[c] = "manifest" /\ lock = c
    BY DEF WriteManifest, At
  <1>2. CASE Fail(c, "failed")
    BY <1>2, FailRemembers
  <1>3. CASE Write(c, manifestName, data, old, memory)
    <2>1. IsCall(call) /\ call.version \in Versions /\ call.done \in BOOLEAN
      BY <1>1, Parts DEF Lone, CallOK, CallLegal, IsCall
    <2>2. old \in Manifests \cup {Absent} /\ manifestName \in Names
      BY WorldFacts DEF Contents, Names
    <2>3. data \in Everything /\ old \in Everything
      BY <2>1, <2>2, ManifestShape DEF Everything, Contents
    <2>4. /\ IsCall(memory) /\ SameCall(memory, call) /\ memory.plan = call.plan /\ memory.todo = call.todo
      BY <2>1, <2>2, NoteMemory
    <2>5. call.todo \ memory.todo \subseteq {manifestName}
      BY <2>4
    <2> HIDE DEF memory, data, old
    <2> QED
      BY <1>1, <1>3, <2>2, <2>3, <2>4, <2>5, WriteRemembers
  <1> QED
    BY <1>2, <1>3 DEF WriteManifest, Noted

LEMMA FileRemembers ==
    ASSUME Sound, Sound', Remembered, NEW c \in Callers, NEW f,
           SkipFile(c, f) \/ RemoveFile(c, f) \/ WriteFile(c, f)
    PROVE  Remembered'
  <1> DEFINE call == held[c]
             memory == Rested(call, f)
  <1>1. pc[c] = "file" /\ Pick(c, f)
    BY DEF SkipFile, RemoveFile, WriteFile, At
  <1>2. /\ lock = c /\ Lone(c) /\ IsCall(call) /\ IsCall(memory) /\ f \in DOMAIN call.plan /\ f \in Names
        /\ call.plan[f] \in Entries /\ (call.op = "install" => call.version \in Versions)
        /\ SameCall(memory, call) /\ memory.plan = call.plan /\ memory.todo = call.todo \ {f}
    BY <1>1, Picked
  <1> HIDE DEF memory
  <1>3. CASE SkipFile(c, f)
    <2>1. /\ Keep(c, memory) /\ pc' = [pc EXCEPT ![c] = "file"] /\ UNCHANGED <<entries, strays, lock>>
          /\ ~Doubtful(call, f)
      BY <1>3 DEF SkipFile, Rest, Rested, memory, Goto, files, Untouched, Doubtful
    <2>2. \A g : ~InHand(c, g)
      BY <1>1 DEF InHand
    <2>3. \A g \in Files : Ours(g) /\ Doubtful(call, g) /\ (g \in call.todo \/ InHand(c, g)) => g \in memory.todo
      BY <1>2, <2>1, <2>2
    <2> QED
      BY <1>2, <2>1, <2>3, GoesOn
  <1>4. CASE Fail(c, "failed")
    BY <1>4, FailRemembers
  <1>5. ASSUME NEW data, NEW expected, data \in Everything, expected \in Everything,
               Write(c, f, data, expected, memory)
        PROVE  Remembered'
    BY <1>1, <1>2, <1>5, WriteRemembers
  <1>6. CASE RemoveFile(c, f) /\ ~Fail(c, "failed")
    <2>1. f \in DOMAIN call.recorded /\ Write(c, f, Absent, call.recorded[f], memory)
      BY <1>6 DEF RemoveFile, Rest, Rested, memory
    <2>2. call.recorded \in {Hashes(m) : m \in Manifests \cup {Absent}}
      BY <1>2, CallFields
    <2>3. call.recorded[f] \in Everything /\ Absent \in Everything
      BY <1>2, <2>1, <2>2, HashesKnown DEF Everything, Contents
    <2> QED
      BY <1>5, <2>1, <2>3
  <1>7. CASE WriteFile(c, f) /\ ~Fail(c, "failed")
    <2>1. /\ Write(c, f, Want(call)[f], call.plan[f].observed, memory)
          /\ f \in DOMAIN Want(call)
      BY <1>7 DEF WriteFile, Rest, Rested, memory, Untouched
    <2>2. Want(call)[f] \in Everything
      BY <1>2, <2>1, WantFiles
    <2>3. call.plan[f].observed \in Everything
      BY <1>2 DEF Entries
    <2> QED
      BY <1>5, <2>1, <2>2, <2>3
  <1> QED
    BY <1>3, <1>4, <1>6, <1>7

(* When the files are done and none is in hand, an uninstall has left none *)
(* and an install only those of its release.                               *)
LEMMA NothingOpen ==
    ASSUME Sound, Remembered, NEW c \in Callers, lock = c, held[c].todo = {},
           \A f \in Files : ~InHand(c, f), NEW f \in Files \ strays, Ours(f)
    PROVE  Has(held[c], f)
  BY DEF Remembered, Pending

LEMMA NothingLeft ==
    ASSUME Sound, Remembered, NEW c \in Callers, lock = c, held[c].todo = {},
           \A f \in Files : ~InHand(c, f), held[c].op # "install"
    PROVE  Unrecorded \subseteq strays
  BY NothingOpen, UnrecordedFiles DEF Has, Unrecorded

LEMMA FinishRemembers ==
    ASSUME Sound, Sound', Remembered, NEW c \in Callers, Finish(c)
    PROVE  Remembered'
  <1> DEFINE call == held[c]
             old  == entries[manifestName]
             n    == Ended(call)
  <1>1. pc[c] = "file" /\ lock = c /\ call.todo = {} /\ c # None
    BY FilesAssumption DEF Finish, At
  <1>2. IsCall(call)
    BY <1>1, Parts DEF Lone, CallOK
  <1>3. IsCall(n) /\ SameCall(n, call) /\ n.plan = call.plan /\ n.todo = call.todo
    BY <1>2, EndMemory
  <1>4. \A f : ~InHand(c, f)
    BY <1>1 DEF InHand
  <1> HIDE DEF n
  <1>5. CASE Fail(c, "failed")
    BY <1>5, FailRemembers
  <1>6. CASE Keep(c, n) /\ Goto(c, "manifest") /\ UNCHANGED <<files, history>>
    <2>1. pc' = [pc EXCEPT ![c] = "manifest"] /\ UNCHANGED <<entries, strays, lock>>
      BY <1>6 DEF Goto, files
    <2> QED
      BY <1>1, <1>3, <1>4, <1>6, <2>1, GoesOn
  <1>7. CASE Write(c, manifestName, Absent, old, n)
    <2>1. manifestName \in Names /\ old \in Everything /\ Absent \in Everything
      BY WorldFacts DEF Everything, Contents, Names
    <2> HIDE DEF old
    <2> QED
      BY <1>1, <1>3, <1>7, <2>1, WriteRemembers
  <1>8. CASE call.op = "uninstall" /\ UNCHANGED <<files, history>> /\ Return(c, "ok")
    <2>1. Unrecorded \subseteq strays
      BY <1>1, <1>4, <1>8, NothingLeft
    <2>2. Unrecorded' = Unrecorded
      BY <1>8, UnrecordedSame DEF files
    <2> QED
      BY <1>1, <1>8, <2>1, <2>2, Over
  <1> QED
    BY <1>5, <1>6, <1>7, <1>8 DEF Finish, n, Ended

(* What a link leaves to do.                                               *)
LEMMA LinkRemembers ==
    ASSUME Sound, Remembered, NEW c \in Callers, pc[c] \in {"create", "judge"},
           held[c].data # Absent, Linked(c, held[c].data)
    PROVE  /\ lock = c
           /\ held[c].done => Unrecorded' \subseteq strays
           /\ ~held[c].done => entries'[manifestName] = Absent \/ ~entries'[manifestName].complete
           /\ \A f \in Files \ strays : Ours(f)' =>
                 \/ held[c].op = "install" /\ f \in Ships[held[c].version] /\ entries'[f] = Shipped(held[c].version, f)
                 \/ Doubtful(held[c], f) /\ f \in held[c].todo
  <1> DEFINE call == held[c]
             v    == call.version
             target == call.target
  <1>1. /\ lock = c /\ call.done \in BOOLEAN /\ target \in Names
        /\ (call.op = "install" /\ v \in Versions) \/ call.op = "uninstall"
        /\ CallLegal(c) /\ WriteLegal(c)
        /\ DOMAIN Want(call) = IF call.op = "install" THEN Ships[v] ELSE {}
        /\ \A f \in DOMAIN Want(call) : Want(call)[f] = Shipped(v, f)
    BY Working
  <1>2. call.op = "install" /\ v \in Versions
    BY <1>1 DEF WriteLegal
  <1>3. /\ entries'[target] = call.data
        /\ \A name \in Names \ {target} : entries'[name] = entries[name]
        /\ ~call.done => entries'[manifestName] = Absent \/ ~entries'[manifestName].complete
    BY <1>2, LinkTruth
  <1>4. ASSUME NEW f \in Files \ strays, Ours(f)'
        PROVE  \/ f \in Ships[v] /\ entries'[f] = Shipped(v, f)
               \/ Doubtful(call, f) /\ f \in call.todo
    <2>1. f \in Names /\ f # manifestName
      BY FileNames
    <2>2. CASE f = target
      BY <1>1, <1>2, <1>3, <2>1, <2>2 DEF WriteLegal
    <2>3. CASE f # target
      <3>1. entries'[f] = entries[f] /\ Ours(f) /\ ~InHand(c, f)
        BY <1>3, <1>4, <2>1, <2>3 DEF Ours, InHand
      <3> QED
        BY <1>1, <3>1 DEF Remembered, Pending, Has
    <2> QED
      BY <2>2, <2>3
  <1>5. ASSUME call.done, NEW f \in Unrecorded' PROVE f \in strays
    <2>1. target = manifestName /\ call.todo = {}
      BY <1>1, <1>5 DEF WriteLegal, CallLegal
    <2>2. call.data = Manifest(v, call.done)
      BY <1>1, <1>2, <2>1 DEF WriteLegal
    <2>3. Hashes(entries'[manifestName]) = Payload(v)
      BY <1>1, <1>2, <1>3, <2>1, <2>2, ManifestShape DEF Hashes, Manifest
    <2>4. f \in Files /\ Ours(f)' /\ (f \in DOMAIN Payload(v) => entries'[f] # Payload(v)[f])
      BY <1>5, <2>3 DEF Unrecorded, Ours, Hashes
    <2> QED
      BY <1>4, <2>1, <2>4 DEF Payload
  <1> QED
    BY <1>1, <1>2, <1>3, <1>4, <1>5

LEMMA LinkNewRemembers ==
    ASSUME Sound, Sound', Remembered, NEW c \in Callers, LinkNew(c)
    PROVE  Remembered'
  <1> DEFINE call == held[c]
             n    == Holding(call, Absent)
  <1>1. pc[c] = "create"
    BY DEF LinkNew, At
  <1>2. CASE Fail(c, "failed")
    BY <1>2, FailRemembers
  <1>3. CASE Linked(c, call.data) /\ Done(c)
    <2>1. call.data # Absent /\ IsCall(call)
      BY <1>1, Working DEF WriteLegal
    <2>2. /\ lock = c /\ (call.done => Unrecorded' \subseteq strays)
          /\ ~call.done => entries'[manifestName] = Absent \/ ~entries'[manifestName].complete
          /\ \A f \in Files \ strays : Ours(f)' =>
                 \/ call.op = "install" /\ f \in Ships[call.version] /\ entries'[f] = Shipped(call.version, f)
                 \/ Doubtful(call, f) /\ f \in call.todo
      BY <1>1, <1>3, <2>1, LinkRemembers
    <2>3. CASE call.done
      <3>1. Return(c, "ok")
        BY <1>3, <2>3 DEF Done
      <3> QED
        BY <2>2, <2>3, <3>1, Over
    <2>4. CASE ~call.done
      <3>1. Keep(c, n) /\ Goto(c, "file")
        BY <1>3, <2>4 DEF Done, Holding
      <3>2. SameCall(n, call) /\ n.plan = call.plan /\ n.todo = call.todo
        BY <2>1, HoldMemory DEF Everything, Contents, Names
      <3> HIDE DEF n
      <3>3. held'[c] = n /\ pc'[c] = "file" /\ UNCHANGED <<lock, strays>>
        BY <3>1, Parts DEF Keep, Goto, World
      <3>4. NothingForgotten'
        BY <2>2, <2>4, <3>3, FilesAssumption DEF NothingForgotten
      <3>5. Pending(c)' /\ Final(c)'
        BY <2>2, <3>2, <3>3 DEF Pending, Final, Has, Doubtful, SameCall, Want
      <3> QED
        BY <2>2, <3>3, <3>4, <3>5, Holder
    <2> QED
      BY <2>3, <2>4
  <1> QED
    BY <1>2, <1>3 DEF LinkNew

LEMMA DetachRemembers ==
    ASSUME Sound, Sound', Remembered, NEW c \in Callers, Detach(c)
    PROVE  Remembered'
  <1> DEFINE call   == held[c]
             target == call.target
             n      == Holding(call, entries[target])
  <1>1. pc[c] = "detach"
    BY DEF Detach, At
  <1>2. CASE Fail(c, "failed")
    BY <1>2, FailRemembers
  <1>3. CASE /\ Keep(c, n) /\ entries' = [entries EXCEPT ![target] = Absent] /\ Goto(c, "judge")
    <2>1. lock = c /\ IsCall(call) /\ target \in Names /\ c # None
      BY <1>1, Working
    <2>2. entries[target] \in Everything
      BY <2>1, WorldFacts DEF Everything
    <2>3. SameCall(n, call) /\ n.plan = call.plan /\ n.todo = call.todo /\ n.target = target
      BY <2>1, <2>2, HoldMemory DEF SameAim
    <2> HIDE DEF n
    <2>4. held'[c] = n /\ pc'[c] = "judge" /\ UNCHANGED <<lock, strays>>
      BY <1>3, Parts DEF Keep, Goto, World
    <2>5. /\ entries'[target] = Absent
          /\ \A name \in Names \ {target} : entries'[name] = entries[name]
      BY <1>3, <2>1, WorldFacts
    <2>6. \A f \in Files : entries'[f] = entries[f] \/ entries'[f] \in {Absent} \cup UserContents
      BY <2>5, FileNames
    <2>7. NothingForgotten'
      <3> SUFFICES ASSUME entries'[manifestName] # Absent, entries'[manifestName].complete
                   PROVE  Unrecorded' \subseteq strays
        BY <2>1, <2>4 DEF NothingForgotten
      <3>1. entries'[manifestName] = entries[manifestName]
        BY <2>5 DEF Names
      <3>2. Unrecorded' \subseteq Unrecorded
        BY <2>6, <3>1, UnrecordedShrinks
      <3> QED
        BY <3>1, <3>2 DEF Remembered, NothingForgotten
    <2>8. Pending(c)'
      <3> SUFFICES ASSUME NEW f \in Files \ strays, Ours(f)'
                   PROVE  (Has(held[c], f) \/ (Doubtful(held[c], f) /\ (f \in held[c].todo \/ InHand(c, f))))'
        BY <2>4 DEF Pending
      <3>1. f # target /\ entries'[f] = entries[f] /\ Ours(f)
        BY <2>5, FileNames DEF Ours
      <3>2. ~InHand(c, f)
        BY <3>1 DEF InHand
      <3>3. Has(call, f) \/ (Doubtful(call, f) /\ f \in call.todo)
        BY <2>1, <3>1, <3>2 DEF Remembered, Pending
      <3> QED
        BY <2>3, <2>4, <3>1, <3>3 DEF Has, Doubtful, SameCall, Want
    <2>9. Final(c)'
      BY <2>4 DEF Final
    <2> QED
      BY <2>1, <2>4, <2>7, <2>8, <2>9, Holder
  <1> QED
    BY <1>2, <1>3 DEF Detach, Holding

(* A name was dealt with and no file changed.                              *)
LEMMA DoneRemembers ==
    ASSUME Sound, Sound', Remembered, NEW c \in Callers, pc[c] \in {"judge", "discard"}, Done(c),
           entries' = entries, held[c].done => Unrecorded \subseteq strays,
           pc[c] = "judge" => ~Ours(held[c].target)
    PROVE  Remembered'
  <1> DEFINE call == held[c]
             n    == Holding(call, Absent)
  <1>1. lock = c /\ IsCall(call)
    BY Working
  <1>2. CASE call.done
    <2>1. Return(c, "ok") /\ Unrecorded' \subseteq strays
      BY <1>2, UnrecordedSame DEF Done
    <2> QED
      BY <1>1, <2>1, Over
  <1>3. CASE ~call.done
    <2>1. Keep(c, n) /\ pc' = [pc EXCEPT ![c] = "file"] /\ UNCHANGED <<lock, strays>>
      BY <1>3 DEF Done, Goto, Holding
    <2>2. SameCall(n, call) /\ n.plan = call.plan /\ n.todo = call.todo
      BY <1>1, HoldMemory DEF Everything, Contents, Names
    <2> HIDE DEF n
    <2>3. \A f : Ours(f) => ~InHand(c, f)
      BY DEF InHand
    <2> QED
      BY <1>1, <2>1, <2>2, <2>3, GoesOn
  <1> QED
    BY <1>2, <1>3

LEMMA JudgeRemembers ==
    ASSUME Sound, Sound', Remembered, NEW c \in Callers, Judge(c)
    PROVE  Remembered'
  <1> DEFINE call == held[c]
  <1>1. pc[c] = "judge"
    BY DEF Judge, At
  <1>2. lock = c /\ WriteLegal(c) /\ FilesInPlace(c) /\ CallLegal(c)
    BY <1>1, Working
  <1>3. CASE /\ call.data # Absent /\ Linked(c, call.data)
             /\ Goto(c, "discard") /\ held' = held
    <2>1. /\ (call.done => Unrecorded' \subseteq strays)
          /\ ~call.done => entries'[manifestName] = Absent \/ ~entries'[manifestName].complete
          /\ \A f \in Files \ strays : Ours(f)' =>
                 \/ call.op = "install" /\ f \in Ships[call.version] /\ entries'[f] = Shipped(call.version, f)
                 \/ Doubtful(call, f) /\ f \in call.todo
      BY <1>1, <1>3, LinkRemembers
    <2>2. pc'[c] = "discard" /\ UNCHANGED <<lock, strays>>
      BY <1>3, Parts DEF Goto, World
    <2>3. NothingForgotten' /\ Final(c)'
      BY <1>2, <1>3, <2>1, <2>2, FilesAssumption DEF NothingForgotten, Final
    <2>4. Pending(c)'
      BY <1>3, <2>1, <2>2 DEF Pending, Has, Doubtful, Want
    <2> QED
      BY <1>2, <2>2, <2>3, <2>4, Holder
  <1>4. CASE Return(c, "failed")
    BY <1>2, <1>4, Over
  <1>5. CASE call.data = Absent /\ Done(c) /\ UNCHANGED <<files, history>>
    <2>1. ~Ours(call.target)
      BY <1>1, <1>2 DEF FilesInPlace, Settled, Ours
    <2>2. ASSUME call.done PROVE Unrecorded \subseteq strays
      <3>1. call.target = manifestName /\ call.todo = {}
        BY <1>1, <1>2, <2>2 DEF WriteLegal, CallLegal
      <3>2. call.op # "install"
        <4>1. CASE call.op = "install"
          <5>1. call.data = Manifest(call.version, call.done) /\ call.version \in Versions /\ call.done \in BOOLEAN
            BY <1>1, <1>2, <3>1, <4>1, Working DEF WriteLegal
          <5> QED
            BY <1>5, <5>1, ManifestShape
        <4> QED
          BY <4>1
      <3>3. \A f \in Files : ~InHand(c, f)
        BY <3>1, FileNames DEF InHand
      <3> QED
        BY <1>2, <3>1, <3>2, <3>3, NothingLeft
    <2> QED
      BY <1>1, <1>5, <2>1, <2>2, DoneRemembers DEF files
  <1>6. CASE Fail(c, "failed")
    BY <1>6, FailRemembers
  <1> QED
    BY <1>3, <1>4, <1>5, <1>6 DEF Judge

LEMMA DiscardRemembers ==
    ASSUME Sound, Sound', Remembered, NEW c \in Callers, Discard(c)
    PROVE  Remembered'
  <1>1. pc[c] = "discard"
    BY DEF Discard, At
  <1>2. CASE Fail(c, "failed")
    BY <1>2, FailRemembers
  <1>3. CASE Done(c) /\ entries' = entries
    <2>1. held[c].done => Unrecorded \subseteq strays
      BY <1>1 DEF Remembered, Final
    <2> QED
      BY <1>1, <1>3, <2>1, DoneRemembers
  <1> QED
    BY <1>2, <1>3 DEF Discard, files

(* The person takes a file away or gives it a content of theirs; without   *)
(* the manifest nothing is recorded.                                       *)
LEMMA PersonRemembers ==
    ASSUME Sound, Sound', Remembered, NEW name \in Names, NEW value,
           value \in {Absent} \cup UserContents, entries' = [entries EXCEPT ![name] = value],
           name = manifestName => value = Absent,
           strays' = IF name = manifestName THEN Unrecorded' ELSE strays,
           UNCHANGED <<lock, pc, held>>
    PROVE  Remembered'
  <1>1. /\ entries'[name] = value
        /\ \A other \in Names \ {name} : entries'[other] = entries[other]
    BY WorldFacts
  <1>2. \A f \in Files : entries'[f] = entries[f] \/ entries'[f] \in {Absent} \cup UserContents
    BY <1>1, FileNames
  <1>3. CASE name = manifestName
    <2>1. \A f \in Files : Ours(f)' => f \in strays'
      BY <1>1, <1>3 DEF Ours, Unrecorded, Hashes
    <2>2. NothingForgotten'
      BY <1>3 DEF NothingForgotten
    <2>3. ASSUME NEW c \in Callers PROVE (Pending(c) /\ Final(c))'
      BY <1>3, <2>1 DEF Pending, Final
    <2> QED
      BY <2>2, <2>3 DEF Remembered
  <1>4. CASE name # manifestName
    <2>1. entries'[manifestName] = entries[manifestName] /\ strays' = strays
      BY <1>1, <1>4 DEF Names
    <2>2. Unrecorded' \subseteq Unrecorded
      BY <1>2, <2>1, UnrecordedShrinks
    <2>3. NothingForgotten'
      BY <2>1, <2>2 DEF Remembered, NothingForgotten
    <2>4. ASSUME NEW c \in Callers PROVE Final(c)'
      BY <2>1, <2>2 DEF Remembered, Final
    <2>5. ASSUME NEW c \in Callers PROVE Pending(c)'
      <3>1. ASSUME NEW f \in Files, Ours(f)' PROVE Ours(f) /\ entries'[f] = entries[f]
        BY <1>2, <3>1 DEF Ours
      <3> QED
        BY <2>1, <3>1 DEF Remembered, Pending, Has, Doubtful, InHand, Want
    <2> QED
      BY <2>3, <2>4, <2>5 DEF Remembered
  <1> QED
    BY <1>3, <1>4

LEMMA InitRemembers == Init => Remembered
  <1> SUFFICES ASSUME Init PROVE Remembered
    OBVIOUS
  <1>1. Unrecorded = {}
    BY FileNames DEF Init, Unrecorded
  <1>2. NothingForgotten
    BY <1>1 DEF NothingForgotten
  <1>3. ASSUME NEW c \in Callers PROVE Pending(c) /\ Final(c)
    BY FilesAssumption DEF Init, Pending, Final
  <1> QED
    BY <1>2, <1>3 DEF Remembered

LEMMA CallRemembers ==
    ASSUME Sound, Sound', Remembered, NEW c \in Callers, Step(c)
    PROVE  Remembered'
  <1>1. ASSUME NEW op, NEW v, NEW confirmed, Begin(c, op, v, confirmed) PROVE Remembered'
    <2>1. /\ lock # c /\ UNCHANGED <<entries, strays, lock>>
          /\ \A d \in Callers \ {c} : held'[d] = held[d] /\ pc'[d] = pc[d]
      BY <1>1, Parts DEF Begin, Keep, files, World, Lone, CallOK
    <2> QED
      BY <2>1, Quiet
  <1>2. ASSUME NEW v, PreflightRefused(c, v) PROVE Remembered'
    <2>1. /\ lock # c /\ UNCHANGED <<entries, strays, lock>>
          /\ \A d \in Callers \ {c} : held'[d] = held[d] /\ pc'[d] = pc[d]
      BY <1>2, Parts DEF PreflightRefused, files, Lone, CallOK
    <2> QED
      BY <2>1, Quiet
  <1>3. CASE Classify(c)
    BY <1>3, ClassifyRemembers
  <1>4. CASE GiveUp(c) \/ Kill(c)
    BY <1>4, FailRemembers DEF GiveUp, Kill
  <1>5. CASE WriteManifest(c)
    BY <1>5, WriteManifestRemembers
  <1>6. CASE \E f \in Files : SkipFile(c, f) \/ RemoveFile(c, f) \/ WriteFile(c, f)
    BY <1>6, FileRemembers
  <1>7. CASE Finish(c)
    BY <1>7, FinishRemembers
  <1>8. CASE LinkNew(c)
    BY <1>8, LinkNewRemembers
  <1>9. CASE Detach(c)
    BY <1>9, DetachRemembers
  <1>10. CASE Judge(c)
    BY <1>10, JudgeRemembers
  <1>11. CASE Discard(c)
    BY <1>11, DiscardRemembers
  <1> QED
    BY <1>1, <1>2, <1>3, <1>4, <1>5, <1>6, <1>7, <1>8, <1>9, <1>10, <1>11 DEF Step

LEMMA RememberedStep ==
    ASSUME Sound, Sound', Remembered, [Next]_vars
    PROVE  Remembered'
  <1>1. CASE \E c \in Callers : Step(c)
    BY <1>1, CallRemembers
  <1>2. ASSUME NEW f \in Files, UserWrites(f) PROVE Remembered'
    <2> DEFINE mine == [by |-> "user", of |-> edits + 1]
    <2>1. /\ entries' = [entries EXCEPT ![f] = mine] /\ edits < MaxEdits
          /\ UNCHANGED <<lock, pc, held, strays>>
      BY <1>2 DEF UserWrites
    <2>2. mine \in UserContents
      BY <2>1, Parts, FilesAssumption DEF World, UserContents
    <2> HIDE DEF mine
    <2> QED
      BY <2>1, <2>2, FileNames, PersonRemembers
  <1>3. ASSUME NEW name \in Names, UserRemoves(name) PROVE Remembered'
    <2>1. /\ entries' = [entries EXCEPT ![name] = Absent]
          /\ strays' = IF name = manifestName THEN Unrecorded' ELSE strays
          /\ UNCHANGED <<lock, pc, held>>
      BY <1>3 DEF UserRemoves
    <2> QED
      BY <2>1, PersonRemembers
  <1>4. CASE UNCHANGED vars
    <2>1. UNCHANGED <<entries, lock, pc, held, strays>>
      BY <1>4 DEF vars, files
    <2> QED
      BY <2>1, UnrecordedSame DEF Remembered, NothingForgotten, Pending, Final, Ours, Has, Doubtful, InHand, Want
  <1> QED
    BY <1>1, <1>2, <1>3, <1>4 DEF Next

(* Whatever installs and uninstalls run and whatever the person does: only *)
(* an interrupted call, or the person's removal of the manifest, leaves a  *)
(* file of some release that the manifest in place does not record, once   *)
(* the lock is free or the manifest is complete.                           *)
THEOREM NothingLost == Spec => []NothingForgotten
  <1>1. SkillInv => Sound
    BY Whole
  <1>2. Sound /\ Sound' /\ Remembered /\ [Next]_vars => Remembered'
    BY RememberedStep
  <1>3. SkillInv' => Sound'
    BY DEF SkillInv, Sound, TypeOK, World, Lone
  <1>4. Remembered => NothingForgotten
    BY DEF Remembered
  <1> QED
    BY <1>1, <1>2, <1>3, <1>4, InitRemembers, SkillSafe, PTL DEF Spec

-----------------------------------------------------------------------------
(* A report of success.                                                    *)

(* What an install that reports success leaves behind.                     *)
Delivered(c) ==
    /\ entries'[manifestName] = Manifest(held[c].version, TRUE)
    /\ \A f \in Ships[held[c].version] : entries'[f] = Shipped(held[c].version, f)
    /\ strays' \subseteq strays

(* The files are settled when only the manifest is left.                   *)
LEMMA FilesDone ==
    ASSUME Sound, NEW c \in Callers, pc[c] \in {"create", "judge", "discard"}, ~touched,
           held[c].op = "install", held[c].done
    PROVE  /\ held[c].target = manifestName /\ held[c].data = Manifest(held[c].version, TRUE)
           /\ held[c].data # Absent
           /\ \A f \in Ships[held[c].version] : f \in Names /\ f # manifestName /\ entries[f] = Shipped(held[c].version, f)
  <1> DEFINE call == held[c]
             v    == call.version
  <1>1. /\ lock = c /\ IsCall(call) /\ v \in Versions /\ call.done \in BOOLEAN
        /\ CallLegal(c) /\ WriteLegal(c) /\ FilesInPlace(c)
    BY Working
  <1>2. call.target = manifestName
    BY <1>1 DEF WriteLegal
  <1>3. call.todo = {}
    BY <1>1 DEF CallLegal
  <1>4. call.data = Manifest(v, call.done)
    BY <1>1, <1>2 DEF WriteLegal
  <1>5. call.done = TRUE
    BY <1>1, Zenon
  <1>6. call.data = Manifest(v, TRUE) /\ call.data # Absent
    BY <1>1, <1>4, <1>5, ManifestShape
  <1>7. \A f \in Ships[v] : f \in Names /\ f # manifestName
    BY <1>1, ShippedFiles, FileNames
  <1>8. \A f \in Ships[v] : ~InHand(c, f)
    BY <1>2, <1>7 DEF InHand
  <1> QED
    BY <1>1, <1>2, <1>3, <1>6, <1>7, <1>8 DEF FilesInPlace, Settled

LEMMA DeliveredStep ==
    ASSUME Sound, [Next]_vars, NEW c \in Callers, held[c].op = "install",
           answer'[c] = "ok", answer[c] # "ok", ~touched
    PROVE  Delivered(c)
  <1>1. World
    BY Parts
  <1>2. PICK d \in Callers : Step(d)
    <2>1. ~UNCHANGED vars
      BY DEF vars
    <2>2. ~\E f \in Files : UserWrites(f)
      BY DEF UserWrites
    <2>3. ~\E name \in Names : UserRemoves(name)
      BY DEF UserRemoves
    <2> QED
      BY <2>1, <2>2, <2>3 DEF Next
  <1>3. ASSUME NEW e \in Callers, NEW status, answer' = [answer EXCEPT ![e] = status] PROVE e = c /\ status = "ok"
    BY <1>1, <1>3 DEF World
  <1>4. ASSUME NEW e \in Callers, NEW status, status # "ok", Fail(e, status) PROVE FALSE
    BY <1>3, <1>4 DEF Fail, Return
  <1>5. ASSUME NEW e \in Callers, NEW step, Goto(e, step) PROVE FALSE
    BY <1>5 DEF Goto
  <1>6. ASSUME NEW e \in Callers, Done(e) PROVE e = c /\ held[c].done /\ strays' \subseteq strays
    BY <1>3, <1>5, <1>6 DEF Done, Return
  <1>7. CASE LinkNew(d)
    <2>1. /\ pc[d] = "create" /\ Linked(d, held[d].data) /\ Done(d)
      BY <1>4, <1>7 DEF LinkNew, At
    <2>2. d = c /\ held[c].done /\ strays' \subseteq strays
      BY <1>6, <2>1
    <2>3. /\ held[c].target = manifestName /\ held[c].data = Manifest(held[c].version, TRUE)
          /\ \A f \in Ships[held[c].version] : f \in Names /\ f # manifestName /\ entries[f] = Shipped(held[c].version, f)
      BY <2>1, <2>2, FilesDone
    <2>4. entries' = [entries EXCEPT ![manifestName] = Manifest(held[c].version, TRUE)]
      BY <2>1, <2>2, <2>3 DEF Linked
    <2> QED
      BY <1>1, <2>2, <2>3, <2>4 DEF Delivered, World, Names
  <1>8. CASE Judge(d)
    <2>1. pc[d] = "judge" /\ held[d].data = Absent /\ Done(d)
      <3>1. pc[d] = "judge"
        BY <1>8 DEF Judge, At
      <3>2. ~Return(d, "failed") /\ ~Fail(d, "failed") /\ ~Goto(d, "discard")
        BY <1>3, <1>4, <1>5 DEF Return
      <3> QED
        BY <1>8, <3>1, <3>2 DEF Judge
    <2>2. d = c /\ held[c].done /\ strays' \subseteq strays
      BY <1>6, <2>1
    <2> QED
      BY <2>1, <2>2, FilesDone
  <1>9. CASE Discard(d)
    <2>1. /\ pc[d] = "discard" /\ Done(d) /\ entries' = entries
      BY <1>4, <1>9 DEF Discard, At, files
    <2>2. d = c /\ held[c].done /\ strays' \subseteq strays
      BY <1>6, <2>1
    <2>3. /\ held[c].target = manifestName /\ held[c].data = Manifest(held[c].version, TRUE)
          /\ \A f \in Ships[held[c].version] : entries[f] = Shipped(held[c].version, f)
      BY <2>1, <2>2, FilesDone
    <2>4. lock = c /\ FilesInPlace(c)
      BY <2>1, <2>2, Working
    <2>5. entries[manifestName] = Manifest(held[c].version, TRUE)
      BY <2>1, <2>2, <2>3, <2>4 DEF FilesInPlace, Settled
    <2> QED
      BY <2>1, <2>2, <2>3, <2>5 DEF Delivered
  <1>10. CASE Finish(d)
    <2>1. ~Fail(d, "failed") /\ ~Goto(d, "manifest") /\ ~Goto(d, "create") /\ ~Goto(d, "detach")
      BY <1>4, <1>5
    <2>2. held[d].op = "uninstall" /\ Return(d, "ok")
      BY <1>10, <2>1 DEF Finish, Write
    <2>3. d = c
      BY <1>3, <2>2 DEF Return
    <2> QED
      BY <2>2, <2>3
  <1>11. ASSUME NEW op, NEW v, NEW confirmed, Begin(d, op, v, confirmed) PROVE FALSE
    BY <1>3, <1>11 DEF Begin
  <1>12. ASSUME NEW v, PreflightRefused(d, v) PROVE FALSE
    BY <1>3, <1>12 DEF PreflightRefused
  <1>13. ~Classify(d)
    BY <1>3 DEF Classify, Return
  <1>14. ~GiveUp(d) /\ ~Kill(d)
    BY <1>4 DEF GiveUp, Kill
  <1>15. \A target, data, expected, memory : ~Write(d, target, data, expected, memory)
    BY <1>5 DEF Write
  <1>16. ~WriteManifest(d)
    BY <1>4, <1>15 DEF WriteManifest
  <1>17. ASSUME NEW f, SkipFile(d, f) \/ RemoveFile(d, f) \/ WriteFile(d, f) PROVE FALSE
    BY <1>4, <1>5, <1>15, <1>17 DEF SkipFile, RemoveFile, WriteFile
  <1>18. ~Detach(d)
    BY <1>4, <1>5 DEF Detach
  <1> QED
    BY <1>2, <1>7, <1>8, <1>9, <1>10, <1>11, <1>12, <1>13, <1>14, <1>16, <1>17, <1>18 DEF Step

(* An install that reports success has put its complete manifest and every *)
(* file of its release in place, and no other file of any release is left  *)
(* but strays of calls that were interrupted before, unless the person     *)
(* acted after it took the lock.                                           *)
THEOREM SuccessDelivers == Spec => InstallDelivers
  <1>1. ASSUME SkillInv, NothingForgotten', [Next]_vars
        PROVE  [ \A c \in Callers :
                    /\ held[c].op = "install" /\ answer'[c] = "ok" /\ answer[c] # "ok"
                    /\ ~touched
                    => /\ entries'[manifestName] = Manifest(held[c].version, TRUE)
                       /\ \A f \in Ships[held[c].version] :
                              entries'[f] = Shipped(held[c].version, f)
                       /\ \A f \in Files \ (Ships[held[c].version] \cup strays) :
                              entries'[f] \in {Absent} \cup UserContents ]_vars
    <2> SUFFICES ASSUME NEW c \in Callers, held[c].op = "install", answer'[c] = "ok", answer[c] # "ok", ~touched
                 PROVE  /\ Delivered(c)
                        /\ \A f \in Files \ (Ships[held[c].version] \cup strays) :
                               entries'[f] \in {Absent} \cup UserContents
      BY DEF Delivered
    <2> DEFINE v == held[c].version
    <2>1. Sound
      BY <1>1, Whole
    <2>2. Delivered(c)
      BY <1>1, <2>1, DeliveredStep
    <2>3. v \in Versions
      BY <2>1, Parts, Nothing DEF Lone, CallOK, CallLegal
    <2>4. /\ entries'[manifestName] # Absent /\ entries'[manifestName].complete
          /\ Hashes(entries'[manifestName]) = Payload(v)
      <3>1. entries'[manifestName] = Manifest(v, TRUE)
        BY <2>2 DEF Delivered
      <3>2. Manifest(v, TRUE) # Absent
        BY <2>3, ManifestShape
      <3>3. Manifest(v, TRUE).complete /\ Manifest(v, TRUE).files = Payload(v)
        BY DEF Manifest
      <3> QED
        BY <3>1, <3>2, <3>3 DEF Hashes
    <2>5. Unrecorded' \subseteq strays'
      BY <1>1, <2>4 DEF NothingForgotten
    <2>6. ASSUME NEW f \in Files, f \notin Ships[v], f \notin strays
          PROVE  entries'[f] \in {Absent} \cup UserContents
      <3>1. f \notin Unrecorded' /\ f \notin DOMAIN Payload(v)
        BY <2>2, <2>5, <2>6 DEF Delivered, Payload
      <3> QED
        BY <2>4, <3>1 DEF Unrecorded, Hashes
    <2> QED
      BY <2>2, <2>6
  <1> QED
    BY <1>1, SkillSafe, NothingLost, PTL DEF Spec, InstallDelivers
=============================================================================
