---------------------------- MODULE SkillInstall ----------------------------
(***************************************************************************)
(* The skill installer for one provider's root (internal/skills): Install  *)
(* and Uninstall of two releases of the program, the ownership manifest,   *)
(* and the person whose directory it is, who may write or remove any file  *)
(* at any time.                                                            *)
(*                                                                         *)
(* Calls exclude each other by the root's lock file; the person takes no   *)
(* lock.  writeFile and removeIfHashMatches first move the entry aside     *)
(* under a random name, then compare it.  A call may fail at any system    *)
(* call and may be killed at any step.  Nothing syncs the directory, so    *)
(* nothing is claimed about a power loss.                                  *)
(***************************************************************************)
EXTENDS Naturals

CONSTANTS
    Callers, None,
    Absent,     \* the content of a name that is free
    Files,      \* relative paths, in their order
    Versions,   \* releases
    Ships,      \* Ships[v]: the paths release v ships
    Rewrites,   \* Rewrites[v]: those whose bytes differ from other releases'
    MaxEdits    \* the person's actions

ASSUME FilesAssumption ==
    /\ Files \subseteq Nat \ {0} /\ MaxEdits \in Nat
    /\ {Ships, Rewrites} \subseteq [Versions -> SUBSET Files]
    /\ None \notin Callers \cup Versions /\ "user" \notin Versions

(* A path's bytes, by who wrote them.                                      *)
Shipped(v, f) == [by |-> IF f \in Rewrites[v] THEN v ELSE "all", of |-> f]

Payload(v) == [f \in Ships[v] |-> Shipped(v, f)]

UserContents == [by : {"user"}, of : 1 .. MaxEdits]

manifestName == 0

Names == Files \cup {manifestName}

Manifest(v, complete) == [complete |-> complete, files |-> Payload(v)]

Manifests == {Manifest(v, complete) : v \in Versions, complete \in BOOLEAN}

(* What a name may hold.                                                   *)
Contents(name) ==
    {Absent} \cup IF name = manifestName THEN Manifests
                  ELSE UserContents \cup {Shipped(v, name) : v \in Versions}

ASSUME AbsentAssumption ==
    /\ Absent \notin UserContents /\ Absent \notin Manifests
    /\ \A v \in Versions, f \in Files : Absent # Shipped(v, f)

VARIABLES entries,   \* what each name in the skill directory holds
          aside,     \* user bytes under a name a call moved them to
          lock, pc, held, answer,
          edits,     \* the person's actions so far
          owed,      \* history: user bytes nobody agreed to lose
          touched,   \* history: the person acted since a call took the lock
          strays     \* history: files that lost their record and were not removed

files == <<entries, aside>>
history == <<owed, touched>>
vars == <<files, lock, pc, held, answer, edits, history, strays>>

-----------------------------------------------------------------------------
(* The manifest's recorded hashes; no manifest records nothing.            *)
Hashes(m) == IF m = Absent THEN [f \in {} |-> Absent] ELSE m.files

(* Files with a release's bytes that the manifest in place does not record.*)
Unrecorded ==
    LET recorded == Hashes(entries[manifestName])
    IN  {f \in Files : /\ entries[f] \notin {Absent} \cup UserContents
                       /\ f \in DOMAIN recorded => entries[f] # recorded[f]}

StatusOf(recorded, want, f) ==
    LET disk == entries[f]
    IN  IF disk = Absent THEN "absent"
        ELSE IF f \notin DOMAIN recorded THEN "foreign"
        ELSE IF disk # recorded[f] THEN "modified"
        ELSE IF f \notin DOMAIN want THEN "orphan"
        ELSE IF disk # want[f] THEN "stale" ELSE "current"

(* Broken variant: what only the replaced manifest records is overlooked.  *)
ReleaseOnly(want) ==
    LET recorded == Hashes(entries[manifestName])
    IN  [f \in DOMAIN want |-> [status |-> StatusOf(recorded, want, f), observed |-> entries[f]]]

(* Each file of the release, and each recorded file that is still there.   *)
Classified(want) ==
    LET recorded == Hashes(entries[manifestName])
    IN  [f \in DOMAIN want \cup {g \in DOMAIN recorded : entries[g] # Absent}
            |-> [status |-> StatusOf(recorded, want, f), observed |-> entries[f]]]

(* A file the manifest does not vouch for needs the person's word, which   *)
(* the command line always has and a caller of the package may not have.   *)
refuseUnmanaged(plan, confirmed) ==
    ~confirmed /\ \E f \in DOMAIN plan : plan[f].status \in {"modified", "foreign"}

(* Uninstall wants nothing: what is recorded and unchanged is an orphan.   *)
Want(call) == IF call.op = "install" THEN Payload(call.version)
                                     ELSE [f \in {} |-> Absent]

-----------------------------------------------------------------------------
At(c, step) == pc[c] = step /\ lock = c

Goto(c, step) ==
    /\ pc' = [pc EXCEPT ![c] = step]
    /\ UNCHANGED <<lock, answer, edits, strays>>

Keep(c, memory) == held' = [held EXCEPT ![c] = memory]

NoCall == [op |-> "none", version |-> None, confirmed |-> FALSE,
           plan |-> [f \in {} |-> Absent], todo |-> {},
           recorded |-> [f \in {} |-> Absent], done |-> FALSE,
           target |-> manifestName, data |-> Absent, expected |-> Absent,
           detached |-> Absent]

(* The end of a call; what it moved aside and did not deal with stays.  Only*)
(* a call that fails or is killed under the lock may leave new strays.     *)
Return(c, status) ==
    /\ pc' = [pc EXCEPT ![c] = "idle"]
    /\ lock' = IF lock = c THEN None ELSE lock
    /\ answer' = [answer EXCEPT ![c] = status]
    /\ Keep(c, NoCall)
    /\ strays' = IF lock # c THEN strays
                 ELSE IF status = "ok" THEN strays \cap Unrecorded' ELSE Unrecorded'
    /\ UNCHANGED edits

LeftAside(c) == aside \cup ({held[c].detached} \cap UserContents)

Fail(c, status) ==
    /\ aside' = LeftAside(c)
    /\ UNCHANGED <<entries, history>>
    /\ Return(c, status)

-----------------------------------------------------------------------------
(* Preflight, without the lock.                                            *)
Begin(c, op, v, confirmed) ==
    LET call == [NoCall EXCEPT !.op = op, !.version = v, !.confirmed = confirmed]
        plan == Classified(Want(call))
    IN  /\ pc[c] = "idle"
        /\ Keep(c, call)
        /\ pc' = [pc EXCEPT ![c] = "preflighted"]
        /\ answer' = [answer EXCEPT ![c] = "idle"]
        /\ op = "install" => ~refuseUnmanaged(plan, confirmed)
        /\ op = "uninstall" => entries[manifestName] # Absent
        /\ UNCHANGED <<files, lock, edits, history, strays>>

PreflightRefused(c, v) ==
    /\ pc[c] = "idle"
    /\ refuseUnmanaged(Classified(Payload(v)), FALSE)
    /\ answer' = [answer EXCEPT ![c] = "unmanaged"]
    /\ UNCHANGED <<files, lock, pc, held, edits, history, strays>>

(* Under the lock everything is classified again.                          *)
Classify(c) ==
    LET call == held[c]
        plan == Classified(Want(call))
    IN  /\ pc[c] = "preflighted" /\ lock = None
        /\ touched' = FALSE
        /\ IF call.op = "install" /\ refuseUnmanaged(plan, call.confirmed)
           THEN Return(c, "unmanaged")
           ELSE /\ lock' = c
                /\ pc' = [pc EXCEPT ![c] =
                             IF call.op = "install" THEN "manifest" ELSE "file"]
                /\ Keep(c, [call EXCEPT !.plan = plan, !.todo = DOMAIN plan,
                                        !.recorded = Hashes(entries[manifestName])])
                /\ UNCHANGED <<answer, edits, strays>>
        /\ UNCHANGED <<files, owed>>

(* The lock's two seconds are over.                                        *)
GiveUp(c) == pc[c] = "preflighted" /\ Fail(c, "refused")

(* The steps that put data under a name: link where none may be, exchange  *)
(* where a known content must be, or remove it.                            *)
Write(c, target, data, expected, memory) ==
    /\ Keep(c, [memory EXCEPT !.target = target, !.data = data,
                              !.expected = expected, !.detached = Absent])
    /\ Goto(c, IF expected = Absent THEN "create" ELSE "detach")
    /\ UNCHANGED <<files, history>>

(* writeManifest reads the manifest it replaces; incomplete at first.      *)
WriteManifest(c) ==
    LET call == held[c]
        old  == entries[manifestName]
    IN  /\ At(c, "manifest")
        /\ \/ Fail(c, "failed")
           \/ Write(c, manifestName, Manifest(call.version, call.done), old,
                    [call EXCEPT !.recorded = IF call.done THEN @ ELSE Hashes(old)])

(* The next file in path order.                                            *)
Pick(c, f) == f \in held[c].todo /\ \A g \in held[c].todo : f <= g

(* Broken variant: a file that only the old release shipped is left.       *)
KeepsOrphans(c, f) ==
    held[c].plan[f].status = "current" \/ f \notin DOMAIN Want(held[c])

Untouched(c, f) ==
    \/ held[c].plan[f].status = "current"
    \/ /\ held[c].plan[f].status # "orphan"
       /\ f \notin DOMAIN Want(held[c])

Rest(c, f) == [held[c] EXCEPT !.todo = @ \ {f}]

SkipFile(c, f) ==
    /\ At(c, "file") /\ Pick(c, f) /\ Untouched(c, f)
    /\ Keep(c, Rest(c, f))
    /\ Goto(c, "file")
    /\ UNCHANGED <<files, history>>

(* An orphan goes if it is what the manifest records.                      *)
RemoveFile(c, f) ==
    /\ At(c, "file") /\ Pick(c, f) /\ held[c].plan[f].status = "orphan"
    /\ \/ Fail(c, "failed")
       \/ /\ f \in DOMAIN held[c].recorded
          /\ Write(c, f, Absent, held[c].recorded[f], Rest(c, f))

(* A shipped file is exchanged for what the plan saw under its name.       *)
WriteFile(c, f) ==
    /\ At(c, "file") /\ Pick(c, f)
    /\ ~Untouched(c, f) /\ held[c].plan[f].status # "orphan"
    /\ \/ Fail(c, "failed")
       \/ Write(c, f, Want(held[c])[f], held[c].plan[f].observed, Rest(c, f))

(* All files are done: the manifest completes the call, or goes with it.   *)
Finish(c) ==
    /\ At(c, "file") /\ held[c].todo = {}
    /\ \/ Fail(c, "failed")
       \/ /\ held[c].op = "install"
          /\ Keep(c, [held[c] EXCEPT !.done = TRUE])
          /\ Goto(c, "manifest")
          /\ UNCHANGED <<files, history>>
       \/ /\ held[c].op = "uninstall" /\ entries[manifestName] # Absent
          /\ Write(c, manifestName, Absent, entries[manifestName],
                   [held[c] EXCEPT !.done = TRUE])
       \/ /\ held[c].op = "uninstall" /\ entries[manifestName] = Absent
          /\ UNCHANGED <<files, history>>
          /\ Return(c, "ok")

-----------------------------------------------------------------------------
(* writeFile and removeIfHashMatches.                                      *)

(* The name is dealt with: on to the next file, or the call is over.       *)
Done(c) ==
    IF held[c].done
    THEN Return(c, "ok")
    ELSE /\ Keep(c, [held[c] EXCEPT !.detached = Absent])
         /\ Goto(c, "file")

(* link gives a free name its content and refuses a taken one.             *)
Linked(c, data) ==
    /\ entries[held[c].target] = Absent
    /\ entries' = [entries EXCEPT ![held[c].target] = data]

LinkNew(c) ==
    /\ At(c, "create")
    /\ \/ Fail(c, "failed")
       \/ Linked(c, held[c].data) /\ Done(c) /\ UNCHANGED <<aside, history>>

(* The entry under the name, whatever it is now, is moved aside.  A name   *)
(* that became free is an error in both functions.                         *)
Detach(c) ==
    LET target == held[c].target
    IN  /\ At(c, "detach")
        /\ \/ Fail(c, "failed")
           \/ /\ entries[target] # Absent
              /\ Keep(c, [held[c] EXCEPT !.detached = entries[target]])
              /\ entries' = [entries EXCEPT ![target] = Absent]
              /\ Goto(c, "judge")
              /\ UNCHANGED <<aside, history>>

(* Broken variant: whatever was moved aside counts as what was expected.   *)
AnyContent(c) == TRUE

Expected(c) == held[c].detached = held[c].expected

(* A link that fails leaves the entry under the quarantine name.           *)
Restored(c) ==
    \/ Linked(c, held[c].detached) /\ UNCHANGED aside
    \/ UNCHANGED entries /\ aside' = LeftAside(c)

(* What the plan saw under a name, a confirmed install may destroy.        *)
Agreed(c) ==
    LET f == held[c].target
    IN  IF held[c].confirmed /\ f \in DOMAIN held[c].plan
        THEN {held[c].plan[f].observed} ELSE {}

Judge(c) ==
    /\ At(c, "judge")
    /\ \/ /\ held[c].data # Absent /\ Expected(c)
          /\ Linked(c, held[c].data)
          /\ Goto(c, "discard")
          /\ UNCHANGED <<held, aside, history>>
       \/ /\ held[c].data # Absent
          /\ Restored(c)
          /\ Return(c, "failed")
          /\ UNCHANGED history
       \/ /\ held[c].data = Absent /\ Expected(c)
          /\ UNCHANGED <<files, history>>
          /\ Done(c)
       \/ held[c].data = Absent /\ Fail(c, "failed")

Discard(c) ==
    /\ At(c, "discard")
    /\ \/ Fail(c, "failed")
       \/ /\ owed' = owed \ Agreed(c)
          /\ UNCHANGED <<files, touched>>
          /\ Done(c)

Kill(c) == pc[c] # "idle" /\ Fail(c, "killed")

-----------------------------------------------------------------------------
(* The person replaces or removes a file; only removes the manifest.       *)
UserWrites(f) ==
    LET mine == [by |-> "user", of |-> edits + 1]
    IN  /\ edits < MaxEdits
        /\ edits' = edits + 1
        /\ owed' = (owed \ {entries[f]}) \cup {mine}
        /\ entries' = [entries EXCEPT ![f] = mine]
        /\ touched' = TRUE
        /\ UNCHANGED <<aside, lock, pc, held, answer, strays>>

UserRemoves(name) ==
    /\ edits < MaxEdits /\ entries[name] # Absent
    /\ edits' = edits + 1
    /\ owed' = owed \ {entries[name]}
    /\ entries' = [entries EXCEPT ![name] = Absent]
    /\ touched' = TRUE
    /\ strays' = IF name = manifestName THEN Unrecorded' ELSE strays
    /\ UNCHANGED <<aside, lock, pc, held, answer>>

Init ==
    /\ entries = [name \in Names |-> Absent]
    /\ aside = {}
    /\ lock = None
    /\ pc = [c \in Callers |-> "idle"]
    /\ held = [c \in Callers |-> NoCall]
    /\ answer = [c \in Callers |-> "idle"]
    /\ edits = 0 /\ owed = {} /\ touched = FALSE /\ strays = {}

Step(c) ==
    \/ \E v \in Versions, confirmed \in BOOLEAN : Begin(c, "install", v, confirmed)
    \/ Begin(c, "uninstall", None, FALSE)
    \/ \E v \in Versions : PreflightRefused(c, v)
    \/ Classify(c) \/ GiveUp(c) \/ WriteManifest(c)
    \/ \E f \in Files : SkipFile(c, f) \/ RemoveFile(c, f) \/ WriteFile(c, f)
    \/ Finish(c) \/ LinkNew(c) \/ Detach(c) \/ Judge(c) \/ Discard(c) \/ Kill(c)

Next ==
    \/ \E c \in Callers : Step(c)
    \/ \E f \in Files : UserWrites(f)
    \/ \E name \in Names : UserRemoves(name)

Spec == Init /\ [][Next]_vars

-----------------------------------------------------------------------------
Everything == UNION {Contents(name) : name \in Names}

Entries ==
    [status : {"absent", "foreign", "modified", "orphan", "stale", "current"}, observed : Everything]

IsCall(call) ==
    /\ call \in [op : {"none", "install", "uninstall"}, version : Versions \cup {None},
                confirmed : BOOLEAN, plan : {call.plan}, todo : SUBSET Files,
                recorded : {Hashes(m) : m \in Manifests \cup {Absent}}, done : BOOLEAN,
                target : Names, data : Everything, expected : Everything, detached : Everything]
    /\ DOMAIN call.plan \subseteq Files /\ call.plan \in [DOMAIN call.plan -> Entries]

CallOK(c) ==
    /\ IsCall(held[c])
    /\ lock = c <=> pc[c] \notin {"idle", "preflighted"}
    /\ pc[c] \notin {"judge", "discard"} => held[c].detached = Absent
    /\ pc[c] = "idle" => held[c] = NoCall

(* The lock is held by the call that works, names hold what they may, and  *)
(* only a call in the middle of an exchange has something moved aside.     *)
TypeOK ==
    /\ DOMAIN entries = Names /\ \A name \in Names : entries[name] \in Contents(name)
    /\ aside \subseteq UserContents /\ owed \subseteq UserContents
    /\ edits \in 0 .. MaxEdits /\ touched \in BOOLEAN /\ strays \subseteq Files
    /\ lock \in Callers \cup {None}
    /\ pc \in [Callers -> {"idle", "preflighted", "manifest", "file", "create", "detach", "judge", "discard"}]
    /\ DOMAIN held = Callers
    /\ answer \in [Callers -> {"idle", "unmanaged", "refused", "failed", "ok", "killed"}]
    /\ \A c \in Callers : CallOK(c)

(* Nothing the person wrote is destroyed unless a confirmed install saw    *)
(* those very bytes under that name: they are in place, or moved aside.    *)
UserBytesKept ==
    \A u \in owed :
        \/ u \in aside
        \/ \E f \in Files : entries[f] = u
        \/ \E c \in Callers : held[c].detached = u

(* Under a complete manifest no file that it records holds the bytes of    *)
(* another release.                                                        *)
Truthful(m) ==
    m.complete => \A f \in DOMAIN m.files : entries[f] \in {m.files[f], Absent} \cup UserContents

NoMixture == entries[manifestName] # Absent => Truthful(entries[manifestName])

(* The installer forgets a file of its own only when it is interrupted.    *)
(* Between calls, and whenever a complete manifest is in place, every file *)
(* in the directory is the person's, or what the manifest records, or a    *)
(* stray: one that a failed or killed call left after it had written the   *)
(* manifest of a release without that file, or whose manifest the person   *)
(* removed.  The code never looks at a stray again unless a later release  *)
(* ships it, so after an interrupted upgrade a host may read files of two  *)
(* releases; without an interruption it does not.                          *)
NothingForgotten ==
    lock = None \/ (entries[manifestName] # Absent /\ entries[manifestName].complete)
        => Unrecorded \subseteq strays

(* An install that reports success put every file of its release in place, *)
(* and no other file in the directory holds a release's bytes, whichever   *)
(* release shipped it, but for the strays it found; unless the person      *)
(* interfered after it took the lock.                                      *)
InstallDelivers ==
    [][ \A c \in Callers :
            /\ held[c].op = "install" /\ answer'[c] = "ok" /\ answer[c] # "ok"
            /\ ~touched
            => /\ entries'[manifestName] = Manifest(held[c].version, TRUE)
               /\ \A f \in Ships[held[c].version] :
                      entries'[f] = Shipped(held[c].version, f)
               /\ \A f \in Files \ (Ships[held[c].version] \cup strays) :
                      entries'[f] \in {Absent} \cup UserContents ]_vars

(* Why these hold.  What a call means to do: an install has a release and  *)
(* a plan for all of it, and the person's word if a file was theirs.       *)
CallLegal(c) ==
    LET call == held[c] IN
    /\ pc[c] # "idle" => \/ call.op = "install" /\ call.version \in Versions
                         \/ call.op = "uninstall" /\ pc[c] # "manifest"
    /\ lock # c => ~call.done
    /\ lock = c =>
          /\ call.op = "install" => Ships[call.version] \subseteq DOMAIN call.plan
          /\ call.todo \subseteq DOMAIN call.plan /\ (call.done => call.todo = {})
          /\ \A f \in DOMAIN call.plan :
                /\ call.plan[f].status = "orphan" => f \notin DOMAIN Want(call)
                /\ call.plan[f].observed \in UserContents /\ call.op = "install" => call.confirmed

(* An exchange puts under a name what belongs there, and expects the       *)
(* person's bytes only where it may destroy them.                          *)
WriteLegal(c) ==
    LET call == held[c] IN
    pc[c] \in {"create", "detach", "judge", "discard"} =>
        /\ call.target = manifestName =>
              /\ call.data = IF call.op = "install" THEN Manifest(call.version, call.done) ELSE Absent
              /\ call.op = "uninstall" => call.done
        /\ call.target # manifestName =>
              /\ ~call.done /\ call.target \notin call.todo
              /\ call.data = IF call.target \in DOMAIN Want(call) THEN Want(call)[call.target] ELSE Absent
        /\ call.expected \in UserContents =>
              /\ call.op = "install" /\ call.data # Absent
              /\ call.target \in DOMAIN call.plan /\ call.expected = call.plan[call.target].observed
        /\ pc[c] \in {"create", "discard"} => call.data # Absent
        /\ pc[c] = "discard" => call.detached = call.expected
        /\ call.detached \in Contents(call.target)

(* A name that a call works on, from its choice to its new content.        *)
InHand(c, name) == pc[c] \in {"create", "detach", "judge"} /\ held[c].target = name

(* A name has a content, unless the person gave or took it another.        *)
Settled(name, value) == entries[name] = value \/ (touched /\ entries[name] \in {Absent} \cup UserContents)

(* What a working call has done so far: files that it has dealt with are   *)
(* settled, and those that need nothing are from the start.                *)
FilesInPlace(c) ==
    LET call == held[c] IN lock = c =>
        /\ call.op = "install" =>
              \A f \in Ships[call.version] :
                  ~InHand(c, f) /\ (f \in call.todo => call.plan[f].status = "current")
                  => Settled(f, Shipped(call.version, f))
        /\ \A f \in DOMAIN call.plan :
              call.plan[f].status = "orphan" /\ f \notin call.todo /\ ~InHand(c, f) => Settled(f, Absent)
        /\ pc[c] = "judge" => Settled(call.target, Absent)
        /\ pc[c] = "discard" => Settled(call.target, call.data)

(* While an install exchanges files no manifest is complete; and what may  *)
(* be put back under its name is as truthful as it was.                    *)
ManifestOpen(c) ==
    LET call == held[c]
        m    == entries[manifestName]
    IN  /\ /\ lock = c /\ call.op = "install" /\ ~call.done
           /\ pc[c] # "manifest" /\ ~InHand(c, manifestName)
           => m = Absent \/ ~m.complete
        /\ pc[c] = "judge" /\ call.target = manifestName => call.detached = Absent \/ Truthful(call.detached)
        /\ pc[c] = "judge" /\ m # Absent =>
              (m.complete /\ call.target \in DOMAIN m.files =>
                  call.detached \in {m.files[call.target]} \cup UserContents)

(* The person's bytes are theirs and a complete manifest tells the truth.  *)
SkillInv ==
    /\ TypeOK /\ UserBytesKept /\ NoMixture
    /\ \A c \in Callers : CallLegal(c) /\ WriteLegal(c) /\ FilesInPlace(c) /\ ManifestOpen(c)
=============================================================================
