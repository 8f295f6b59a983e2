-------------------------- MODULE JournalMigration --------------------------
(***************************************************************************)
(* One plan in the mutation journal: Create and MigratePreparedV1 by       *)
(* concurrent callers, with the record file, the quarantine marker beside  *)
(* it and the second link the marker has while its temporary name exists   *)
(* (internal/journal/store.go, migration.go, files_unix.go).               *)
(*                                                                         *)
(* Every operation runs under the per-plan lock.  Any system call may fail;*)
(* rename, link and unlink may also report an error after their effect. A  *)
(* caller may be killed at any step.  A power loss leaves, of each name,   *)
(* any content it had since its directory was last synced.  A program of   *)
(* the same user that ignores the lock may replace a file at any step, in  *)
(* particular between the last look at a name and the rename over it,      *)
(* which Create and MigratePreparedV1 both leave open.  MaxTroubles bounds *)
(* power losses and replacements.                                          *)
(***************************************************************************)
EXTENDS JournalRecord

CONSTANTS Callers, Historical, MaxTroubles

ASSUME HistoricalAssumption ==
    /\ Historical \subseteq LegacyRecords
    /\ \A r \in Historical : validateLegacyV1Record(r)

ASSUME CallersAssumption == None \notin Callers /\ MaxTroubles \in Nat

(* What a name may hold, and what a call remembers.  looked is history: the*)
(* identity that the record had when the call last looked at it before its *)
(* rename.                                                                 *)
Prepared ==
    [version : {2}, revision : {1, 2}, source : Historical \cup {None},
     created : Times, updated : Times]

Contents == {Absent, Torn} \cup Historical \cup Prepared

Markers == [source : Historical, state : States, detected : Times]

MarkerContents == {Absent, Torn} \cup Markers

ASSUME NilAssumption == {None, Absent, Torn} \cap Markers = {}

Memory ==
    [raw : Contents, identity : Nat, looked : Nat, expected : 0 .. 2,
     candidate : Contents, mark : Markers \cup {None},
     failed : {"no", "error", "exists"}, linked : BOOLEAN]

Steps == {"idle", "create", "write", "created", "read", "resync", "reread",
          "recheck", "replace", "observe", "sync", "verify", "mark", "link",
          "unlink", "recover", "marksync", "markverify"}

Statuses == {"idle", "ok", "committed", "refused", "quarantined", "unmarked", "killed"}

VARIABLES record,     \* the file <plan-id>.json
          identity,   \* its device, inode and modification time
          marker,     \* the file <plan-id>.v1-quarantine.json
          spare,      \* the last temporary name linked to the marker
          lock, pc, held, answer,
          promised,   \* history: records a caller was told are in place
          evidenced,  \* history: records whose refusal named no marker failure
          troubles

files == <<record, identity, marker, spare>>
history == <<promised, evidenced>>
vars == <<files, lock, pc, held, answer, history, troubles>>

Nothing == [raw |-> Absent, identity |-> 0, looked |-> 0, expected |-> 0,
            candidate |-> Absent, mark |-> None, failed |-> "no", linked |-> FALSE]

-----------------------------------------------------------------------------
At(c, step) == pc[c] = step /\ lock = c

Continue(c, step) ==
    /\ pc' = [pc EXCEPT ![c] = step]
    /\ UNCHANGED <<lock, answer, history, troubles>>

Return(c, status) ==
    /\ pc' = [pc EXCEPT ![c] = "idle"]
    /\ lock' = None
    /\ answer' = [answer EXCEPT ![c] = status]
    /\ held' = [held EXCEPT ![c] = Nothing]
    /\ UNCHANGED troubles

Fail(c, status) == Return(c, status) /\ UNCHANGED <<files, history>>

Succeed(c, value) ==
    /\ Return(c, "ok")
    /\ promised' = {value}
    /\ UNCHANGED <<files, evidenced>>

Refuse(c) ==
    /\ Return(c, "quarantined")
    /\ evidenced' = evidenced \cup {held[c].raw}
    /\ UNCHANGED <<files, promised>>

Keep(c, changed) == held' = [held EXCEPT ![c] = changed]

(* fsync of the pinned directory makes every name in it durable.           *)
DirectorySynced ==
    /\ record' = RenameSynced(record)
    /\ marker' = RenameSynced(marker)
    /\ spare' = RenameSynced(spare)
    /\ UNCHANGED identity

(* A secure read refuses a file with a second link.                        *)
SecondLink == spare.seen # Absent /\ spare.seen = marker.seen

MarkerReadable == ~SecondLink

-----------------------------------------------------------------------------
(* Create: the clock is read and the record encoded before the lock.       *)
BeginCreate(c, t) ==
    /\ pc[c] = "idle" /\ lock = None
    /\ PreparedV2(Fresh(t))
    /\ lock' = c
    /\ pc' = [pc EXCEPT ![c] = "create"]
    /\ held' = [held EXCEPT ![c] = [Nothing EXCEPT !.candidate = Fresh(t)]]
    /\ answer' = [answer EXCEPT ![c] = "idle"]
    /\ UNCHANGED <<files, history, troubles>>

MayCreate == record.seen = Absent

(* The one look at the name.                                               *)
Inspect(c) ==
    /\ At(c, "create")
    /\ \/ Fail(c, "refused")
       \/ /\ MayCreate
          /\ Keep(c, [held[c] EXCEPT !.looked = identity])
          /\ Continue(c, "write")
          /\ UNCHANGED files

(* The temporary file, then a rename over whatever the name holds by then. *)
(* A failed rename changed nothing or everything.                          *)
Create(c) ==
    /\ At(c, "write")
    /\ \/ Fail(c, "refused")
       \/ /\ record' = Renamed(record, held[c].candidate)
          /\ identity' = identity + 1
          /\ \/ /\ Continue(c, "created")
                /\ UNCHANGED <<held, marker, spare>>
             \/ Return(c, "refused") /\ UNCHANGED <<marker, spare, history>>

CreateSync(c) ==
    /\ At(c, "created")
    /\ \/ Fail(c, "committed")
       \/ /\ DirectorySynced
          /\ Return(c, "ok")
          /\ promised' = {record.seen} \cap {held[c].candidate}
          /\ UNCHANGED evidenced

-----------------------------------------------------------------------------
(* MigratePreparedV1.                                                      *)
BeginMigrate(c, expected) ==
    /\ pc[c] = "idle" /\ lock = None
    /\ lock' = c
    /\ pc' = [pc EXCEPT ![c] = "read"]
    /\ held' = [held EXCEPT ![c] = [Nothing EXCEPT !.expected = expected]]
    /\ answer' = [answer EXCEPT ![c] = "idle"]
    /\ UNCHANGED <<files, history, troubles>>

AlreadyMigrated(r, expected) ==
    PreparedV2(r) /\ expected = 1 /\ r.revision = 2 /\ r.source # None

(* Every other record, and every read error, ends in a plain refusal.      *)
Read(c) ==
    LET raw  == record.seen
        seen == [held[c] EXCEPT !.raw = raw, !.identity = identity]
    IN  /\ At(c, "read")
        /\ \/ Fail(c, "refused")
           \/ /\ AlreadyMigrated(raw, held[c].expected)
              /\ Keep(c, seen)
              /\ Continue(c, "resync")
              /\ UNCHANGED files
           \/ /\ ClassifyLegacyV1(raw) = "quarantine"
              /\ Keep(c, seen)
              /\ Continue(c, "mark")
              /\ UNCHANGED files
           \/ /\ ClassifyLegacyV1(raw) = "migratable"
              /\ held[c].expected = 1
              /\ \E t \in Times :
                     /\ t >= raw.created
                     /\ PreparedV2(Migrated(raw, t))
                     /\ Keep(c, [seen EXCEPT !.candidate = Migrated(raw, t)])
              /\ Continue(c, "recheck")
              /\ UNCHANGED files

(* Broken variant: the bytes are there, so the migration must have         *)
(* succeeded.                                                              *)
TrustsBytes(c) ==
    /\ At(c, "resync")
    /\ UNCHANGED files /\ Continue(c, "reread") /\ UNCHANGED held

(* An earlier sync may have failed after the rename: sync and read again.  *)
Resync(c) ==
    /\ At(c, "resync")
    /\ \/ Fail(c, "committed")
       \/ DirectorySynced /\ Continue(c, "reread") /\ UNCHANGED held

Reread(c) ==
    /\ At(c, "reread")
    /\ \/ Fail(c, "committed")
       \/ record.seen = held[c].raw /\ Succeed(c, held[c].raw)

(* Broken variant: the source is looked for again, and not compared.       *)
SourceExists(c) == record.seen # Absent

SourceUnchanged(c) ==
    record.seen = held[c].raw /\ identity = held[c].identity

(* The anchored recheck of the source.                                     *)
Recheck(c) ==
    /\ At(c, "recheck")
    /\ \/ Fail(c, "refused")
       \/ /\ SourceUnchanged(c)
          /\ Keep(c, [held[c] EXCEPT !.looked = identity])
          /\ Continue(c, "replace")
          /\ UNCHANGED files

(* The one rename, over whatever the name holds by then.                   *)
Replace(c) ==
    /\ At(c, "replace")
    /\ \/ /\ record' = Renamed(record, held[c].candidate)
          /\ identity' = identity + 1
          /\ \E failed \in {"no", "error"} :
                 Keep(c, [held[c] EXCEPT !.failed = failed])
       \/ /\ Keep(c, [held[c] EXCEPT !.failed = "error"])
          /\ UNCHANGED <<record, identity>>
    /\ Continue(c, "observe")
    /\ UNCHANGED <<marker, spare>>

(* Broken variant: an error of rename is taken to mean that nothing        *)
(* happened.                                                               *)
RenameErrorTrusted(c) == held[c].failed = "error"

DidNotCommit(c) == held[c].failed = "error" /\ record.seen = held[c].raw

(* What the name holds decides, not what rename reported.                  *)
Observe(c) ==
    /\ At(c, "observe")
    /\ \/ Fail(c, "committed")
       \/ DidNotCommit(c) /\ Fail(c, "refused")
       \/ /\ record.seen = held[c].candidate
          /\ Continue(c, "sync")
          /\ UNCHANGED <<files, held>>

Sync(c) ==
    /\ At(c, "sync")
    /\ \/ Fail(c, "committed")
       \/ DirectorySynced /\ Continue(c, "verify") /\ UNCHANGED held

(* "committed" also stands for a deferred unlink or close that fails.      *)
Verify(c) ==
    /\ At(c, "verify")
    /\ \/ Fail(c, "committed")
       \/ record.seen = held[c].candidate /\ Succeed(c, held[c].candidate)

-----------------------------------------------------------------------------
(* persistQuarantineMarker.                                                *)
Mark(c) ==
    /\ At(c, "mark")
    /\ \/ Fail(c, "unmarked")
       \/ MarkerReadable /\ MarkerFor(marker.seen, held[c].raw) /\ Refuse(c)
       \/ /\ MarkerReadable /\ marker.seen = Absent
          /\ \E t \in Times \ EarlyTimes :
                 Keep(c, [held[c] EXCEPT !.mark = Marker(held[c].raw, t)])
          /\ Continue(c, "link")
          /\ UNCHANGED files
       \/ Continue(c, "recover") /\ UNCHANGED <<files, held>>

(* Broken variant: the link replaces whatever has the name.                *)
Clobbers == TRUE

(* linkat gives the marker its name only if nothing has it.                *)
NameFree == marker.seen = Absent

Link(c) ==
    /\ At(c, "link")
    /\ \/ /\ ~NameFree
          /\ Keep(c, [held[c] EXCEPT !.failed = "exists"])
          /\ UNCHANGED files
       \/ /\ NameFree
          /\ marker' = Renamed(marker, held[c].mark)
          /\ spare' = Renamed(spare, held[c].mark)
          /\ \E failed \in {"no", "error"} :
                 Keep(c, [held[c] EXCEPT !.linked = TRUE, !.failed = failed])
          /\ UNCHANGED <<record, identity>>
       \/ Keep(c, [held[c] EXCEPT !.failed = "error"]) /\ UNCHANGED files
    /\ Continue(c, "unlink")

(* Without a directory sync the removed name may come back.                *)
Removed == [spare EXCEPT !.seen = Absent, !.disk = @ \cup {Absent}]

Unlinked(c) == spare' = IF held[c].linked THEN Removed ELSE spare

(* link reported an error, and the marker is this call's all the same.     *)
LinkedAnyway(c) ==
    /\ held[c].failed = "error"
    /\ marker.seen = held[c].mark
    /\ spare'.seen = Absent

Unlink(c) ==
    LET f == held[c].failed
    IN  /\ At(c, "unlink")
        /\ UNCHANGED <<record, identity, marker>>
        /\ \/ /\ Unlinked(c)                      \* removed, no error
              /\ \/ /\ f = "no" \/ LinkedAnyway(c)
                    /\ Continue(c, "marksync") /\ UNCHANGED held
                 \/ f = "exists" /\ Continue(c, "markverify") /\ UNCHANGED held
                 \/ f = "error" /\ Return(c, "unmarked") /\ UNCHANGED history
           \/ /\ Unlinked(c) \/ UNCHANGED spare   \* unlink reported an error
              /\ \/ f = "exists" /\ Return(c, "unmarked") /\ UNCHANGED history
                 \/ /\ f # "exists"
                    /\ Keep(c, [held[c] EXCEPT !.mark = None])
                    /\ Continue(c, "recover")

(* recoverQuarantineLink: the one temporary link to a matching marker goes.*)
Recover(c) ==
    /\ At(c, "recover")
    /\ \/ Fail(c, "unmarked")
       \/ /\ MarkerFor(marker.seen, held[c].raw)
          /\ spare' = IF SecondLink THEN Removed ELSE spare
          /\ \/ Continue(c, "marksync") /\ UNCHANGED held
             \/ Return(c, "unmarked") /\ UNCHANGED history
          /\ UNCHANGED <<record, identity, marker>>

MarkSync(c) ==
    /\ At(c, "marksync")
    /\ \/ Fail(c, "unmarked")
       \/ DirectorySynced /\ Continue(c, "markverify") /\ UNCHANGED held

(* A marker of this call is compared byte by byte, one it found is decoded.*)
MarkVerify(c) ==
    LET h == held[c]
    IN  /\ At(c, "markverify")
        /\ \/ Fail(c, "unmarked")
           \/ /\ MarkerReadable
              /\ IF h.mark = None \/ h.failed = "exists"
                 THEN MarkerFor(marker.seen, h.raw)
                 ELSE marker.seen = h.mark
              /\ Refuse(c)

-----------------------------------------------------------------------------
Kill(c) ==
    /\ pc[c] # "idle"
    /\ Fail(c, "killed")

PowerLoss ==
    /\ troubles < MaxTroubles
    /\ troubles' = troubles + 1
    /\ \E r \in record.disk, m \in marker.disk, s \in spare.disk :
           /\ record' = Stored(r)
           /\ marker' = Stored(m)
           /\ spare' = Stored(s)
    /\ lock' = None
    /\ pc' = [c \in Callers |-> "idle"]
    /\ answer' = [c \in Callers |-> IF pc[c] = "idle" THEN answer[c] ELSE "killed"]
    /\ held' = [c \in Callers |-> Nothing]
    /\ evidenced' = {}
    /\ UNCHANGED <<identity, promised>>

(* A program of the same user that ignores the lock.                       *)
ReplaceRecord ==
    /\ troubles < MaxTroubles
    /\ troubles' = troubles + 1
    /\ \E r \in Historical \cup {Torn} : record' = Renamed(record, r)
    /\ identity' = identity + 1
    /\ promised' = {}
    /\ UNCHANGED <<marker, spare, lock, pc, held, answer, evidenced>>

ReplaceMarker ==
    /\ troubles < MaxTroubles
    /\ troubles' = troubles + 1
    /\ \E m \in ({Torn} \cup {Marker(r, t) : r \in Historical, t \in Times \ EarlyTimes})
                    \ spare.disk :
           marker' = Renamed(marker, m)
    /\ evidenced' = {}
    /\ UNCHANGED <<spare, record, identity, lock, pc, held, answer, promised>>

-----------------------------------------------------------------------------
Init ==
    /\ \E r \in Historical \cup {Absent, Torn} : record = Stored(r)
    /\ identity = 0
    /\ marker = Missing
    /\ spare = Missing
    /\ lock = None
    /\ pc = [c \in Callers |-> "idle"]
    /\ held = [c \in Callers |-> Nothing]
    /\ answer = [c \in Callers |-> "idle"]
    /\ promised = {} /\ evidenced = {}
    /\ troubles = 0

Step(c) ==
    \/ \E t \in Times : BeginCreate(c, t)
    \/ Inspect(c) \/ Create(c) \/ CreateSync(c)
    \/ \E expected \in {1, 2} : BeginMigrate(c, expected)
    \/ Read(c) \/ Resync(c) \/ Reread(c)
    \/ Recheck(c) \/ Replace(c) \/ Observe(c) \/ Sync(c) \/ Verify(c)
    \/ Mark(c) \/ Link(c) \/ Unlink(c) \/ Recover(c) \/ MarkSync(c) \/ MarkVerify(c)
    \/ Kill(c)

Next == (\E c \in Callers : Step(c)) \/ PowerLoss \/ ReplaceRecord \/ ReplaceMarker

Spec == Init /\ [][Next]_vars

-----------------------------------------------------------------------------
TypeOK ==
    /\ record \in FileOf(Contents) /\ record.seen \in record.disk
    /\ marker \in FileOf(MarkerContents) /\ marker.seen \in marker.disk
    /\ spare \in FileOf(Markers \cup {Absent}) /\ spare.seen \in spare.disk
    /\ identity \in Nat /\ troubles \in 0 .. MaxTroubles
    /\ pc \in [Callers -> Steps]
    /\ lock \in Callers \cup {None}
    /\ \A c \in Callers : pc[c] # "idle" <=> lock = c
    /\ held \in [Callers -> Memory]
    /\ answer \in [Callers -> Statuses]
    /\ \A c \in Callers : pc[c] # "idle" => answer[c] = "idle"
    /\ promised \subseteq Contents /\ evidenced \subseteq Historical

(* After a refusal that names no marker failure, the marker for that exact *)
(* record is in place under one name, until an outage or another program   *)
(* removes it.                                                             *)
EvidenceVisible ==
    \A r \in evidenced : MarkerFor(marker.seen, r) /\ MarkerReadable

(* What a call has established when it reaches a step, and what makes a    *)
(* promise safe: nothing in the record's directory entry competes with it. *)
Established(c) ==
    /\ pc[c] = "read" => held[c].mark = None
    /\ pc[c] \in {"create", "write", "created"}
          => PreparedV2(held[c].candidate) /\ held[c].candidate.source = None
    /\ pc[c] \in {"recheck", "replace", "observe", "sync", "verify"}
          => /\ ClassifyLegacyV1(held[c].raw) = "migratable"
             /\ PreparedV2(held[c].candidate)
             /\ held[c].candidate.source = held[c].raw
    /\ pc[c] \in {"write", "recheck", "replace"} => promised = {}
    /\ pc[c] \in {"resync", "reread"} => PreparedV2(held[c].raw)
    /\ pc[c] \in {"mark", "link", "unlink", "recover", "marksync", "markverify"}
          => /\ ClassifyLegacyV1(held[c].raw) = "quarantine"
             /\ held[c].mark # None => MarkerFor(held[c].mark, held[c].raw)
    /\ pc[c] = "link" => held[c].mark # None
    /\ pc[c] = "verify" /\ record.seen = held[c].candidate
          => record = Stored(held[c].candidate)
    /\ pc[c] = "reread" /\ record.seen = held[c].raw
          => record = Stored(held[c].raw)

MigrationInv ==
    /\ TypeOK
    /\ \A p \in promised : PreparedV2(p) /\ record = Stored(p)
    /\ EvidenceVisible
    /\ \A c \in Callers : Established(c)

(* What Create or MigratePreparedV1 reported as done is on disk, alone, and*)
(* stays there: no later call and no power loss brings the old record back.*)
(* In particular a retry after a failed directory sync does not turn the   *)
(* mere sight of the new bytes into a success.                             *)
PromiseKept == \A p \in promised : record = Stored(p)

(* A record no decoder accepts, a version 1 record that any later phase    *)
(* touched and a version 2 record are never replaced by a call; a pristine *)
(* version 1 record only by the version 2 record that names its digest.    *)
(* The one exception: another program puts its record there after the call *)
(* looked at the name for the last time.  A rename does not compare, so the*)
(* call's own record replaces it, in Create as in MigratePreparedV1.       *)
Overtaken(c) ==
    /\ pc[c] \in {"write", "replace"}
    /\ identity # held[c].looked
    /\ record'.seen = held[c].candidate

SourceStep ==
    \/ troubles' # troubles
    \/ record.seen = Absent /\ PreparedV2(record'.seen) /\ record'.seen.source = None
    \/ /\ ClassifyLegacyV1(record.seen) = "migratable"
       /\ PreparedV2(record'.seen)
       /\ record'.seen.source = record.seen
    \/ record'.seen = record.seen
    \/ \E c \in Callers : Overtaken(c)

SourceKept == [][SourceStep]_vars

(* A migration that reports a plain error left its record unpublished: a   *)
(* rename that took effect is reported as committed or done, whatever      *)
(* rename itself returned.                                                 *)
RefusalStep ==
    \A c \in Callers :
        pc[c] = "observe" /\ answer'[c] = "refused" => record.seen # held[c].candidate

RefusalMeansUntouched == [][RefusalStep]_vars

(* No call changes a marker that is there, its detection time included.    *)
MarkerStep ==
    \/ troubles' # troubles
    \/ marker.seen = Absent
    \/ marker'.seen = marker.seen

MarkerKept == [][MarkerStep]_vars
=============================================================================
