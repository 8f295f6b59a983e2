--------------------------- MODULE Journal_proofs ---------------------------
(***************************************************************************)
(* For any set of callers, of historical records, of instants and any      *)
(* number of outages and replacements: what Create and MigratePreparedV1   *)
(* promise is kept, and of the records they look at only a pristine        *)
(* version 1 record is replaced.  And for any instants: the life of a      *)
(* version 1 record by its own rules.                                      *)
(***************************************************************************)
EXTENDS MCJournal, SequenceTheorems, TLAPS

-----------------------------------------------------------------------------
(* Values.                                                                 *)

(* A historical record is version 1, the records a call writes version 2.  *)
LEMMA Versions ==
    /\ \A r \in Historical : r.version = 1
    /\ \A r : PreparedV2(r) => r # Absent /\ r # Torn /\ r.version = 2
    /\ \A r : ClassifyLegacyV1(r) # "malformed" => r # Absent /\ r # Torn /\ r.version = 1
    /\ \A r \in Contents : ClassifyLegacyV1(r) # "malformed" => r \in Historical
  <1>1. \A r \in Historical : r.version = 1
    BY HistoricalAssumption DEF validateLegacyV1Record
  <1>2. \A r : PreparedV2(r) => r # Absent /\ r # Torn /\ r.version = 2
    BY DEF PreparedV2
  <1>3. \A r : ClassifyLegacyV1(r) # "malformed" => r # Absent /\ r # Torn /\ r.version = 1
    BY DEF ClassifyLegacyV1
  <1>4. ASSUME NEW r \in Contents, ClassifyLegacyV1(r) # "malformed"
        PROVE  r \in Historical
    BY <1>3, <1>4 DEF Contents, Prepared
  <1> QED BY <1>1, <1>2, <1>3, <1>4

(* A marker is a marker, and about the record it was made for.             *)
LEMMA MarkerForms ==
    /\ None \notin Markers
    /\ \A r \in Historical, t \in Times :
           Marker(r, t) \in Markers /\ MarkerFor(Marker(r, t), r)
  <1>1. \A r \in Historical, t \in Times : Marker(r, t) \in Markers
    BY HistoricalAssumption DEF Marker, Markers, LegacyRecords
  <1> QED BY <1>1, NilAssumption DEF MarkerFor, Marker

(* What a caller remembers is a memory, and Nothing is one.                *)
LEMMA NothingRemembered == Nothing \in Memory
  <1>1. Absent \in Contents
    BY Zenon DEF Contents
  <1> QED BY <1>1 DEF Nothing, Memory

-----------------------------------------------------------------------------
(* The lock and the callers.                                               *)

Calls ==
    /\ pc \in [Callers -> Steps]
    /\ lock \in Callers \cup {None}
    /\ \A c \in Callers : pc[c] # "idle" <=> lock = c
    /\ held \in [Callers -> Memory]
    /\ answer \in [Callers -> Statuses]
    /\ \A c \in Callers : pc[c] # "idle" => answer[c] = "idle"

(* While one caller works, and while none does, the others are idle.       *)
Alone(c) == \A q \in Callers \ {c} : pc'[q] = "idle"

(* A step inside a call.                                                   *)
LEMMA Continued ==
    ASSUME Calls, NEW c \in Callers, NEW from, At(c, from),
           NEW to \in Steps \ {"idle"}, Continue(c, to), held' \in [Callers -> Memory]
    PROVE  Calls' /\ Alone(c) /\ pc'[c] = to
  BY DEF Calls, At, Continue, Alone

(* The end of a call.                                                      *)
LEMMA Returned ==
    ASSUME Calls, NEW c \in Callers, lock = c, NEW status \in Statuses, Return(c, status)
    PROVE  Calls' /\ Alone(c) /\ pc'[c] = "idle"
  <1>1. pc' \in [Callers -> Steps] /\ pc'[c] = "idle" /\ \A q \in Callers : pc'[q] = "idle"
    BY DEF Calls, Return, Steps
  <1>2. held' \in [Callers -> Memory]
    BY NothingRemembered DEF Calls, Return
  <1>3. answer' \in [Callers -> Statuses]
    BY DEF Calls, Return
  <1>4. lock' = None
    BY DEF Return
  <1> QED BY <1>1, <1>2, <1>3, <1>4, CallersAssumption DEF Calls, Alone

(* The beginning of a call.                                                *)
LEMMA Begun ==
    ASSUME Calls, NEW c \in Callers, lock = None, NEW to \in Steps \ {"idle"},
           lock' = c, pc' = [pc EXCEPT ![c] = to], NEW m \in Memory, Keep(c, m),
           answer' = [answer EXCEPT ![c] = "idle"]
    PROVE  Calls' /\ Alone(c) /\ pc'[c] = to /\ held'[c] = m
  BY CallersAssumption DEF Calls, Keep, Alone, Statuses

(* What a call that keeps its memory, or notes one, remembers.             *)
LEMMA Kept ==
    ASSUME Calls, NEW c \in Callers, NEW m \in Memory, Keep(c, m)
    PROVE  held' \in [Callers -> Memory] /\ held'[c] = m
  BY DEF Calls, Keep

-----------------------------------------------------------------------------
(* The files.                                                              *)

Files ==
    /\ record \in FileOf(Contents) /\ record.seen \in record.disk
    /\ marker \in FileOf(MarkerContents) /\ marker.seen \in marker.disk
    /\ spare \in FileOf(Markers \cup {Absent}) /\ spare.seen \in spare.disk
    /\ identity \in Nat /\ troubles \in 0 .. MaxTroubles
    /\ promised \subseteq Contents /\ evidenced \subseteq Historical

(* A renamed file, and a synced one, are files.                            *)
LEMMA FileSteps ==
    ASSUME NEW C, NEW f \in FileOf(C), f.seen \in f.disk
    PROVE  /\ \A v \in C : /\ Renamed(f, v) \in FileOf(C)
                           /\ Renamed(f, v).seen = v /\ v \in Renamed(f, v).disk
           /\ RenameSynced(f) = Stored(f.seen)
           /\ Stored(f.seen) \in FileOf(C)
           /\ \A v \in f.disk : Stored(v) \in FileOf(C)
           /\ \A v : Stored(v).seen = v /\ Stored(v).disk = {v}
  BY DEF FileOf, Renamed, RenameSynced, Stored

(* A record renamed over is a record.                                      *)
LEMMA RecordRenamed ==
    ASSUME Files, NEW v \in Contents, record' = Renamed(record, v)
    PROVE  record' \in FileOf(Contents) /\ record'.seen \in record'.disk /\ record'.seen = v
  BY FileSteps DEF Files

(* Syncing the directory keeps what every name shows and drops the rest.   *)
LEMMA Synced ==
    ASSUME Files, DirectorySynced
    PROVE  /\ record' = Stored(record.seen) /\ record'.seen = record.seen
           /\ record' \in FileOf(Contents) /\ record'.seen \in record'.disk
           /\ marker' \in FileOf(MarkerContents) /\ marker'.seen \in marker'.disk
           /\ spare' \in FileOf(Markers \cup {Absent}) /\ spare'.seen \in spare'.disk
           /\ identity' \in Nat
  BY FileSteps DEF Files, DirectorySynced, FileOf, Stored, RenameSynced

(* ... so it cannot break a promise or take a marker away.                 *)
LEMMA DirectorySyncKeeps ==
    ASSUME Files, DirectorySynced
    PROVE  /\ \A p : record = Stored(p) => record' = Stored(p)
           /\ marker'.seen = marker.seen /\ spare'.seen = spare.seen
           /\ MarkerReadable' = MarkerReadable
  BY DEF DirectorySynced, RenameSynced, Stored, MarkerReadable, SecondLink

-----------------------------------------------------------------------------
(* The invariant.                                                          *)

Promises == \A p \in promised : PreparedV2(p) /\ record = Stored(p)

(* While only c is in a call, its own part is all there is to show.        *)
LEMMA Assembled ==
    ASSUME NEW c \in Callers, Alone(c), Calls', Files', Promises', EvidenceVisible', Established(c)'
    PROVE  MigrationInv'
  <1>1. \A q \in Callers : Established(q)'
    BY DEF Alone, Established
  <1> QED BY <1>1 DEF MigrationInv, TypeOK, Calls, Files, Promises

(* Nothing is established at the end of a call.                            *)
LEMMA Ended ==
    ASSUME NEW c \in Callers, pc'[c] = "idle"
    PROVE  Established(c)'
  BY DEF Established

(* What the invariant says of a caller at a step.                          *)
LEMMA Unfolded ==
    ASSUME MigrationInv
    PROVE  Calls /\ Files /\ Promises /\ EvidenceVisible /\ \A c \in Callers : Established(c)
  BY DEF MigrationInv, TypeOK, Calls, Files, Promises

(* An early return breaks nothing.                                         *)
LEMMA Failing ==
    ASSUME MigrationInv, NEW c \in Callers, lock = c, NEW status \in Statuses, Fail(c, status)
    PROVE  MigrationInv'
  <1>1. Calls' /\ Alone(c) /\ pc'[c] = "idle"
    BY Returned, Unfolded DEF Fail
  <1>2. Files' /\ Promises' /\ EvidenceVisible'
    BY Unfolded DEF Fail, Return, Files, Promises, EvidenceVisible, MarkerReadable, SecondLink, files, history
  <1> QED BY <1>1, <1>2, Ended, Assembled

(* A record that is alone on disk may be promised.                         *)
LEMMA Succeeding ==
    ASSUME MigrationInv, NEW c \in Callers, lock = c, NEW v \in Contents, Succeed(c, v),
           PreparedV2(v), record = Stored(v)
    PROVE  MigrationInv'
  <1>1. Calls' /\ Alone(c) /\ pc'[c] = "idle"
    BY Returned, Unfolded DEF Succeed, Statuses
  <1>2. Files' /\ Promises' /\ EvidenceVisible'
    BY Unfolded DEF Succeed, Return, Files, Promises, EvidenceVisible, MarkerReadable, SecondLink, files
  <1> QED BY <1>1, <1>2, Ended, Assembled

(* A marker that matches and is readable may be named as evidence.         *)
LEMMA Refusing ==
    ASSUME MigrationInv, NEW c \in Callers, lock = c, Refuse(c), held[c].raw \in Historical,
           MarkerFor(marker.seen, held[c].raw), MarkerReadable
    PROVE  MigrationInv'
  <1>1. Calls' /\ Alone(c) /\ pc'[c] = "idle"
    BY Returned, Unfolded DEF Refuse, Statuses
  <1>2. Files' /\ Promises' /\ EvidenceVisible'
    BY Unfolded DEF Refuse, Return, Files, Promises, EvidenceVisible, MarkerReadable, SecondLink, files
  <1> QED BY <1>1, <1>2, Ended, Assembled

-----------------------------------------------------------------------------
(* Create.                                                                 *)

(* A record encoded now is a record of the journal.                        *)
LEMMA WrittenRecords ==
    /\ \A t \in Times : Fresh(t) \in Contents /\ Fresh(t).source = None
    /\ \A r \in Historical, t \in Times :
           Migrated(r, t) \in Contents /\ Migrated(r, t).source = r
  <1>1. \A t \in Times : Fresh(t) \in Contents /\ Fresh(t).source = None
    BY DEF Fresh, Contents, Prepared
  <1>2. \A r \in Historical, t \in Times :
           Migrated(r, t) \in Contents /\ Migrated(r, t).source = r
    BY HistoricalAssumption DEF Migrated, Contents, Prepared, LegacyRecords
  <1> QED BY <1>1, <1>2

(* A fresh record names no source.                                         *)
LEMMA BeginCreateKeeps ==
    ASSUME MigrationInv, NEW c \in Callers, NEW t \in Times, BeginCreate(c, t)
    PROVE  MigrationInv'
  <1> DEFINE m == [Nothing EXCEPT !.candidate = Fresh(t)]
  <1>1. m \in Memory /\ m.candidate = Fresh(t)
    BY NothingRemembered, WrittenRecords DEF Memory, Nothing
  <1>2. Keep(c, m)
    BY DEF BeginCreate, Keep
  <1>3. Calls' /\ Alone(c) /\ pc'[c] = "create" /\ held'[c] = m
    BY <1>1, <1>2, Begun, Unfolded DEF BeginCreate, Steps
  <1>4. Files' /\ Promises' /\ EvidenceVisible'
    BY Unfolded DEF BeginCreate, Files, Promises, EvidenceVisible, MarkerReadable, SecondLink, files, history
  <1>5. Established(c)'
    BY <1>1, <1>3, WrittenRecords DEF BeginCreate, Established
  <1> QED BY <1>3, <1>4, <1>5, Assembled

(* Nothing was promised about a name that is free.                         *)
LEMMA FreeUnpromised ==
    ASSUME Promises, record.seen = Absent
    PROVE  promised = {}
  BY Versions DEF Promises, Stored

(* A step that leaves the files alone.                                     *)
LEMMA Onward ==
    ASSUME MigrationInv, NEW c \in Callers, NEW from, At(c, from),
           NEW to \in Steps \ {"idle"}, Continue(c, to), UNCHANGED files,
           NEW m \in Memory, Keep(c, m),
           pc'[c] = to /\ held'[c] = m => Established(c)'
    PROVE  MigrationInv'
  <1>1. held' \in [Callers -> Memory] /\ held'[c] = m
    BY Kept, Unfolded
  <1>2. Calls' /\ Alone(c) /\ pc'[c] = to
    BY <1>1, Continued, Unfolded
  <1>3. Files' /\ Promises' /\ EvidenceVisible'
    BY Unfolded DEF Continue, Files, Promises, EvidenceVisible, MarkerReadable, SecondLink, files, history
  <1> QED BY <1>1, <1>2, <1>3, Assembled

(* A free name was promised to nobody, and nobody promises during the call.*)
LEMMA InspectKeeps ==
    ASSUME MigrationInv, NEW c \in Callers, Inspect(c)
    PROVE  MigrationInv'
  <1> DEFINE m == [held[c] EXCEPT !.looked = identity]
  <1>1. lock = c /\ At(c, "create") /\ pc[c] = "create" /\ held[c] \in Memory
    BY Unfolded DEF Inspect, At, Calls
  <1>2. CASE Fail(c, "refused")
    BY <1>1, <1>2, Failing DEF Statuses
  <1>3. CASE MayCreate /\ Keep(c, m) /\ Continue(c, "write") /\ UNCHANGED files
    <2>1. m \in Memory /\ m.candidate = held[c].candidate
      BY <1>1, Unfolded DEF Memory, Files
    <2>2. promised' = {}
      BY <1>3, FreeUnpromised, Unfolded DEF MayCreate, Continue, history
    <2>3. pc'[c] = "write" /\ held'[c] = m => Established(c)'
      BY <1>1, <2>1, <2>2, Unfolded DEF Established
    <2> QED BY <1>1, <1>3, <2>1, <2>3, Onward DEF Steps
  <1> QED BY <1>2, <1>3 DEF Inspect

(* Whatever the name holds when it is renamed over, it was not promised.   *)
LEMMA CreateKeeps ==
    ASSUME MigrationInv, NEW c \in Callers, Create(c)
    PROVE  MigrationInv'
  <1>1. lock = c /\ pc[c] = "write" /\ held[c] \in Memory
    BY Unfolded DEF Create, At, Calls
  <1>2. CASE Fail(c, "refused")
    BY <1>1, <1>2, Failing DEF Statuses
  <1>3. CASE /\ record' = Renamed(record, held[c].candidate)
             /\ identity' = identity + 1
             /\ \/ Continue(c, "created") /\ UNCHANGED <<held, marker, spare>>
                \/ Return(c, "refused") /\ UNCHANGED <<marker, spare, history>>
    <2>1. promised = {}
      BY <1>1, Unfolded DEF Established
    <2>2. held[c].candidate \in Contents
      BY <1>1 DEF Memory
    <2>3. Files' /\ Promises' /\ EvidenceVisible'
      BY <1>3, <2>1, <2>2, RecordRenamed, Unfolded
         DEF Continue, Return, Files, Promises, EvidenceVisible, MarkerReadable, SecondLink, history
    <2>4. CASE Continue(c, "created") /\ UNCHANGED held
      <3>1. Calls' /\ Alone(c) /\ pc'[c] = "created"
        BY <1>1, <2>4, Continued, Unfolded DEF At, Calls, Steps
      <3>2. Established(c)'
        BY <1>1, <2>4, <3>1, Unfolded DEF Established
      <3> QED BY <2>3, <3>1, <3>2, Assembled
    <2>5. CASE Return(c, "refused")
      BY <1>1, <2>3, <2>5, Returned, Ended, Assembled, Unfolded DEF Statuses
    <2> QED BY <1>3, <2>4, <2>5
  <1> QED BY <1>2, <1>3 DEF Create

(* After the sync the new record stands alone.                             *)
LEMMA CreateSyncKeeps ==
    ASSUME MigrationInv, NEW c \in Callers, CreateSync(c)
    PROVE  MigrationInv'
  <1>1. lock = c /\ pc[c] = "created" /\ held[c] \in Memory
    BY Unfolded DEF CreateSync, At, Calls
  <1>2. CASE Fail(c, "committed")
    BY <1>1, <1>2, Failing DEF Statuses
  <1>3. CASE /\ DirectorySynced
             /\ Return(c, "ok")
             /\ promised' = {record.seen} \cap {held[c].candidate}
             /\ UNCHANGED evidenced
    <2>1. Calls' /\ Alone(c) /\ pc'[c] = "idle"
      BY <1>1, <1>3, Returned, Unfolded DEF Statuses
    <2>2. PreparedV2(held[c].candidate) /\ held[c].candidate \in Contents
      BY <1>1, Unfolded DEF Established, Memory
    <2>3. Promises'
      BY <1>3, <2>2, Synced, Unfolded DEF Promises, PreparedV2
    <2>4. Files'
      BY <1>3, <2>2, Synced, Unfolded DEF Files, Return
    <2>5. EvidenceVisible'
      BY <1>3, DirectorySyncKeeps, Unfolded DEF EvidenceVisible
    <2> QED BY <2>1, <2>3, <2>4, <2>5, Ended, Assembled
  <1> QED BY <1>2, <1>3 DEF CreateSync

-----------------------------------------------------------------------------
(* MigratePreparedV1.                                                      *)

(* A migration starts without a marker.                                    *)
LEMMA BeginMigrateKeeps ==
    ASSUME MigrationInv, NEW c \in Callers, NEW expected \in {1, 2}, BeginMigrate(c, expected)
    PROVE  MigrationInv'
  <1> DEFINE m == [Nothing EXCEPT !.expected = expected]
  <1>1. m \in Memory /\ m.mark = None
    <2>1. expected \in 0 .. 2
      OBVIOUS
    <2>2. Nothing.mark = None
      BY DEF Nothing
    <2> QED BY <2>1, <2>2, NothingRemembered DEF Memory
  <1>2. Keep(c, m)
    BY DEF BeginMigrate, Keep
  <1>3. Calls' /\ Alone(c) /\ pc'[c] = "read" /\ held'[c] = m
    BY <1>1, <1>2, Begun, Unfolded DEF BeginMigrate, Steps
  <1>4. Files' /\ Promises' /\ EvidenceVisible'
    BY Unfolded DEF BeginMigrate, Files, Promises, EvidenceVisible, MarkerReadable, SecondLink, files, history
  <1>5. Established(c)'
    BY <1>1, <1>3 DEF Established
  <1> QED BY <1>3, <1>4, <1>5, Assembled

(* A promise never names a version 1 record.                               *)
LEMMA LegacyUnpromised ==
    ASSUME Promises, ClassifyLegacyV1(record.seen) # "malformed"
    PROVE  promised = {}
  <1>1. ASSUME NEW p \in promised PROVE FALSE
    <2>1. PreparedV2(p) /\ record = Stored(p)
      BY <1>1 DEF Promises
    <2>2. record.seen = p
      BY <2>1 DEF Stored
    <2> QED BY <2>1, <2>2, Versions
  <1> QED BY <1>1

(* Each branch establishes what its steps rely on.                         *)
LEMMA ReadKeeps ==
    ASSUME MigrationInv, NEW c \in Callers, Read(c)
    PROVE  MigrationInv'
  <1> DEFINE raw  == record.seen
             seen == [held[c] EXCEPT !.raw = raw, !.identity = identity]
  <1>1. lock = c /\ At(c, "read") /\ held[c] \in Memory
    BY Unfolded DEF Read, At, Calls
  <1>2. raw \in Contents /\ identity \in Nat
    BY Unfolded DEF Files, FileOf
  <1>3. seen \in Memory /\ seen.raw = raw /\ seen.mark = None
    BY <1>1, <1>2, Unfolded DEF Memory, At, Established
  <1>4. CASE Fail(c, "refused")
    BY <1>1, <1>4, Failing DEF Statuses
  <1>5. CASE /\ AlreadyMigrated(raw, held[c].expected)
             /\ Keep(c, seen) /\ Continue(c, "resync") /\ UNCHANGED files
    <2>1. pc'[c] = "resync" /\ held'[c] = seen => Established(c)'
      BY <1>3, <1>5 DEF Established, AlreadyMigrated
    <2> QED BY <1>1, <1>3, <1>5, <2>1, Onward DEF Steps
  <1>6. CASE /\ ClassifyLegacyV1(raw) = "quarantine"
             /\ Keep(c, seen) /\ Continue(c, "mark") /\ UNCHANGED files
    <2>1. pc'[c] = "mark" /\ held'[c] = seen => Established(c)'
      BY <1>3, <1>6 DEF Established
    <2> QED BY <1>1, <1>3, <1>6, <2>1, Onward DEF Steps
  <1>7. ASSUME ClassifyLegacyV1(raw) = "migratable", NEW t \in Times,
               PreparedV2(Migrated(raw, t)),
               Keep(c, [seen EXCEPT !.candidate = Migrated(raw, t)]),
               Continue(c, "recheck"), UNCHANGED files
        PROVE  MigrationInv'
    <2> DEFINE m == [seen EXCEPT !.candidate = Migrated(raw, t)]
    <2>1. raw \in Historical
      BY <1>2, <1>7, Versions
    <2>2. m \in Memory /\ m.raw = raw /\ m.candidate = Migrated(raw, t)
      BY <1>3, <2>1, WrittenRecords DEF Memory
    <2>3. promised' = {}
      BY <1>7, LegacyUnpromised, Unfolded DEF Continue, history
    <2>4. pc'[c] = "recheck" /\ held'[c] = m => Established(c)'
      BY <1>7, <2>1, <2>2, <2>3, WrittenRecords DEF Established
    <2> QED BY <1>1, <1>7, <2>2, <2>4, Onward DEF Steps
  <1> QED BY <1>4, <1>5, <1>6, <1>7 DEF Read

(* A step that syncs the directory.                                        *)
LEMMA SyncedOnward ==
    ASSUME MigrationInv, NEW c \in Callers, NEW from, At(c, from), DirectorySynced,
           NEW to \in Steps \ {"idle"}, Continue(c, to), UNCHANGED held,
           pc'[c] = to => Established(c)'
    PROVE  MigrationInv'
  <1>1. Calls' /\ Alone(c) /\ pc'[c] = to
    BY Continued, Unfolded DEF Calls
  <1>2. Files'
    BY Synced, Unfolded DEF Continue, Files, history
  <1>3. Promises'
    BY DirectorySyncKeeps, Unfolded DEF Continue, Promises, history
  <1>4. EvidenceVisible'
    BY DirectorySyncKeeps, Unfolded DEF Continue, EvidenceVisible, history
  <1> QED BY <1>1, <1>2, <1>3, <1>4, Assembled

(* The sync is what lets the reread promise anything.                      *)
LEMMA ResyncKeeps ==
    ASSUME MigrationInv, NEW c \in Callers, Resync(c)
    PROVE  MigrationInv'
  <1>1. lock = c /\ At(c, "resync") /\ pc[c] = "resync"
    BY DEF Resync, At
  <1>2. CASE Fail(c, "committed")
    BY <1>1, <1>2, Failing DEF Statuses
  <1>3. CASE DirectorySynced /\ Continue(c, "reread") /\ UNCHANGED held
    <2>1. pc'[c] = "reread" => Established(c)'
      BY <1>1, <1>3, Synced, Unfolded DEF Established
    <2> QED BY <1>1, <1>3, <2>1, SyncedOnward DEF Steps
  <1> QED BY <1>2, <1>3 DEF Resync

(* The record read again is the one that was synced.                       *)
LEMMA RereadKeeps ==
    ASSUME MigrationInv, NEW c \in Callers, Reread(c)
    PROVE  MigrationInv'
  <1>1. lock = c /\ pc[c] = "reread" /\ held[c] \in Memory
    BY Unfolded DEF Reread, At, Calls
  <1>2. CASE Fail(c, "committed")
    BY <1>1, <1>2, Failing DEF Statuses
  <1>3. CASE record.seen = held[c].raw /\ Succeed(c, held[c].raw)
    <2>1. PreparedV2(held[c].raw) /\ record = Stored(held[c].raw) /\ held[c].raw \in Contents
      BY <1>1, <1>3, Unfolded DEF Established, Memory
    <2> QED BY <1>1, <1>3, <2>1, Succeeding
  <1> QED BY <1>2, <1>3 DEF Reread

(* The recheck is a look at the source and nothing more.                   *)
LEMMA RecheckKeeps ==
    ASSUME MigrationInv, NEW c \in Callers, Recheck(c)
    PROVE  MigrationInv'
  <1> DEFINE m == [held[c] EXCEPT !.looked = identity]
  <1>1. lock = c /\ At(c, "recheck") /\ pc[c] = "recheck" /\ held[c] \in Memory
    BY Unfolded DEF Recheck, At, Calls
  <1>2. CASE Fail(c, "refused")
    BY <1>1, <1>2, Failing DEF Statuses
  <1>3. CASE Keep(c, m) /\ Continue(c, "replace") /\ UNCHANGED files
    <2>1. m \in Memory /\ m.raw = held[c].raw /\ m.candidate = held[c].candidate
      BY <1>1, Unfolded DEF Memory, Files
    <2>2. promised' = {}
      BY <1>1, <1>3, Unfolded DEF Established, Continue, history
    <2>3. pc'[c] = "replace" /\ held'[c] = m => Established(c)'
      BY <1>1, <2>1, <2>2, Unfolded DEF Established
    <2> QED BY <1>1, <1>3, <2>1, <2>3, Onward DEF Steps
  <1> QED BY <1>2, <1>3 DEF Recheck

(* Nothing is promised from the read to the rename.                        *)
LEMMA ReplaceKeeps ==
    ASSUME MigrationInv, NEW c \in Callers, Replace(c)
    PROVE  MigrationInv'
  <1>1. lock = c /\ At(c, "replace") /\ pc[c] = "replace" /\ held[c] \in Memory
    BY Unfolded DEF Replace, At, Calls
  <1>2. ASSUME Continue(c, "observe"), UNCHANGED <<marker, spare>>,
               NEW failed \in {"no", "error"}, Keep(c, [held[c] EXCEPT !.failed = failed]),
               \/ record' = Renamed(record, held[c].candidate) /\ identity' = identity + 1
               \/ UNCHANGED <<record, identity>>
        PROVE  MigrationInv'
    <2> DEFINE m == [held[c] EXCEPT !.failed = failed]
    <2>1. m \in Memory /\ m.raw = held[c].raw /\ m.candidate = held[c].candidate
      BY <1>1 DEF Memory
    <2>2. held' \in [Callers -> Memory] /\ held'[c] = m
      BY <1>2, <2>1, Kept, Unfolded
    <2>3. Calls' /\ Alone(c) /\ pc'[c] = "observe"
      BY <1>1, <1>2, <2>2, Continued, Unfolded DEF Steps
    <2>4. promised = {}
      BY <1>1, Unfolded DEF Established
    <2>5. held[c].candidate \in Contents
      BY <1>1 DEF Memory
    <2>6. Files' /\ Promises' /\ EvidenceVisible'
      BY <1>2, <2>4, <2>5, RecordRenamed, Unfolded DEF Continue, Files, Promises, EvidenceVisible, MarkerReadable, SecondLink, history
    <2>7. Established(c)'
      BY <1>1, <2>1, <2>2, <2>3, Unfolded DEF Established
    <2> QED BY <2>3, <2>6, <2>7, Assembled
  <1> QED BY <1>2 DEF Replace

(* What the name holds is looked at, never changed.                        *)
LEMMA ObserveKeeps ==
    ASSUME MigrationInv, NEW c \in Callers, Observe(c)
    PROVE  MigrationInv'
  <1>1. lock = c /\ At(c, "observe") /\ pc[c] = "observe" /\ held[c] \in Memory
    BY Unfolded DEF Observe, At, Calls
  <1>2. CASE Fail(c, "committed") \/ Fail(c, "refused")
    BY <1>1, <1>2, Failing DEF Statuses
  <1>3. CASE Continue(c, "sync") /\ UNCHANGED <<files, held>>
    <2>1. Keep(c, held[c])
      BY <1>3, Unfolded DEF Keep, Calls
    <2>2. pc'[c] = "sync" /\ held'[c] = held[c] => Established(c)'
      BY <1>1, Unfolded DEF Established
    <2> QED BY <1>1, <1>3, <2>1, <2>2, Onward DEF Steps
  <1> QED BY <1>2, <1>3 DEF Observe

(* The sync leaves the candidate alone on disk.                            *)
LEMMA SyncKeeps ==
    ASSUME MigrationInv, NEW c \in Callers, Sync(c)
    PROVE  MigrationInv'
  <1>1. lock = c /\ At(c, "sync") /\ pc[c] = "sync"
    BY DEF Sync, At
  <1>2. CASE Fail(c, "committed")
    BY <1>1, <1>2, Failing DEF Statuses
  <1>3. CASE DirectorySynced /\ Continue(c, "verify") /\ UNCHANGED held
    <2>1. pc'[c] = "verify" => Established(c)'
      BY <1>1, <1>3, Synced, Unfolded DEF Established
    <2> QED BY <1>1, <1>3, <2>1, SyncedOnward DEF Steps
  <1> QED BY <1>2, <1>3 DEF Sync

(* The record read at the end is the one that was synced.                  *)
LEMMA VerifyKeeps ==
    ASSUME MigrationInv, NEW c \in Callers, Verify(c)
    PROVE  MigrationInv'
  <1>1. lock = c /\ pc[c] = "verify" /\ held[c] \in Memory
    BY Unfolded DEF Verify, At, Calls
  <1>2. CASE Fail(c, "committed")
    BY <1>1, <1>2, Failing DEF Statuses
  <1>3. CASE record.seen = held[c].candidate /\ Succeed(c, held[c].candidate)
    <2>1. /\ PreparedV2(held[c].candidate) /\ record = Stored(held[c].candidate)
          /\ held[c].candidate \in Contents
      BY <1>1, <1>3, Unfolded DEF Established, Memory
    <2> QED BY <1>1, <1>3, <2>1, Succeeding
  <1> QED BY <1>2, <1>3 DEF Verify

-----------------------------------------------------------------------------
(* persistQuarantineMarker: these steps never touch the record.            *)

Marking == {"mark", "link", "unlink", "recover", "marksync", "markverify"}

(* The record that is being quarantined is a historical one.               *)
LEMMA Quarantining ==
    ASSUME MigrationInv, NEW c \in Callers, pc[c] \in Marking
    PROVE  /\ ClassifyLegacyV1(held[c].raw) = "quarantine" /\ held[c].raw \in Historical
           /\ held[c].mark # None => MarkerFor(held[c].mark, held[c].raw)
  BY Unfolded, Versions DEF Marking, Established, Calls, Memory

(* A step to another place of the same procedure.                          *)
LEMMA MarkOnward ==
    ASSUME MigrationInv, NEW c \in Callers, NEW from \in Marking, At(c, from),
           NEW to \in Marking \ {"link"}, Continue(c, to),
           NEW m \in Memory, Keep(c, m), m.raw = held[c].raw,
           m.mark \in {None, held[c].mark},
           UNCHANGED <<record, identity>>, EvidenceVisible',
           marker' \in FileOf(MarkerContents), marker'.seen \in marker'.disk,
           spare' \in FileOf(Markers \cup {Absent}), spare'.seen \in spare'.disk
    PROVE  MigrationInv'
  <1>1. held' \in [Callers -> Memory] /\ held'[c] = m
    BY Kept, Unfolded
  <1>2. Calls' /\ Alone(c) /\ pc'[c] = to
    BY <1>1, Continued, Unfolded DEF Marking, Steps
  <1>3. Files' /\ Promises'
    BY Unfolded DEF Continue, Files, Promises, history
  <1>4. Established(c)'
    BY <1>1, <1>2, Quarantining DEF At, Marking, Established
  <1> QED BY <1>2, <1>3, <1>4, Assembled

(* A return from it.                                                       *)
LEMMA MarkEnd ==
    ASSUME MigrationInv, NEW c \in Callers, lock = c, Return(c, "unmarked"),
           UNCHANGED <<record, identity, history>>, EvidenceVisible',
           marker' \in FileOf(MarkerContents), marker'.seen \in marker'.disk,
           spare' \in FileOf(Markers \cup {Absent}), spare'.seen \in spare'.disk
    PROVE  MigrationInv'
  <1>1. Calls' /\ Alone(c) /\ pc'[c] = "idle"
    BY Returned, Unfolded DEF Statuses
  <1>2. Files' /\ Promises' /\ EvidenceVisible'
    BY Unfolded DEF Return, Files, Promises, history
  <1> QED BY <1>1, <1>2, Ended, Assembled

(* Removing the temporary name leaves a file.                              *)
LEMMA RemovedName ==
    ASSUME Files
    PROVE  /\ Removed \in FileOf(Markers \cup {Absent}) /\ Removed.seen \in Removed.disk
           /\ marker \in FileOf(MarkerContents) /\ marker.seen \in marker.disk
           /\ spare \in FileOf(Markers \cup {Absent}) /\ spare.seen \in spare.disk
  BY DEF Files, FileOf, Removed

(* ... and takes no marker away.                                           *)
LEMMA RemovedReadable ==
    ASSUME Files, EvidenceVisible, UNCHANGED <<marker, history>>, spare' \in {Removed, spare}
    PROVE  EvidenceVisible'
  <1>1. Removed.seen = Absent
    BY DEF Removed, Files, FileOf
  <1>2. MarkerReadable => MarkerReadable'
    BY <1>1 DEF MarkerReadable, SecondLink
  <1> QED BY <1>2 DEF EvidenceVisible, history

(* A marker is made for the record that was read.                          *)
LEMMA MarkKeeps ==
    ASSUME MigrationInv, NEW c \in Callers, Mark(c)
    PROVE  MigrationInv'
  <1>1. lock = c /\ At(c, "mark") /\ pc[c] = "mark" /\ held[c] \in Memory
    BY Unfolded DEF Mark, At, Calls
  <1>2. ClassifyLegacyV1(held[c].raw) = "quarantine" /\ held[c].raw \in Historical
    BY <1>1, Quarantining DEF Marking
  <1>3. CASE Fail(c, "unmarked")
    BY <1>1, <1>3, Failing DEF Statuses
  <1>4. CASE MarkerReadable /\ MarkerFor(marker.seen, held[c].raw) /\ Refuse(c)
    BY <1>1, <1>2, <1>4, Refusing
  <1>5. ASSUME NEW t \in Times, Keep(c, [held[c] EXCEPT !.mark = Marker(held[c].raw, t)]),
               Continue(c, "link"), UNCHANGED files
        PROVE  MigrationInv'
    <2> DEFINE m == [held[c] EXCEPT !.mark = Marker(held[c].raw, t)]
    <2>1. Marker(held[c].raw, t) \in Markers /\ MarkerFor(Marker(held[c].raw, t), held[c].raw)
      BY <1>2, MarkerForms
    <2>2. /\ m \in Memory /\ m.raw = held[c].raw
          /\ m.mark \in Markers /\ MarkerFor(m.mark, m.raw)
      BY <1>1, <2>1 DEF Memory
    <2>3. pc'[c] = "link" /\ held'[c] = m => Established(c)'
      BY <1>2, <2>2, MarkerForms DEF Established
    <2> QED BY <1>1, <1>5, <2>2, <2>3, Onward DEF Steps
  <1>6. CASE Continue(c, "recover") /\ UNCHANGED <<files, held>>
    <2>1. Keep(c, held[c])
      BY <1>6, Unfolded DEF Keep, Calls
    <2>2. EvidenceVisible'
      BY <1>6, Unfolded DEF Continue, files, history, EvidenceVisible, MarkerReadable, SecondLink
    <2> QED BY <1>1, <1>6, <2>1, <2>2, RemovedName, MarkOnward, Unfolded DEF Marking, files
  <1> QED BY <1>3, <1>4, <1>5, <1>6 DEF Mark

(* The name was free, so no refusal relied on it.                          *)
LEMMA LinkKeeps ==
    ASSUME MigrationInv, NEW c \in Callers, Link(c)
    PROVE  MigrationInv'
  <1>1. lock = c /\ At(c, "link") /\ pc[c] = "link" /\ held[c] \in Memory
    BY Unfolded DEF Link, At, Calls
  <1>2. held[c].mark \in Markers
    BY <1>1, Unfolded DEF Established, Memory
  <1>3. ASSUME NEW failed \in {"no", "error", "exists"}, NEW linked \in BOOLEAN,
               Keep(c, [held[c] EXCEPT !.linked = linked, !.failed = failed]),
               Continue(c, "unlink"), UNCHANGED <<record, identity>>,
               \/ /\ NameFree
                  /\ marker' = Renamed(marker, held[c].mark) /\ spare' = Renamed(spare, held[c].mark)
               \/ UNCHANGED <<marker, spare>>
        PROVE  MigrationInv'
    <2> DEFINE m == [held[c] EXCEPT !.linked = linked, !.failed = failed]
    <2>1. m \in Memory /\ m.raw = held[c].raw /\ m.mark = held[c].mark
      BY <1>1 DEF Memory
    <2>2. /\ marker' \in FileOf(MarkerContents) /\ marker'.seen \in marker'.disk
          /\ spare' \in FileOf(Markers \cup {Absent}) /\ spare'.seen \in spare'.disk
      BY <1>2, <1>3, Unfolded DEF Files, FileOf, MarkerContents, Renamed
    <2>3. NameFree => evidenced = {}
      BY Unfolded DEF NameFree, EvidenceVisible, MarkerFor
    <2>4. EvidenceVisible'
      BY <1>3, <2>3, Unfolded DEF Continue, history, EvidenceVisible, MarkerReadable, SecondLink
    <2> QED BY <1>1, <1>3, <2>1, <2>2, <2>4, MarkOnward DEF Marking
  <1>5. CASE /\ Keep(c, [held[c] EXCEPT !.failed = "exists"]) \/ Keep(c, [held[c] EXCEPT !.failed = "error"])
             /\ UNCHANGED files /\ Continue(c, "unlink")
    <2>1. \A f : [held[c] EXCEPT !.failed = f]
                   = [held[c] EXCEPT !.linked = held[c].linked, !.failed = f]
      BY <1>1 DEF Memory
    <2>2. held[c].linked \in BOOLEAN
      BY <1>1 DEF Memory
    <2> QED BY <1>3, <1>5, <2>1, <2>2 DEF files
  <1> QED BY <1>3, <1>5 DEF Link

(* Removing the second name keeps the first.                               *)
LEMMA UnlinkKeeps ==
    ASSUME MigrationInv, NEW c \in Callers, Unlink(c)
    PROVE  MigrationInv'
  <1>1. lock = c /\ At(c, "unlink") /\ held[c] \in Memory
    BY Unfolded DEF Unlink, At, Calls
  <1>2. /\ UNCHANGED <<record, identity, marker>>
        /\ marker' \in FileOf(MarkerContents) /\ marker'.seen \in marker'.disk
        /\ spare' \in FileOf(Markers \cup {Absent}) /\ spare'.seen \in spare'.disk
    BY RemovedName, Unfolded DEF Unlink, Unlinked
  <1>2a. EvidenceVisible'
    BY <1>2, RemovedReadable, Unfolded DEF Unlink, Unlinked, Continue, Return
  <1>3. CASE (Continue(c, "marksync") \/ Continue(c, "markverify")) /\ UNCHANGED held
    <2>1. Keep(c, held[c])
      BY <1>3, Unfolded DEF Keep, Calls
    <2> QED BY <1>1, <1>2, <1>3, <1>2a, <2>1, MarkOnward DEF Marking
  <1>4. CASE Return(c, "unmarked") /\ UNCHANGED history
    BY <1>1, <1>2, <1>4, <1>2a, MarkEnd
  <1>5. CASE Keep(c, [held[c] EXCEPT !.mark = None]) /\ Continue(c, "recover")
    <2>1. [held[c] EXCEPT !.mark = None] \in Memory
          /\ [held[c] EXCEPT !.mark = None].raw = held[c].raw
          /\ [held[c] EXCEPT !.mark = None].mark = None
      BY <1>1 DEF Memory
    <2> QED BY <1>1, <1>2, <1>5, <1>2a, <2>1, MarkOnward DEF Marking
  <1> QED BY <1>3, <1>4, <1>5 DEF Unlink

(* So does removing a link that another call left.                         *)
LEMMA RecoverKeeps ==
    ASSUME MigrationInv, NEW c \in Callers, Recover(c)
    PROVE  MigrationInv'
  <1>1. lock = c /\ At(c, "recover") /\ held[c] \in Memory
    BY Unfolded DEF Recover, At, Calls
  <1>2. CASE Fail(c, "unmarked")
    BY <1>1, <1>2, Failing DEF Statuses
  <1>3. CASE /\ spare' = IF SecondLink THEN Removed ELSE spare
             /\ \/ Continue(c, "marksync") /\ UNCHANGED held
                \/ Return(c, "unmarked") /\ UNCHANGED history
             /\ UNCHANGED <<record, identity, marker>>
    <2>1. /\ marker' \in FileOf(MarkerContents) /\ marker'.seen \in marker'.disk
          /\ spare' \in FileOf(Markers \cup {Absent}) /\ spare'.seen \in spare'.disk
      BY <1>3, RemovedName, Unfolded
    <2>2. EvidenceVisible'
      BY <1>3, RemovedReadable, Unfolded DEF Continue, Return
    <2>3. CASE Continue(c, "marksync") /\ UNCHANGED held
      <3>1. Keep(c, held[c])
        BY <2>3, Unfolded DEF Keep, Calls
      <3> QED BY <1>1, <1>3, <2>1, <2>2, <2>3, <3>1, MarkOnward DEF Marking
    <2>4. CASE Return(c, "unmarked") /\ UNCHANGED history
      BY <1>1, <1>3, <2>1, <2>2, <2>4, MarkEnd
    <2> QED BY <1>3, <2>3, <2>4
  <1> QED BY <1>2, <1>3 DEF Recover

(* Syncing takes no marker away.                                           *)
LEMMA MarkSyncKeeps ==
    ASSUME MigrationInv, NEW c \in Callers, MarkSync(c)
    PROVE  MigrationInv'
  <1>1. lock = c /\ At(c, "marksync") /\ pc[c] = "marksync"
    BY DEF MarkSync, At
  <1>2. CASE Fail(c, "unmarked")
    BY <1>1, <1>2, Failing DEF Statuses
  <1>3. CASE DirectorySynced /\ Continue(c, "markverify") /\ UNCHANGED held
    <2>1. pc'[c] = "markverify" => Established(c)'
      BY <1>1, <1>3, Quarantining DEF Established, Marking
    <2> QED BY <1>1, <1>3, <2>1, SyncedOnward DEF Steps
  <1> QED BY <1>2, <1>3 DEF MarkSync

(* The refusal follows a marker that was just read.                        *)
LEMMA MarkVerifyKeeps ==
    ASSUME MigrationInv, NEW c \in Callers, MarkVerify(c)
    PROVE  MigrationInv'
  <1>1. lock = c /\ pc[c] = "markverify"
    BY DEF MarkVerify, At
  <1>2. CASE Fail(c, "unmarked")
    BY <1>1, <1>2, Failing DEF Statuses
  <1>3. CASE /\ MarkerReadable
             /\ IF held[c].mark = None \/ held[c].failed = "exists"
                THEN MarkerFor(marker.seen, held[c].raw)
                ELSE marker.seen = held[c].mark
             /\ Refuse(c)
    BY <1>1, <1>3, Quarantining, Refusing DEF Marking
  <1> QED BY <1>2, <1>3 DEF MarkVerify

-----------------------------------------------------------------------------
(* Kills, outages and other programs.                                      *)

(* A killed caller only lets go of the lock.                               *)
LEMMA KillKeeps ==
    ASSUME MigrationInv, NEW c \in Callers, Kill(c)
    PROVE  MigrationInv'
  BY Failing, Unfolded DEF Kill, Calls, Statuses

(* A counted trouble stays within the bound.                               *)
LEMMA TroubleCounted ==
    ASSUME Files, troubles < MaxTroubles, troubles' = troubles + 1
    PROVE  troubles' \in 0 .. MaxTroubles
  BY CallersAssumption DEF Files

(* A promised record has no competing content to come back.                *)
LEMMA PowerLossKeeps ==
    ASSUME MigrationInv, PowerLoss
    PROVE  MigrationInv'
  <1>1. PICK r \in record.disk, m \in marker.disk, s \in spare.disk :
            record' = Stored(r) /\ marker' = Stored(m) /\ spare' = Stored(s)
    BY DEF PowerLoss
  <1>2. /\ record' \in FileOf(Contents) /\ record'.seen \in record'.disk
        /\ marker' \in FileOf(MarkerContents) /\ marker'.seen \in marker'.disk
        /\ spare' \in FileOf(Markers \cup {Absent}) /\ spare'.seen \in spare'.disk
    BY <1>1, Unfolded DEF Files, FileOf, Stored
  <1>3. Files'
    BY <1>2, TroubleCounted, Unfolded DEF PowerLoss, Files
  <1>4. Promises'
    <2>1. ASSUME NEW p \in promised PROVE PreparedV2(p) /\ record' = Stored(p)
      BY <1>1, <2>1, Unfolded DEF Promises, Stored
    <2> QED BY <2>1 DEF PowerLoss, Promises
  <1>5. EvidenceVisible'
    BY DEF PowerLoss, EvidenceVisible
  <1>6. /\ \A c \in Callers : pc'[c] = "idle"
        /\ pc' \in [Callers -> Steps] /\ answer' \in [Callers -> Statuses]
        /\ held' \in [Callers -> Memory]
    BY NothingRemembered, Unfolded DEF PowerLoss, Calls, Steps, Statuses
  <1>7. Calls'
    BY <1>6, CallersAssumption, Unfolded DEF PowerLoss, Calls
  <1>8. \A c \in Callers : Established(c)'
    BY <1>6, Ended
  <1> QED BY <1>3, <1>4, <1>5, <1>7, <1>8 DEF MigrationInv, TypeOK, Calls, Files, Promises

(* What another program puts there is never what a call waits to confirm.  *)
LEMMA ReplaceRecordKeeps ==
    ASSUME MigrationInv, ReplaceRecord
    PROVE  MigrationInv'
  <1>1. PICK r \in Historical \cup {Torn} : record' = Renamed(record, r)
    BY DEF ReplaceRecord
  <1>2. r \in Contents
    BY DEF Contents
  <1>3. record' \in FileOf(Contents) /\ record'.seen \in record'.disk /\ record'.seen = r
    BY <1>1, <1>2, RecordRenamed, Unfolded
  <1>4. Files'
    BY <1>3, TroubleCounted, Unfolded DEF ReplaceRecord, Files
  <1>5. Promises'
    BY DEF ReplaceRecord, Promises
  <1>6. EvidenceVisible'
    BY Unfolded DEF ReplaceRecord, EvidenceVisible, MarkerReadable, SecondLink
  <1>7. Calls'
    BY Unfolded DEF ReplaceRecord, Calls
  <1>8. \A v : PreparedV2(v) => record'.seen # v
    BY <1>3, Versions
  <1>9. ASSUME NEW c \in Callers PROVE Established(c)'
    BY <1>8, Unfolded DEF ReplaceRecord, Established
  <1> QED BY <1>4, <1>5, <1>6, <1>7, <1>9 DEF MigrationInv, TypeOK, Calls, Files, Promises

(* A replaced marker is evidence for nobody.                               *)
LEMMA ReplaceMarkerKeeps ==
    ASSUME MigrationInv, ReplaceMarker
    PROVE  MigrationInv'
  <1>1. PICK m \in ({Torn} \cup {Marker(r, t) : r \in Historical, t \in Times \ EarlyTimes}) :
            marker' = Renamed(marker, m)
    BY DEF ReplaceMarker
  <1>2. m \in MarkerContents
    BY MarkerForms DEF MarkerContents
  <1>3. marker' \in FileOf(MarkerContents) /\ marker'.seen \in marker'.disk
    BY <1>1, <1>2, Unfolded DEF Files, FileOf, Renamed
  <1>4. Files'
    BY <1>3, TroubleCounted, Unfolded DEF ReplaceMarker, Files
  <1>5. Promises' /\ EvidenceVisible'
    BY Unfolded DEF ReplaceMarker, Promises, EvidenceVisible
  <1>6. Calls'
    BY Unfolded DEF ReplaceMarker, Calls
  <1>7. ASSUME NEW c \in Callers PROVE Established(c)'
    BY Unfolded DEF ReplaceMarker, Established
  <1> QED BY <1>4, <1>5, <1>6, <1>7 DEF MigrationInv, TypeOK, Calls, Files, Promises

-----------------------------------------------------------------------------
(* The action properties.                                                  *)

(* Only Create and Replace change what the record's name shows.            *)
LEMMA RecordUntouched ==
    ASSUME MigrationInv, NEW c \in Callers, Step(c), ~Create(c), ~Replace(c)
    PROVE  record'.seen = record.seen
  <1>1. CASE UNCHANGED record
    BY <1>1
  <1>2. CASE DirectorySynced
    BY <1>2, Synced, Unfolded
  <1>3. UNCHANGED record \/ DirectorySynced
    <2>1. CASE \/ \E t \in Times : BeginCreate(c, t)
               \/ \E expected \in {1, 2} : BeginMigrate(c, expected)
               \/ Inspect(c) \/ Read(c) \/ Recheck(c) \/ Reread(c) \/ Observe(c)
               \/ Verify(c) \/ Kill(c)
      BY <2>1 DEF BeginCreate, BeginMigrate, Inspect, Read, Recheck, Reread, Observe,
                  Verify, Kill, Fail, Succeed, files
    <2>2. CASE CreateSync(c) \/ Resync(c) \/ Sync(c) \/ MarkSync(c)
      BY <2>2 DEF CreateSync, Resync, Sync, MarkSync, Fail, files
    <2>3. CASE Mark(c) \/ Link(c) \/ Unlink(c) \/ Recover(c) \/ MarkVerify(c)
      BY <2>3 DEF Mark, Link, Unlink, Recover, MarkVerify, Refuse, Fail, files
    <2> QED BY <2>1, <2>2, <2>3 DEF Step
  <1> QED BY <1>1, <1>2, <1>3

(* What a call saw when it last looked is what the name holds until another*)
(* program puts something else there.                                      *)
Looked ==
    \A c \in Callers : pc[c] \in {"write", "replace"} =>
        /\ held[c].looked <= identity
        /\ held[c].looked = identity =>
               record.seen = IF pc[c] = "write" THEN Absent ELSE held[c].raw

(* Only the two looks lead to a rename.                                    *)
LEMMA LookedBefore ==
    ASSUME MigrationInv, NEW q \in Callers, Step(q), NEW c \in Callers,
           pc'[c] \in {"write", "replace"}
    PROVE  c = q /\ (Inspect(q) \/ Recheck(q))
  <1>1. c = q
    <2>1. lock \in {None, q}
      BY Unfolded DEF Step, BeginCreate, Inspect, Create, CreateSync, BeginMigrate, Read, Resync,
         Reread, Recheck, Replace, Observe, Sync, Verify, Mark, Link, Unlink, Recover, MarkSync,
         MarkVerify, Kill, At, Calls
    <2>2. \A r \in Callers \ {q} : pc'[r] = pc[r]
      BY Unfolded DEF Step, BeginCreate, Inspect, Create, CreateSync, BeginMigrate, Read, Resync,
         Reread, Recheck, Replace, Observe, Sync, Verify, Mark, Link, Unlink, Recover, MarkSync,
         MarkVerify, Kill, Calls, Continue, Return, Fail, Succeed, Refuse
    <2>3. c # q => pc[c] = "idle"
      BY <2>1, CallersAssumption, Unfolded DEF Calls
    <2> QED BY <2>2, <2>3
  <1>2. pc'[q] \in {"write", "replace"} => Inspect(q) \/ Recheck(q)
    BY Unfolded DEF Step, BeginCreate, Create, CreateSync, BeginMigrate, Read, Resync, Reread,
       Replace, Observe, Sync, Verify, Mark, Link, Unlink, Recover, MarkSync, MarkVerify, Kill,
       Calls, Continue, Return, Fail, Succeed, Refuse
  <1> QED BY <1>1, <1>2

(* A look records the file it saw; every replacement makes another one.    *)
LEMMA LookedStep == MigrationInv /\ Looked /\ [Next]_vars => Looked'
  <1> SUFFICES ASSUME MigrationInv, Looked, [Next]_vars PROVE Looked'
    OBVIOUS
  <1>1. ASSUME NEW q \in Callers, Step(q) PROVE Looked'
    <2> SUFFICES ASSUME NEW c \in Callers, pc'[c] \in {"write", "replace"}
                 PROVE  /\ held'[c].looked <= identity'
                        /\ held'[c].looked = identity' =>
                               record'.seen = IF pc'[c] = "write" THEN Absent ELSE held'[c].raw
      BY DEF Looked
    <2>1. c = q /\ (Inspect(c) \/ Recheck(c))
      BY <1>1, LookedBefore
    <2>2. held[c] \in Memory /\ held \in [Callers -> Memory] /\ pc \in [Callers -> Steps]
      BY Unfolded DEF Calls
    <2>3. ~Fail(c, "refused")
      BY <2>2 DEF Fail, Return
    <2>4. /\ held' = [held EXCEPT ![c] = [held[c] EXCEPT !.looked = identity]]
          /\ UNCHANGED files
          /\ \/ pc'[c] = "write" /\ MayCreate
             \/ pc'[c] = "replace" /\ SourceUnchanged(c)
      BY <2>1, <2>2, <2>3 DEF Inspect, Recheck, Keep, Continue
    <2>5. held'[c].looked = identity /\ held'[c].raw = held[c].raw
      BY <2>2, <2>4 DEF Memory
    <2>6. identity \in Nat
      BY Unfolded DEF Files
    <2> QED BY <2>4, <2>5, <2>6 DEF files, MayCreate, SourceUnchanged
  <1>2. CASE PowerLoss
    BY <1>2 DEF PowerLoss, Looked
  <1>3. CASE ReplaceRecord
    <2>1. \A c \in Callers : held[c].looked \in Nat
      BY Unfolded DEF Calls, Memory
    <2> QED BY <1>3, <2>1, Unfolded DEF ReplaceRecord, Looked, Files
  <1>4. CASE ReplaceMarker \/ UNCHANGED vars
    BY <1>4 DEF ReplaceMarker, Looked, vars, files
  <1> QED BY <1>1, <1>2, <1>3, <1>4 DEF Next

(* A new record takes a free name, a migrated one its own source's, unless *)
(* another program was there after the last look.                          *)
LEMMA StepKeepsSource ==
    ASSUME MigrationInv, Looked, NEW c \in Callers, Step(c)
    PROVE  SourceStep
  <1>1. CASE Create(c)
    <2>1. pc[c] = "write" /\ PreparedV2(held[c].candidate) /\ held[c].candidate.source = None
      BY <1>1, Unfolded DEF Create, At, Established
    <2>2. record'.seen \in {record.seen, held[c].candidate}
      BY <1>1 DEF Create, Fail, files, Renamed
    <2>3. identity = held[c].looked => record.seen = Absent
      BY <2>1 DEF Looked
    <2> QED BY <2>1, <2>2, <2>3 DEF SourceStep, Overtaken
  <1>2. CASE Replace(c)
    <2>1. /\ pc[c] = "replace"
          /\ ClassifyLegacyV1(held[c].raw) = "migratable"
          /\ PreparedV2(held[c].candidate)
          /\ held[c].candidate.source = held[c].raw
      BY <1>2, Unfolded DEF Replace, At, Established
    <2>2. record'.seen \in {record.seen, held[c].candidate}
      BY <1>2 DEF Replace, Renamed
    <2>3. identity = held[c].looked => record.seen = held[c].raw
      BY <2>1 DEF Looked
    <2> QED BY <2>1, <2>2, <2>3 DEF SourceStep, Overtaken
  <1> QED BY <1>1, <1>2, RecordUntouched DEF SourceStep

(* The call that reports an error after its rename read its own source.    *)
LEMMA StepRefusesHonestly ==
    ASSUME MigrationInv, NEW c \in Callers, Step(c)
    PROVE  RefusalStep
  <1> SUFFICES ASSUME NEW q \in Callers, pc[q] = "observe", answer'[q] = "refused"
               PROVE  record.seen # held[q].candidate
    BY DEF RefusalStep
  <1>1. lock = q /\ answer[q] = "idle" /\ answer \in [Callers -> Statuses] /\ q # None
    BY CallersAssumption, Unfolded DEF Calls
  <1>2. c = q
    <2>1. \A s \in Steps \ {"idle"} : pc[c] = s => lock = c
      BY Unfolded DEF Calls
    <2>2. lock = c \/ lock = None
      BY <2>1, Unfolded DEF Step, BeginCreate, Inspect, Create, CreateSync, BeginMigrate, Read, Resync,
         Reread, Recheck, Replace, Observe, Sync, Verify, Mark, Link, Unlink, Recover, MarkSync,
         MarkVerify, Kill, At, Calls
    <2> QED BY <1>1, <2>2
  <1>3. Observe(c) \/ Kill(c)
    BY <1>1, <1>2 DEF Step, BeginCreate, Inspect, Create, CreateSync, BeginMigrate, Read, Resync,
       Reread, Recheck, Replace, Sync, Verify, Mark, Link, Unlink, Recover, MarkSync, MarkVerify, At
  <1>4. ~Kill(c)
    BY <1>1, <1>2 DEF Kill, Fail, Return
  <1>5. DidNotCommit(c)
    BY <1>1, <1>2, <1>3, <1>4 DEF Observe, Fail, Return, Continue
  <1> QED BY <1>2, <1>5, Versions, Unfolded DEF DidNotCommit, Established

(* Only Link gives the marker's name another content, and it was free.     *)
LEMMA StepKeepsMarker ==
    ASSUME MigrationInv, NEW c \in Callers, Step(c)
    PROVE  MarkerStep
  <1>1. CASE UNCHANGED marker
    BY <1>1 DEF MarkerStep
  <1>2. CASE DirectorySynced
    BY <1>2, DirectorySyncKeeps, Unfolded DEF MarkerStep
  <1>3. CASE NameFree
    BY <1>3 DEF NameFree, MarkerStep
  <1>4. UNCHANGED marker \/ DirectorySynced \/ NameFree
    <2>1. CASE \/ \E t \in Times : BeginCreate(c, t)
               \/ \E expected \in {1, 2} : BeginMigrate(c, expected)
               \/ Inspect(c) \/ Create(c) \/ Read(c) \/ Reread(c) \/ Recheck(c) \/ Replace(c)
               \/ Observe(c) \/ Verify(c) \/ Kill(c)
      BY <2>1 DEF BeginCreate, BeginMigrate, Inspect, Create, Read, Reread, Recheck, Replace,
                  Observe, Verify, Kill, Fail, Succeed, files
    <2>2. CASE CreateSync(c) \/ Resync(c) \/ Sync(c) \/ MarkSync(c)
      BY <2>2 DEF CreateSync, Resync, Sync, MarkSync, Fail, files
    <2>3. CASE Mark(c) \/ Link(c) \/ Unlink(c) \/ Recover(c) \/ MarkVerify(c)
      BY <2>3 DEF Mark, Link, Unlink, Recover, MarkVerify, Refuse, Fail, files
    <2> QED BY <2>1, <2>2, <2>3 DEF Step
  <1> QED BY <1>1, <1>2, <1>3, <1>4

(* Outages and replacements are counted; nothing else moves without a call.*)
LEMMA NextKeepsActions ==
    MigrationInv /\ Looked /\ [Next]_vars
        => [SourceStep]_vars /\ [RefusalStep]_vars /\ [MarkerStep]_vars
  <1> SUFFICES ASSUME MigrationInv, Looked, Next PROVE SourceStep /\ RefusalStep /\ MarkerStep
    OBVIOUS
  <1>1. ASSUME NEW c \in Callers, Step(c) PROVE SourceStep /\ RefusalStep /\ MarkerStep
    BY <1>1, StepKeepsSource, StepRefusesHonestly, StepKeepsMarker
  <1>2. CASE PowerLoss \/ ReplaceRecord \/ ReplaceMarker
    <2>1. troubles' # troubles
      BY <1>2, Unfolded, CallersAssumption DEF PowerLoss, ReplaceRecord, ReplaceMarker, Files
    <2>2. \A c \in Callers : pc[c] = "observe" => answer'[c] # "refused"
      BY <1>2, Unfolded DEF PowerLoss, ReplaceRecord, ReplaceMarker, Calls
    <2> QED BY <2>1, <2>2 DEF SourceStep, MarkerStep, RefusalStep
  <1> QED BY <1>1, <1>2 DEF Next

-----------------------------------------------------------------------------
(* The theorems.                                                           *)

(* Nothing is promised at the start.                                       *)
LEMMA InitEstablishes == Init => MigrationInv
  <1> SUFFICES ASSUME Init PROVE MigrationInv
    OBVIOUS
  <1>1. PICK r \in Historical \cup {Absent, Torn} : record = Stored(r)
    BY DEF Init
  <1>2. r \in Contents
    BY DEF Contents
  <1>3. Files
    BY <1>1, <1>2, CallersAssumption DEF Init, Files, FileOf, Stored, Missing, MarkerContents
  <1>4. Calls
    BY NothingRemembered, CallersAssumption DEF Init, Calls, Steps, Statuses
  <1>5. Promises /\ EvidenceVisible
    BY DEF Init, Promises, EvidenceVisible
  <1>6. \A c \in Callers : Established(c)
    BY DEF Init, Established
  <1> QED BY <1>3, <1>4, <1>5, <1>6 DEF MigrationInv, TypeOK, Calls, Files, Promises

(* Every step keeps the invariant.                                         *)
LEMMA NextKeeps == MigrationInv /\ [Next]_vars => MigrationInv'
  <1> SUFFICES ASSUME MigrationInv, [Next]_vars PROVE MigrationInv'
    OBVIOUS
  <1>1. ASSUME NEW c \in Callers, Step(c) PROVE MigrationInv'
    BY <1>1, BeginCreateKeeps, InspectKeeps, CreateKeeps, CreateSyncKeeps, BeginMigrateKeeps, ReadKeeps,
       ResyncKeeps, RereadKeeps, RecheckKeeps, ReplaceKeeps, ObserveKeeps, SyncKeeps, VerifyKeeps,
       MarkKeeps, LinkKeeps, UnlinkKeeps, RecoverKeeps, MarkSyncKeeps, MarkVerifyKeeps,
       KillKeeps DEF Step
  <1>2. CASE UNCHANGED vars
    BY <1>2, Unfolded DEF vars, files, history, MigrationInv, TypeOK, Established,
       EvidenceVisible, MarkerReadable, SecondLink
  <1> QED BY <1>1, <1>2, PowerLossKeeps, ReplaceRecordKeeps, ReplaceMarkerKeeps DEF Next

(* The invariant of the journal of one plan.                               *)
THEOREM MigrationInvariant == Spec => []MigrationInv
  BY InitEstablishes, NextKeeps, PTL DEF Spec

(* Types, the lock and what an idle caller remembers.                      *)
THEOREM MigrationTypes == Spec => []TypeOK
  <1>1. MigrationInv => TypeOK
    BY DEF MigrationInv
  <1> QED BY <1>1, MigrationInvariant, PTL

(* What Create or MigratePreparedV1 reported as done survives any outage   *)
(* and every later call.                                                   *)
THEOREM MigrationDurable == Spec => []PromiseKept
  <1>1. MigrationInv => PromiseKept
    BY DEF MigrationInv, PromiseKept
  <1> QED BY <1>1, MigrationInvariant, PTL

(* A refusal that names no marker failure left a marker for that record.   *)
THEOREM MarkerPublished == Spec => []EvidenceVisible
  <1>1. MigrationInv => EvidenceVisible
    BY DEF MigrationInv
  <1> QED BY <1>1, MigrationInvariant, PTL

(* A call looks before it renames.                                         *)
LEMMA LookedInvariant == Spec => []Looked
  <1>1. Init => Looked
    BY DEF Init, Looked
  <1> QED BY <1>1, MigrationInvariant, LookedStep, PTL DEF Spec

(* No call replaces a record that was there when it looked last, except a  *)
(* pristine version 1 record by its own version 2.  A record that another  *)
(* program puts there after that look is all that a rename can hit, and    *)
(* then the call's own record takes its place.                             *)
THEOREM SourceSafe == Spec => SourceKept
  BY MigrationInvariant, LookedInvariant, NextKeepsActions, PTL DEF Spec, SourceKept

(* A migration reports a plain error only while its record is unpublished. *)
THEOREM RefusalHonest == Spec => RefusalMeansUntouched
  BY MigrationInvariant, LookedInvariant, NextKeepsActions, PTL DEF Spec, RefusalMeansUntouched

(* No call rewrites a marker.                                              *)
THEOREM MarkerStays == Spec => MarkerKept
  BY MigrationInvariant, LookedInvariant, NextKeepsActions, PTL DEF Spec, MarkerKept

-----------------------------------------------------------------------------
(* The life of one record of version 1.                                    *)

LEMMA MovedFields ==
    ASSUME plan \in Lifecycle!LegacyRecords, NEW t \in Times, NEW to \in Lifecycle!States
    PROVE  /\ Lifecycle!Moved(to, t) \in Lifecycle!LegacyRecords
           /\ Lifecycle!Moved(to, t).version = plan.version /\ Lifecycle!Moved(to, t).revision = plan.revision + 1
           /\ Lifecycle!Moved(to, t).state = to /\ Lifecycle!Moved(to, t).receipt = plan.receipt
           /\ Lifecycle!Moved(to, t).attempts = plan.attempts /\ Lifecycle!Moved(to, t).outcome = plan.outcome
           /\ Lifecycle!Moved(to, t).evidence = plan.evidence
           /\ Lifecycle!Moved(to, t).created = plan.created /\ Lifecycle!Moved(to, t).updated = t
  <1> DEFINE m == [plan EXCEPT !.revision = plan.revision + 1, !.state = to, !.updated = t]
  <1>1. Lifecycle!Moved(to, t) = m
    BY DEF Lifecycle!Moved
  <1>2. plan.revision + 1 \in Nat
    BY DEF Lifecycle!LegacyRecords
  <1>3. /\ m \in Lifecycle!LegacyRecords
        /\ m.version = plan.version /\ m.revision = plan.revision + 1 /\ m.state = to /\ m.receipt = plan.receipt
        /\ m.attempts = plan.attempts /\ m.outcome = plan.outcome /\ m.evidence = plan.evidence
        /\ m.created = plan.created /\ m.updated = t
    BY <1>2 DEF Lifecycle!LegacyRecords
  <1> QED
    BY <1>1, <1>3

(* What a state says of the record.                                        *)
LEMMA StateSays ==
    ASSUME Lifecycle!Shape(plan)
    PROVE  /\ plan.state \in {"prepared", "confirmed", "canceled", "expired"} => plan.attempts = 0
           /\ plan.state \in {"prepared", "confirmed", "canceled", "expired", "in_flight"} =>
                 plan.outcome = None /\ plan.evidence = 0
           /\ plan.state = "prepared" => plan.receipt = None
           /\ plan.state \in {"confirmed", "in_flight"} \cup Lifecycle!Dispatched \cup Lifecycle!Resolved => plan.receipt # None
           /\ plan.state \in {"in_flight"} \cup Lifecycle!Dispatched \cup Lifecycle!Resolved => plan.attempts = 1
           /\ plan.state \in Lifecycle!Dispatched =>
                 plan.evidence = 0 /\ plan.outcome # None /\ plan.outcome.code = plan.state
           /\ plan.state \in Lifecycle!Resolved =>
                 plan.evidence > 0 /\ plan.outcome # None /\ plan.outcome.code \in {"applied", "ambiguous"}
  BY DEF Lifecycle!Shape, Lifecycle!Dispatched, Lifecycle!Resolved

LEMMA TransitionFrom ==
    ASSUME NEW from, NEW to \in Lifecycle!allowedTransition(from)
    PROVE  /\ to \in Lifecycle!States /\ to # "prepared"
           /\ to = "confirmed" => from = "prepared"
           /\ to \in {"canceled", "expired"} => from \in {"prepared", "confirmed"}
           /\ to = "in_flight" => from = "confirmed"
           /\ to \in Lifecycle!Dispatched => from = "in_flight"
           /\ to \in Lifecycle!Resolved => from \in {"applied", "ambiguous", "operator_resolution_required"}
           /\ to \in {"reconciled", "operator_resolution_required"} => from \in {"applied", "ambiguous"}
  BY DEF Lifecycle!allowedTransition, Lifecycle!Dispatched, Lifecycle!Resolved, Lifecycle!States

(* The rules keep records valid, whatever the instant but one before the   *)
(* plan.                                                                   *)
LEMMA RulesSuffice == Lifecycle!RecordLegal => Lifecycle!OnlyTheClockRefuses
  <1> SUFFICES ASSUME Lifecycle!RecordLegal, NEW t \in Times, NEW to \in Lifecycle!allowedTransition(plan.state), NEW r,
                      r \in (CASE to = "confirmed" ->
                                {[Lifecycle!Moved(to, t) EXCEPT !.receipt = x] : x \in {y \in Lifecycle!Receipts : y.bound}}
                          [] to = "in_flight" -> {[Lifecycle!Moved(to, t) EXCEPT !.attempts = 1]}
                          [] to \in Lifecycle!Dispatched ->
                                {[Lifecycle!Moved(to, t) EXCEPT !.outcome = o] :
                                     o \in {x \in Lifecycle!Outcomes : x.code = to /\ Lifecycle!validateOutcome(x)}}
                          [] to \in Lifecycle!Resolved -> {[Lifecycle!Moved(to, t) EXCEPT !.evidence = @ + 1]}
                          [] OTHER -> {Lifecycle!Moved(to, t)})
               PROVE  Lifecycle!validateRecord(r) <=> t >= plan.created
    BY DEF Lifecycle!OnlyTheClockRefuses
  <1>1. plan \in Lifecycle!LegacyRecords /\ Lifecycle!Shape(plan) /\ plan.attempts <= 1 /\ plan.evidence <= Lifecycle!MaxEvidence
    BY DEF Lifecycle!RecordLegal, Lifecycle!validateRecord
  <1>2. /\ plan.receipt # None => plan.receipt.bound
        /\ plan.outcome # None => Lifecycle!validateOutcome(plan.outcome)
        /\ plan.state = "operator_resolution_required" => plan.evidence = 1
        /\ plan.version = 1 /\ plan.revision \in Nat /\ plan.evidence \in Nat
    BY DEF Lifecycle!RecordLegal, Lifecycle!validateRecord, Lifecycle!LegacyRecords
  <1>3. to \in Lifecycle!States
    BY TransitionFrom
  <1> DEFINE m == Lifecycle!Moved(to, t)
  <1>4. /\ m \in Lifecycle!LegacyRecords /\ m.version = 1 /\ m.revision = plan.revision + 1 /\ m.state = to
        /\ m.receipt = plan.receipt /\ m.attempts = plan.attempts /\ m.outcome = plan.outcome
        /\ m.evidence = plan.evidence /\ m.created = plan.created /\ m.updated = t
    BY <1>1, <1>2, <1>3, MovedFields
  <1> HIDE DEF m
  <1>5. CASE to = "confirmed"
    <2>1. PICK x \in Lifecycle!Receipts : x.bound /\ r = [m EXCEPT !.receipt = x]
      BY <1>5 DEF m, Lifecycle!Dispatched, Lifecycle!Resolved
    <2>2. /\ r.version = 1 /\ r.revision = m.revision /\ r.state = to /\ r.receipt = x /\ r.attempts = m.attempts
          /\ r.outcome = m.outcome /\ r.evidence = m.evidence /\ r.created = m.created /\ r.updated = t
      BY <1>4, <2>1 DEF Lifecycle!LegacyRecords
    <2>3. x # None
      BY NoValueAssumption DEF Lifecycle!Receipts, Receipts
    <2>4. Lifecycle!Shape(r)
      BY <1>1, <1>4, <1>5, <2>2, <2>3, StateSays, TransitionFrom DEF Lifecycle!Shape
    <2> QED
      BY <1>1, <1>2, <1>4, <2>1, <2>2, <2>4 DEF Lifecycle!validateRecord
  <1>6. CASE to = "in_flight"
    <2>1. r = [m EXCEPT !.attempts = 1]
      BY <1>6 DEF m, Lifecycle!Dispatched, Lifecycle!Resolved
    <2>2. /\ r.version = 1 /\ r.revision = m.revision /\ r.state = to /\ r.receipt = m.receipt /\ r.attempts = 1
          /\ r.outcome = m.outcome /\ r.evidence = m.evidence /\ r.created = m.created /\ r.updated = t
      BY <1>4, <2>1 DEF Lifecycle!LegacyRecords
    <2>4. Lifecycle!Shape(r)
      BY <1>1, <1>4, <1>6, <2>2, StateSays, TransitionFrom DEF Lifecycle!Shape
    <2> QED
      BY <1>1, <1>2, <1>4, <2>2, <2>4 DEF Lifecycle!validateRecord
  <1>7. CASE to \in Lifecycle!Dispatched
    <2>1. PICK o \in Lifecycle!Outcomes : o.code = to /\ Lifecycle!validateOutcome(o) /\ r = [m EXCEPT !.outcome = o]
      BY <1>7 DEF m, Lifecycle!Dispatched, Lifecycle!Resolved
    <2>2. /\ r.version = 1 /\ r.revision = m.revision /\ r.state = to /\ r.receipt = m.receipt /\ r.attempts = m.attempts
          /\ r.outcome = o /\ r.evidence = m.evidence /\ r.created = m.created /\ r.updated = t
      BY <1>4, <2>1 DEF Lifecycle!LegacyRecords
    <2>3. o # None
      BY NoValueAssumption DEF Lifecycle!Outcomes, Outcomes, Lifecycle!Dispatched, Dispatched
    <2>4. Lifecycle!Shape(r)
      BY <1>1, <1>4, <1>7, <2>1, <2>2, <2>3, StateSays, TransitionFrom DEF Lifecycle!Shape
    <2> QED
      BY <1>1, <1>2, <1>4, <2>1, <2>2, <2>4 DEF Lifecycle!validateRecord
  <1>8. CASE to \in Lifecycle!Resolved
    <2>1. r = [m EXCEPT !.evidence = m.evidence + 1]
      BY <1>8 DEF m, Lifecycle!Resolved, Lifecycle!Dispatched
    <2>2. /\ r.version = 1 /\ r.revision = m.revision /\ r.state = to /\ r.receipt = m.receipt /\ r.attempts = m.attempts
          /\ r.outcome = m.outcome /\ r.evidence = m.evidence + 1 /\ r.created = m.created /\ r.updated = t
      BY <1>4, <2>1 DEF Lifecycle!LegacyRecords
    <2>3. plan.state \in {"applied", "ambiguous"} \/ plan.evidence = 1
      BY <1>2, <1>8, TransitionFrom
    <2>4. /\ plan.evidence \in {0, 1} /\ plan.receipt # None /\ plan.attempts = 1
          /\ plan.outcome # None /\ plan.outcome.code \in {"applied", "ambiguous"}
      BY <1>1, <1>2, <1>8, <2>3, StateSays, TransitionFrom DEF Lifecycle!Dispatched, Lifecycle!Resolved
    <2>5. Lifecycle!Shape(r)
      BY <1>4, <1>8, <2>2, <2>4 DEF Lifecycle!Shape
    <2> QED
      BY <1>1, <1>2, <1>4, <2>2, <2>4, <2>5 DEF Lifecycle!validateRecord, Lifecycle!MaxEvidence
  <1>9. CASE to \in {"canceled", "expired"}
    <2>1. r = m
      BY <1>9 DEF m, Lifecycle!Dispatched, Lifecycle!Resolved
    <2>2. Lifecycle!Shape(r)
      BY <1>1, <1>4, <1>9, <2>1, StateSays, TransitionFrom DEF Lifecycle!Shape
    <2> QED
      BY <1>1, <1>2, <1>4, <2>1, <2>2 DEF Lifecycle!validateRecord
  <1> QED
    BY <1>3, <1>5, <1>6, <1>7, <1>8, <1>9, TransitionFrom DEF Lifecycle!States

(* The frozen reader offers only the first revision to the migration.      *)
LEMMA HistoryRead == Lifecycle!RecordLegal => Lifecycle!HistoryQuarantined
  <1> SUFFICES ASSUME Lifecycle!RecordLegal PROVE Lifecycle!HistoryQuarantined
    OBVIOUS
  <1>1. plan \in Lifecycle!LegacyRecords /\ Lifecycle!validateRecord(plan) /\ plan.version = 1
    BY DEF Lifecycle!RecordLegal, Lifecycle!validateRecord
  <1>2. plan \notin {Absent, Torn}
    <2>1. plan \in LegacyRecords
      BY <1>1 DEF Lifecycle!LegacyRecords, LegacyRecords, Lifecycle!States, States, Lifecycle!Receipts, Receipts, Lifecycle!Outcomes, Outcomes,
                  Lifecycle!Dispatched, Dispatched, Lifecycle!Resolved, Resolved
    <2> QED
      BY <2>1, NoValueAssumption
  <1>3. Lifecycle!validateLegacyV1Record(plan)
    BY <1>1 DEF Lifecycle!validateRecord, Lifecycle!validateLegacyV1Record
  <1>4. CASE plan.revision = 1
    <2>1. plan.state = "prepared" /\ plan.created = plan.updated
      BY <1>4 DEF Lifecycle!RecordLegal
    <2>2. plan.attempts = 0 /\ plan.receipt = None /\ plan.outcome = None /\ plan.evidence = 0
      BY <1>1, <2>1, StateSays DEF Lifecycle!validateRecord
    <2> QED
      BY <1>1, <1>2, <1>3, <1>4, <2>1, <2>2 DEF Lifecycle!HistoryQuarantined, Lifecycle!ClassifyLegacyV1
  <1>5. CASE plan.revision # 1
    BY <1>1, <1>2, <1>3, <1>5 DEF Lifecycle!HistoryQuarantined, Lifecycle!ClassifyLegacyV1
  <1> QED
    BY <1>4, <1>5

LifeInv == Lifecycle!RecordLegal /\ Lifecycle!ReceiptSpentOnce

LEMMA LifeInit == Lifecycle!Init => LifeInv
  <1> SUFFICES ASSUME NEW t \in Times, plan = Lifecycle!Pristine(t), uses = <<>> PROVE LifeInv
    BY DEF Lifecycle!Init
  <1>1. plan \in Lifecycle!LegacyRecords
    BY DEF Lifecycle!Pristine, Lifecycle!LegacyRecords, Lifecycle!States
  <1>2. Lifecycle!validateRecord(plan)
    BY TimesAssumption DEF Lifecycle!Pristine, Lifecycle!validateRecord, Lifecycle!Shape, Lifecycle!MaxEvidence
  <1> QED
    BY <1>1, <1>2 DEF LifeInv, Lifecycle!RecordLegal, Lifecycle!ReceiptSpentOnce, Lifecycle!Pristine

(* A step: what is committed is legal, and the receipt and its use are     *)
(* what they were.                                                         *)
LEMMA Committed ==
    ASSUME LifeInv, NEW next \in Lifecycle!LegacyRecords, Lifecycle!Commit(next),
           next.revision = plan.revision + 1, next.created = plan.created,
           next.state = "operator_resolution_required" => next.evidence = plan.evidence + 1
    PROVE  /\ plan' = next /\ next.state \in Lifecycle!allowedTransition(plan.state)
           /\ plan' \in Lifecycle!LegacyRecords /\ Lifecycle!validateRecord(plan') /\ plan'.revision # 1 /\ plan'.state # "prepared"
           /\ plan'.state = "operator_resolution_required" => plan'.evidence = 1
  <1>1. plan' = next /\ next.state \in Lifecycle!allowedTransition(plan.state) /\ Lifecycle!validateRecord(next)
    BY DEF Lifecycle!Commit
  <1>2. next.state # "prepared"
    BY <1>1, TransitionFrom
  <1>3. plan.revision \in Nat \ {0} /\ plan.evidence \in Nat /\ Lifecycle!Shape(plan)
    BY DEF LifeInv, Lifecycle!RecordLegal, Lifecycle!validateRecord, Lifecycle!LegacyRecords
  <1>4. next.state = "operator_resolution_required" => next.evidence = 1
    <2> SUFFICES ASSUME next.state = "operator_resolution_required" PROVE next.evidence = 1
      OBVIOUS
    <2>1. plan.state \in {"applied", "ambiguous"}
      BY <1>1, TransitionFrom
    <2>2. plan.evidence = 0
      BY <1>3, <2>1, StateSays DEF Lifecycle!Dispatched
    <2> QED
      BY <2>2
  <1> QED
    BY <1>1, <1>2, <1>3, <1>4

LEMMA SpentStays ==
    ASSUME LifeInv, UNCHANGED uses, plan'.attempts = plan.attempts,
           plan'.receipt = plan.receipt \/ plan.attempts = 0
    PROVE  Lifecycle!ReceiptSpentOnce'
  <1>1. CASE plan.attempts = 0
    <2>1. uses = <<>>
      BY <1>1, EmptySeq DEF LifeInv, Lifecycle!ReceiptSpentOnce, Lifecycle!RecordLegal
    <2> QED
      BY <1>1, <2>1 DEF Lifecycle!ReceiptSpentOnce
  <1>2. CASE plan'.receipt = plan.receipt
    BY <1>2 DEF LifeInv, Lifecycle!ReceiptSpentOnce
  <1> QED
    BY <1>1, <1>2

LEMMA LifeFacts ==
    ASSUME LifeInv
    PROVE  /\ plan \in Lifecycle!LegacyRecords /\ Lifecycle!Shape(plan) /\ plan.revision \in Nat /\ plan.attempts \in Nat
           /\ plan.evidence \in Nat /\ plan.attempts <= 1
  BY DEF LifeInv, Lifecycle!RecordLegal, Lifecycle!validateRecord, Lifecycle!LegacyRecords

LEMMA ConfirmStep ==
    ASSUME LifeInv, NEW t \in Times, NEW receipt \in Lifecycle!Receipts, Lifecycle!Confirm(t, receipt) PROVE LifeInv'
  <1> DEFINE m == Lifecycle!Moved("confirmed", t)  next == [m EXCEPT !.receipt = receipt]
  <1>1. Lifecycle!Commit(next) /\ UNCHANGED uses
    BY DEF Lifecycle!Confirm
  <1>2. /\ m \in Lifecycle!LegacyRecords /\ m.revision = plan.revision + 1 /\ m.state = "confirmed"
        /\ m.receipt = plan.receipt /\ m.attempts = plan.attempts /\ m.outcome = plan.outcome
        /\ m.evidence = plan.evidence /\ m.created = plan.created /\ m.updated = t
    BY LifeFacts, MovedFields DEF Lifecycle!States
  <1> HIDE DEF m
  <1>3. /\ next \in Lifecycle!LegacyRecords /\ next.revision = m.revision /\ next.state = "confirmed"
        /\ next.attempts = m.attempts /\ next.outcome = m.outcome /\ next.evidence = m.evidence
        /\ next.created = m.created
    BY <1>2 DEF Lifecycle!LegacyRecords
  <1> HIDE DEF next
  <1>4. /\ plan' = next /\ next.state \in Lifecycle!allowedTransition(plan.state)
        /\ plan' \in Lifecycle!LegacyRecords /\ Lifecycle!validateRecord(plan') /\ plan'.revision # 1 /\ plan'.state # "prepared"
    BY <1>1, <1>2, <1>3, Committed
  <1>5. plan.state = "prepared" /\ plan.attempts = 0 /\ plan.receipt = None
    BY <1>3, <1>4, LifeFacts, StateSays, TransitionFrom
  <1>6. Lifecycle!ReceiptSpentOnce'
    BY <1>1, <1>2, <1>3, <1>4, <1>5, SpentStays
  <1>7. Lifecycle!RecordLegal'
    BY <1>1, <1>3, <1>4 DEF LifeInv, Lifecycle!RecordLegal, Lifecycle!validateRecord
  <1> QED
    BY <1>2, <1>3, <1>4, <1>5, <1>6, <1>7, LifeFacts DEF LifeInv

(* The receipt is used once, and only before it expires.                   *)
LEMMA ConsumeStep == ASSUME LifeInv, NEW t \in Times, Lifecycle!Consume(t) PROVE LifeInv'
  <1> DEFINE m == Lifecycle!Moved("in_flight", t)  next == [m EXCEPT !.attempts = 1]
  <1>1. Lifecycle!Commit(next) /\ uses' = Append(uses, t) /\ plan.receipt # None /\ plan.attempts = 0 /\ t < plan.receipt.expires
    BY DEF Lifecycle!Consume, Lifecycle!MayConsume
  <1>2. /\ m \in Lifecycle!LegacyRecords /\ m.revision = plan.revision + 1 /\ m.state = "in_flight"
        /\ m.receipt = plan.receipt /\ m.attempts = plan.attempts /\ m.outcome = plan.outcome
        /\ m.evidence = plan.evidence /\ m.created = plan.created /\ m.updated = t
    BY LifeFacts, MovedFields DEF Lifecycle!States
  <1> HIDE DEF m
  <1>3. /\ next \in Lifecycle!LegacyRecords /\ next.revision = m.revision /\ next.state = "in_flight"
        /\ next.attempts = 1 /\ next.outcome = m.outcome /\ next.evidence = m.evidence
        /\ next.created = m.created /\ next.receipt = m.receipt
    BY <1>2 DEF Lifecycle!LegacyRecords
  <1> HIDE DEF next
  <1>4. /\ plan' = next /\ next.state \in Lifecycle!allowedTransition(plan.state)
        /\ plan' \in Lifecycle!LegacyRecords /\ Lifecycle!validateRecord(plan') /\ plan'.revision # 1 /\ plan'.state # "prepared"
    BY <1>1, <1>2, <1>3, Committed
  <1>5. uses = <<>> /\ uses \in Seq(Times)
    BY <1>1, EmptySeq DEF LifeInv, Lifecycle!ReceiptSpentOnce, Lifecycle!RecordLegal
  <1>6. uses' = <<t>> /\ uses' \in Seq(Times)
    BY <1>1, <1>5
  <1>7. Lifecycle!ReceiptSpentOnce'
    BY <1>1, <1>2, <1>3, <1>4, <1>6 DEF Lifecycle!ReceiptSpentOnce
  <1>8. Lifecycle!RecordLegal'
    BY <1>3, <1>4, <1>6 DEF Lifecycle!RecordLegal, Lifecycle!validateRecord
  <1> QED
    BY <1>1, <1>2, <1>3, <1>4, <1>7, <1>8, LifeFacts DEF LifeInv

LEMMA ConcludeStep ==
    ASSUME LifeInv, NEW t \in Times, NEW outcome \in Lifecycle!Outcomes, Lifecycle!Conclude(t, outcome) PROVE LifeInv'
  <1> DEFINE m == Lifecycle!Moved(outcome.code, t)  next == [m EXCEPT !.outcome = outcome]
  <1>1. Lifecycle!Commit(next) /\ UNCHANGED uses /\ plan.attempts = 1
    BY DEF Lifecycle!Conclude
  <1>2. outcome.code \in Lifecycle!Dispatched /\ outcome.code \in Lifecycle!States
    BY DEF Lifecycle!Outcomes, Lifecycle!States
  <1>3. /\ m \in Lifecycle!LegacyRecords /\ m.revision = plan.revision + 1 /\ m.state = outcome.code
        /\ m.receipt = plan.receipt /\ m.attempts = plan.attempts /\ m.outcome = plan.outcome
        /\ m.evidence = plan.evidence /\ m.created = plan.created /\ m.updated = t
    BY <1>2, LifeFacts, MovedFields
  <1> HIDE DEF m
  <1>4. /\ next \in Lifecycle!LegacyRecords /\ next.revision = m.revision /\ next.state = outcome.code
        /\ next.attempts = m.attempts /\ next.evidence = m.evidence
        /\ next.created = m.created /\ next.receipt = m.receipt
    BY <1>3 DEF Lifecycle!LegacyRecords
  <1> HIDE DEF next
  <1>5. next.state # "operator_resolution_required"
    BY <1>2, <1>4 DEF Lifecycle!Dispatched
  <1>6. /\ plan' = next /\ next.state \in Lifecycle!allowedTransition(plan.state)
        /\ plan' \in Lifecycle!LegacyRecords /\ Lifecycle!validateRecord(plan') /\ plan'.revision # 1 /\ plan'.state # "prepared"
    BY <1>1, <1>3, <1>4, <1>5, Committed
  <1>7. plan.outcome = None
    BY <1>2, <1>4, <1>6, LifeFacts, StateSays, TransitionFrom
  <1>8. Lifecycle!ReceiptSpentOnce'
    BY <1>1, <1>3, <1>4, <1>6, SpentStays
  <1>9. Lifecycle!RecordLegal'
    BY <1>1, <1>4, <1>5, <1>6 DEF LifeInv, Lifecycle!RecordLegal, Lifecycle!validateRecord
  <1> QED
    BY <1>3, <1>4, <1>6, <1>7, <1>8, <1>9, LifeFacts DEF LifeInv

LEMMA ResolveStep ==
    ASSUME LifeInv, NEW t \in Times, NEW to \in Lifecycle!Resolved, Lifecycle!Resolve(t, to) PROVE LifeInv'
  <1> DEFINE m == Lifecycle!Moved(to, t)  next == [m EXCEPT !.evidence = m.evidence + 1]
  <1>1. Lifecycle!Commit(next) /\ UNCHANGED uses
    BY DEF Lifecycle!Resolve
  <1>2. to \in Lifecycle!States
    BY DEF Lifecycle!States
  <1>3. /\ m \in Lifecycle!LegacyRecords /\ m.revision = plan.revision + 1 /\ m.state = to
        /\ m.receipt = plan.receipt /\ m.attempts = plan.attempts /\ m.outcome = plan.outcome
        /\ m.evidence = plan.evidence /\ m.created = plan.created /\ m.updated = t
    BY <1>2, LifeFacts, MovedFields
  <1> HIDE DEF m
  <1>4. /\ next \in Lifecycle!LegacyRecords /\ next.revision = m.revision /\ next.state = to
        /\ next.attempts = m.attempts /\ next.evidence = m.evidence + 1 /\ next.outcome = m.outcome
        /\ next.created = m.created /\ next.receipt = m.receipt
    BY <1>3, LifeFacts DEF Lifecycle!LegacyRecords
  <1> HIDE DEF next
  <1>5. /\ plan' = next
        /\ plan' \in Lifecycle!LegacyRecords /\ Lifecycle!validateRecord(plan') /\ plan'.revision # 1 /\ plan'.state # "prepared"
        /\ plan'.state = "operator_resolution_required" => plan'.evidence = 1
    BY <1>1, <1>3, <1>4, Committed
  <1>6. Lifecycle!ReceiptSpentOnce'
    BY <1>1, <1>3, <1>4, <1>5, SpentStays
  <1>7. Lifecycle!RecordLegal'
    BY <1>1, <1>5 DEF LifeInv, Lifecycle!RecordLegal
  <1> QED
    BY <1>3, <1>4, <1>5, <1>6, <1>7, LifeFacts DEF LifeInv

LEMMA CloseStep ==
    ASSUME LifeInv, NEW t \in Times, NEW to \in {"canceled", "expired"}, Lifecycle!Close(t, to) PROVE LifeInv'
  <1> DEFINE next == Lifecycle!Moved(to, t)
  <1>1. Lifecycle!Commit(next) /\ UNCHANGED uses
    BY DEF Lifecycle!Close
  <1>2. to \in Lifecycle!States
    BY DEF Lifecycle!States
  <1>3. /\ next \in Lifecycle!LegacyRecords /\ next.revision = plan.revision + 1 /\ next.state = to
        /\ next.receipt = plan.receipt /\ next.attempts = plan.attempts /\ next.outcome = plan.outcome
        /\ next.evidence = plan.evidence /\ next.created = plan.created
    BY <1>2, LifeFacts, MovedFields
  <1> HIDE DEF next
  <1>4. /\ plan' = next
        /\ plan' \in Lifecycle!LegacyRecords /\ Lifecycle!validateRecord(plan') /\ plan'.revision # 1 /\ plan'.state # "prepared"
    BY <1>1, <1>3, Committed
  <1>5. Lifecycle!ReceiptSpentOnce'
    BY <1>1, <1>3, <1>4, SpentStays
  <1>6. Lifecycle!RecordLegal'
    BY <1>1, <1>3, <1>4 DEF LifeInv, Lifecycle!RecordLegal
  <1> QED
    BY <1>3, <1>4, <1>5, <1>6, LifeFacts DEF LifeInv

LEMMA LifeStep == LifeInv /\ [Lifecycle!Next]_(Lifecycle!vars) => LifeInv'
  <1> SUFFICES ASSUME LifeInv, [Lifecycle!Next]_(Lifecycle!vars) PROVE LifeInv'
    OBVIOUS
  <1>1. CASE UNCHANGED Lifecycle!vars
    BY <1>1 DEF Lifecycle!vars, LifeInv, Lifecycle!RecordLegal, Lifecycle!ReceiptSpentOnce, Lifecycle!validateRecord
  <1>2. CASE Lifecycle!Next
    BY <1>2, ConfirmStep, ConsumeStep, ConcludeStep, ResolveStep, CloseStep DEF Lifecycle!Next
  <1> QED
    BY <1>1, <1>2

(* One plan's life: its receipt is spent once and in time, the transition  *)
(* rules keep its record valid, and the frozen reader quarantines all of   *)
(* its history (journal.go, migration.go).                                 *)
THEOREM LifecycleSafe == Lifecycle!Spec => []LifecycleSound
  <1>1. LifeInv => LifecycleSound
    BY RulesSuffice, HistoryRead DEF LifeInv, LifecycleSound, Lifecycle!LifecycleInv
  <1> QED
    BY <1>1, LifeInit, LifeStep, PTL DEF Lifecycle!Spec
=============================================================================
