--------------------------- MODULE OperatorLedger ---------------------------
(***************************************************************************)
(* The permanent ledger of one operator-write plan                         *)
(* (internal/operatorwrite/store.go): the files ID.json, ID.claim and      *)
(* ID.result, the lock ID.lock that every Store operation holds, and the   *)
(* system calls each operation makes while it holds it.  A process may     *)
(* fail or be killed between any two of them, and a power loss kills every *)
(* process and keeps of each unsynced file whatever the disk had.          *)
(***************************************************************************)
EXTENDS LedgerRecord, Naturals

CONSTANTS Proc,         \* processes that call the Store
          NoProc,       \* lock or handle held by nobody
          MaxPowerLoss  \* bound on power losses in one behaviour

LedgerConstants ==
    /\ NoProc \notin Proc
    /\ {Absent, Torn} \cap Proc = {}
    /\ MaxPowerLoss \in Nat

VARIABLES
    files,     \* the three files; an attempt is named by the process that made it
    lock,      \* holder of the plan's lock file, or NoProc
    job,       \* the write a process is in the middle of
    handle,    \* the attempt a process got from Claim or Get
    created,   \* Create has returned the record: the plan ID is known
    tried,     \* processes that have called Claim (each attempt ID is fresh)
    granted,   \* attempts for which Claim has returned without an error
    losses     \* power losses so far

vars == <<files, lock, job, handle, created, tried, granted, losses>>

FileName == {"plan", "claim", "result"}
Steps == {"idle", "write", "syncfile", "syncdir", "rename", "syncrename"}
Idle == [step |-> "idle", file |-> "plan", value |-> Absent]

(* What each file is for, and what may be found in it.                     *)
Payload == [plan |-> {PlanDoc}, claim |-> Proc, result |-> Result]
Contents(f) == {Absent, Torn} \cup Payload[f]
Jobs == {Idle} \cup UNION {[step : Steps \ {"idle"}, file : {f}, value : Payload[f]] : f \in FileName}

plan   == files["plan"].seen
claim  == files["claim"].seen
result == files["result"].seen

RecordState == DecodedState(plan, claim, result)

TypeOK ==
    /\ files = [f \in FileName |-> files[f]]
    /\ \A f \in FileName : files[f] \in FileOf(Contents(f))
    /\ lock \in Proc \cup {NoProc}
    /\ job \in [Proc -> Jobs]
    /\ handle \in [Proc -> Proc \cup {NoProc}]
    /\ created \in BOOLEAN
    /\ tried \subseteq Proc
    /\ granted \subseteq Proc
    /\ losses \in 0 .. MaxPowerLoss

Init ==
    /\ files = [f \in FileName |-> Missing]
    /\ lock = NoProc
    /\ job = [p \in Proc |-> Idle]
    /\ handle = [p \in Proc |-> NoProc]
    /\ created = FALSE
    /\ tried = {}
    /\ granted = {}
    /\ losses = 0

-----------------------------------------------------------------------------
(* lockfile.With: one process at a time.  A process that cannot take the   *)
(* lock within its timeout returns an error and changes nothing, and so    *)
(* does one whose guards fail under the lock; those calls are stutters.    *)
Free(p) == lock = NoProc /\ job[p] = Idle

(* create: openat(O_CREAT|O_EXCL) under the lock just taken.               *)
StartCreate(p, f, v) ==
    /\ files[f].seen = Absent
    /\ lock' = p
    /\ files' = [files EXCEPT ![f] = Opened(@)]
    /\ job' = [job EXCEPT ![p] = [step |-> "write", file |-> f, value |-> v]]

(* Store.Create: the caller keeps the plan ID only if the call returns.    *)
Create(p) ==
    /\ Free(p)
    /\ ~created
    /\ claim = Absent
    /\ StartCreate(p, "plan", PlanDoc)
    /\ UNCHANGED <<handle, created, tried, granted, losses>>

(* Store.Get: the reader leaves with the recorded attempt.                 *)
Get(p) ==
    /\ Free(p)
    /\ created
    /\ Consumed(RecordState)
    /\ handle[p] # claim
    /\ handle' = [handle EXCEPT ![p] = claim]
    /\ UNCHANGED <<files, lock, job, created, tried, granted, losses>>

(* Store.Claim: any marker at all consumes the plan.                       *)
Claim(p) ==
    /\ Free(p)
    /\ created
    /\ p \notin tried
    /\ RecordState = "prepared"
    /\ StartCreate(p, "claim", p)
    /\ tried' = tried \cup {p}
    /\ UNCHANGED <<handle, created, granted, losses>>

(* Store.Finalize: the attempt must be the recorded one; the first result  *)
(* is created, a later one replaces it only by an observation of a         *)
(* consumed outcome that is still open.                                    *)
Finalize(p, r) ==
    /\ Free(p)
    /\ handle[p] # NoProc
    /\ RecordState # "invalid"
    /\ claim = handle[p]
    /\ \/ /\ MayCreateResult(RecordState)
          /\ StartCreate(p, "result", r)
       \/ /\ MayReplaceResult(RecordState, r)
          /\ r # result
          /\ lock' = p
          /\ job' = [job EXCEPT ![p] = [step |-> "rename", file |-> "result", value |-> r]]
          /\ UNCHANGED files
    /\ UNCHANGED <<handle, created, tried, granted, losses>>

-----------------------------------------------------------------------------
(* The remaining system calls of create and replace.                       *)
Proceed(p, from, to, f) ==
    /\ job[p].step = from
    /\ files' = [files EXCEPT ![job[p].file] = f]
    /\ job' = [job EXCEPT ![p].step = to]
    /\ UNCHANGED <<lock, handle, created, tried, granted, losses>>

Target(p) == files[job[p].file]

WriteFile(p) == Proceed(p, "write", "syncfile", Written(Target(p), job[p].value))

SyncFile(p) == Proceed(p, "syncfile", "syncdir", FileSynced(Target(p)))

Rename(p) == Proceed(p, "rename", "syncrename", Renamed(Target(p), job[p].value))

(* The directory sync is the last call: the operation returns its result   *)
(* and the lock is released.                                               *)
Return(p, from, f) ==
    /\ job[p].step = from
    /\ files' = [files EXCEPT ![job[p].file] = f]
    /\ lock' = NoProc
    /\ job' = [job EXCEPT ![p] = Idle]
    /\ created' = (created \/ job[p].file = "plan")
    /\ granted' = granted \cup {a \in {p} : job[p].file = "claim"}
    /\ handle' = [handle EXCEPT ![p] = IF job[p].file = "claim" THEN p ELSE @]
    /\ UNCHANGED <<tried, losses>>

SyncDir(p) == Return(p, "syncdir", DirSynced(Target(p)))

SyncRename(p) == Return(p, "syncrename", RenameSynced(Target(p)))

(* A call fails, or the process is killed, in the middle of an operation:  *)
(* the lock is released and the file stays as it is.                       *)
Abandon(p) ==
    /\ job[p] # Idle
    /\ lock' = NoProc
    /\ job' = [job EXCEPT ![p] = Idle]
    /\ UNCHANGED <<files, handle, created, tried, granted, losses>>

(* Every process dies; of every file one of the possible contents is left. *)
PowerLoss ==
    /\ losses < MaxPowerLoss
    /\ losses' = losses + 1
    /\ \E kept \in [FileName -> UNION {files[f].disk : f \in FileName}] :
          /\ \A f \in FileName : kept[f] \in files[f].disk
          /\ files' = [f \in FileName |-> Stored(kept[f])]
    /\ lock' = NoProc
    /\ job' = [p \in Proc |-> Idle]
    /\ handle' = [p \in Proc |-> NoProc]
    /\ UNCHANGED <<created, tried, granted>>

Continue(p) == WriteFile(p) \/ SyncFile(p) \/ SyncDir(p) \/ Rename(p) \/ SyncRename(p)

Next ==
    \/ \E p \in Proc :
          \/ Create(p) \/ Get(p) \/ Claim(p)
          \/ \E r \in Result : Finalize(p, r)
          \/ Continue(p) \/ Abandon(p)
    \/ PowerLoss

Spec == Init /\ [][Next]_vars

-----------------------------------------------------------------------------
(* Claim grants the right to dispatch to one attempt only, whatever fails, *)
(* is killed or loses power while claims compete (Store.Claim).            *)
ClaimOnce == \A a, b \in granted : a = b

(* A granted claim is what every later reader finds: no power loss can     *)
(* bring back another content, so the plan is never prepared again         *)
(* (create syncs the file and then the directory before Claim returns).    *)
GrantSurvives == \A a \in granted : files["claim"].disk = {a}

(* A final outcome that reached the disk is never replaced, by no          *)
(* observation and no power loss (Store.Finalize).                         *)
Recorded(f) == f.disk = {f.seen} /\ f.seen \in Result /\ f.seen.state \in Settled
SettledForever ==
    [][Recorded(files["result"]) => files'["result"] = files["result"]]_vars

(* The files implement the abstract promise of a plan that is consumed     *)
(* once: see ConsumeOnce.                                                  *)
Promise == INSTANCE ConsumeOnce WITH
    eligible <- claim = Absent /\ result = Absent,
    verdict  <- IF Recorded(files["result"]) THEN result.state ELSE "open",
    Attempt  <- Proc,
    Verdict  <- Settled
ImplementsConsumeOnce == Promise!Spec

-----------------------------------------------------------------------------
(* The inductive invariant behind the safety properties.                   *)

(* The process in the middle of a write is the one that holds the lock.    *)
Exclusive ==
    \A p \in Proc : IF lock = p THEN job[p].step # "idle" ELSE job[p] = Idle

(* What a reader sees is one of the contents that may survive, and a name  *)
(* that nobody sees was never opened since the last power loss.            *)
Visible ==
    \A f \in FileName : /\ files[f].seen \in files[f].disk
                        /\ files[f].seen = Absent => files[f].disk = {Absent}

(* Which contents of the file may survive tells how far its writer got.    *)
Progress(p) ==
    LET f == files[job[p].file]
        v == job[p].value
    IN  /\ job[p].step = "write" =>
              f.seen = Torn /\ f.disk = {Absent, Torn}
        /\ job[p].step = "syncfile" =>
              f.seen = v /\ f.disk = {Absent, Torn, v}
        /\ job[p].step = "syncdir" =>
              f.seen = v /\ f.disk = {Absent, v}
        /\ job[p].step \in {"write", "syncfile", "syncdir"} =>
              v \notin {Absent, Torn}
        /\ job[p].step = "rename" =>
              /\ job[p].file = "result" /\ v \in Result
              /\ f.seen \in Result \ {v} /\ f.seen.state \in Unsettled
        /\ job[p].step = "syncrename" =>
              /\ job[p].file = "result" /\ v \in Result
              /\ f.seen = v /\ \E old \in f.disk : old # v

(* A claim is written by its own attempt, while nothing is granted.        *)
Claiming(p) ==
    job[p].step # "idle" /\ job[p].file = "claim" =>
        job[p].value = p /\ granted = {}

(* A granted claim is the only content of the claim file.                  *)
GrantRecorded == \A a \in granted : files["claim"] = Stored(a)

(* Why the safety properties hold: the conjunction the proofs show to be   *)
(* inductive (store.go writes every file under the plan's lock, in the     *)
(* order open, write, sync file, sync directory).                          *)
LedgerInv ==
    /\ TypeOK
    /\ Exclusive
    /\ Visible
    /\ \A p \in Proc : Progress(p) /\ Claiming(p)
    /\ GrantRecorded
=============================================================================
