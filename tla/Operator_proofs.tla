-------------------------- MODULE Operator_proofs --------------------------
(***************************************************************************)
(* The operator-write ledger, for every set of processes and results and   *)
(* every number of power losses, and the invocations that use it, for      *)
(* every set of them and of operation kinds and every number of faults,    *)
(* cancellations and changes.                                              *)
(***************************************************************************)
EXTENDS MCOperator, TLAPS

-----------------------------------------------------------------------------
(* The ledger.                                                             *)

(* No process has the name of a special value (as MCOperator assumes).     *)
LEMMA LedgerProcesses == NoProc \notin Proc /\ {Absent, Torn} \cap Proc = {} /\ MaxPowerLoss \in Nat
  BY LedgerAssumption DEF Store!LedgerConstants

(* Every operation on a file keeps it a file (files_unix.go).              *)
LEMMA FileOperations ==
    ASSUME NEW C, Absent \in C, Torn \in C, NEW f \in Store!FileOf(C), NEW v \in C
    PROVE  /\ Store!Missing \in Store!FileOf(C) /\ Store!Stored(v) \in Store!FileOf(C)
           /\ Store!Opened(f) \in Store!FileOf(C) /\ Store!Written(f, v) \in Store!FileOf(C)
           /\ Store!FileSynced(f) \in Store!FileOf(C) /\ Store!DirSynced(f) \in Store!FileOf(C)
           /\ Store!Renamed(f, v) \in Store!FileOf(C) /\ Store!RenameSynced(f) \in Store!FileOf(C)
  BY DEF Store!FileOf, Store!Missing, Store!Stored, Store!Opened, Store!Written, Store!FileSynced,
     Store!DirSynced, Store!Renamed, Store!RenameSynced

(* A process in the middle of a write has a payload for its file.          *)
LEMMA JobOf ==
    ASSUME NEW j \in Store!Jobs
    PROVE  /\ j.step \in Store!Steps /\ j.file \in Store!FileName
           /\ j.step = "idle" => j = Store!Idle
           /\ j.step # "idle" => j.value \in Store!Payload[j.file]
           /\ j.step # "idle" => \A s \in Store!Steps \ {"idle"} : [j EXCEPT !.step = s] \in Store!Jobs
  <1>1. CASE j = Store!Idle
    BY <1>1 DEF Store!Idle, Store!Steps, Store!FileName
  <1>2. CASE j # Store!Idle
    <2>1. PICK f \in Store!FileName : j \in [step : Store!Steps \ {"idle"}, file : {f}, value : Store!Payload[f]]
      BY <1>2 DEF Store!Jobs
    <2>2. /\ j.step \in Store!Steps \ {"idle"} /\ j.file = f /\ j.value \in Store!Payload[f]
          /\ \A s \in Store!Steps \ {"idle"} :
                [j EXCEPT !.step = s] \in [step : Store!Steps \ {"idle"}, file : {f}, value : Store!Payload[f]]
      BY <2>1
    <2> QED
      BY <2>2 DEF Store!Jobs
  <1> QED
    BY <1>1, <1>2

(* Replacing one file by another of its type keeps the files well typed.   *)
LEMMA FilesUpdated ==
    ASSUME Store!TypeOK, NEW f \in Store!FileName, NEW x \in Store!FileOf(Store!Contents(f)),
           files' = [files EXCEPT ![f] = x]
    PROVE  /\ files' = [g \in Store!FileName |-> files'[g]]
           /\ \A g \in Store!FileName : files'[g] \in Store!FileOf(Store!Contents(g))
           /\ files'[f] = x
           /\ \A g \in Store!FileName \ {f} : files'[g] = files[g]
  <1>1. files' = [g \in Store!FileName |-> IF g = f THEN x ELSE files[g]]
    BY DEF Store!TypeOK
  <1> QED
    BY <1>1 DEF Store!TypeOK

(* The initial state is well typed.                                        *)
LEMMA LedgerTypeInit == Store!Init => Store!TypeOK
  <1> SUFFICES ASSUME Store!Init PROVE Store!TypeOK
    OBVIOUS
  <1>1. \A f \in Store!FileName : Store!Missing \in Store!FileOf(Store!Contents(f))
    BY DEF Store!Missing, Store!FileOf, Store!Contents
  <1>2. Store!Idle \in Store!Jobs
    BY DEF Store!Jobs
  <1>3. losses \in 0 .. MaxPowerLoss
    BY LedgerProcesses DEF Store!Init
  <1> QED
    BY <1>1, <1>2, <1>3 DEF Store!Init, Store!TypeOK

(* The writes that Store operations start keep the types.                  *)
LEMMA TypeStart ==
    ASSUME Store!TypeOK, NEW p \in Proc, NEW f \in Store!FileName, NEW v \in Store!Payload[f],
           Store!StartCreate(p, f, v)
    PROVE  /\ files' = [g \in Store!FileName |-> files'[g]]
           /\ \A g \in Store!FileName : files'[g] \in Store!FileOf(Store!Contents(g))
           /\ lock' \in Proc \cup {NoProc}
           /\ job' \in [Proc -> Store!Jobs]
  <1>1. {Absent, Torn, v} \subseteq Store!Contents(f) /\ files[f] \in Store!FileOf(Store!Contents(f))
    BY DEF Store!Contents, Store!TypeOK
  <1>2. Store!Opened(files[f]) \in Store!FileOf(Store!Contents(f))
    BY <1>1, FileOperations
  <1>3. files' = [files EXCEPT ![f] = Store!Opened(files[f])]
    BY DEF Store!StartCreate
  <1>4. [step |-> "write", file |-> f, value |-> v] \in Store!Jobs
    BY DEF Store!Jobs, Store!Steps
  <1> QED
    BY <1>2, <1>3, <1>4, FilesUpdated DEF Store!TypeOK, Store!StartCreate

(* A next system call of a running write keeps the types.                  *)
LEMMA TypeProceed ==
    ASSUME Store!TypeOK, NEW p \in Proc, NEW from \in Store!Steps \ {"idle"}, NEW to \in Store!Steps \ {"idle"},
           NEW x, job[p].step = from => x \in Store!FileOf(Store!Contents(job[p].file)),
           Store!Proceed(p, from, to, x)
    PROVE  Store!TypeOK'
  <1>1. job[p] \in Store!Jobs /\ job[p].step = from /\ job[p].step # "idle"
    BY DEF Store!TypeOK, Store!Proceed
  <1>2. job[p].file \in Store!FileName /\ [job[p] EXCEPT !.step = to] \in Store!Jobs
    BY <1>1, JobOf
  <1>3. files' = [files EXCEPT ![job[p].file] = x] /\ x \in Store!FileOf(Store!Contents(job[p].file))
    BY <1>1 DEF Store!Proceed
  <1>4. /\ files' = [g \in Store!FileName |-> files'[g]]
        /\ \A g \in Store!FileName : files'[g] \in Store!FileOf(Store!Contents(g))
    BY <1>2, <1>3, FilesUpdated
  <1>5. job' = [job EXCEPT ![p] = [job[p] EXCEPT !.step = to]]
    BY DEF Store!Proceed
  <1>6. job' \in [Proc -> Store!Jobs]
    BY <1>2, <1>5 DEF Store!TypeOK
  <1> QED
    BY <1>4, <1>6 DEF Store!TypeOK, Store!Proceed

(* The return of a Store operation keeps the types.                        *)
LEMMA TypeReturn ==
    ASSUME Store!TypeOK, NEW p \in Proc, NEW from \in Store!Steps \ {"idle"},
           NEW x, job[p].step = from => x \in Store!FileOf(Store!Contents(job[p].file)),
           Store!Return(p, from, x)
    PROVE  Store!TypeOK'
  <1>1. job[p] \in Store!Jobs /\ job[p].step = from /\ job[p].step # "idle"
    BY DEF Store!TypeOK, Store!Return
  <1>2. job[p].file \in Store!FileName /\ Store!Idle \in Store!Jobs
    BY <1>1, JobOf DEF Store!Jobs
  <1>3. files' = [files EXCEPT ![job[p].file] = x] /\ x \in Store!FileOf(Store!Contents(job[p].file))
    BY <1>1 DEF Store!Return
  <1>4. /\ files' = [g \in Store!FileName |-> files'[g]]
        /\ \A g \in Store!FileName : files'[g] \in Store!FileOf(Store!Contents(g))
    BY <1>2, <1>3, FilesUpdated
  <1>5. job' \in [Proc -> Store!Jobs] /\ lock' \in Proc \cup {NoProc} /\ created' \in BOOLEAN
    BY <1>2 DEF Store!TypeOK, Store!Return
  <1>6. granted' \subseteq Proc /\ handle' \in [Proc -> Proc \cup {NoProc}]
    BY DEF Store!TypeOK, Store!Return
  <1> QED
    BY <1>4, <1>5, <1>6 DEF Store!TypeOK, Store!Return

(* What a write does to its file has the type of the file.                 *)
LEMMA TargetTypes ==
    ASSUME Store!TypeOK, NEW p \in Proc, job[p].step # "idle"
    PROVE  LET C == Store!Contents(job[p].file) IN
           /\ Store!Written(Store!Target(p), job[p].value) \in Store!FileOf(C)
           /\ Store!FileSynced(Store!Target(p)) \in Store!FileOf(C)
           /\ Store!DirSynced(Store!Target(p)) \in Store!FileOf(C)
           /\ Store!Renamed(Store!Target(p), job[p].value) \in Store!FileOf(C)
           /\ Store!RenameSynced(Store!Target(p)) \in Store!FileOf(C)
  <1> DEFINE C == Store!Contents(job[p].file)
  <1>1. job[p].file \in Store!FileName /\ job[p].value \in Store!Payload[job[p].file]
    BY JobOf DEF Store!TypeOK
  <1>2. Absent \in C /\ Torn \in C /\ job[p].value \in C /\ Store!Target(p) \in Store!FileOf(C)
    BY <1>1 DEF Store!TypeOK, Store!Contents, Store!Target
  <1> HIDE DEF C
  <1>3. /\ Store!Written(Store!Target(p), job[p].value) \in Store!FileOf(C)
        /\ Store!FileSynced(Store!Target(p)) \in Store!FileOf(C)
        /\ Store!DirSynced(Store!Target(p)) \in Store!FileOf(C)
        /\ Store!Renamed(Store!Target(p), job[p].value) \in Store!FileOf(C)
        /\ Store!RenameSynced(Store!Target(p)) \in Store!FileOf(C)
    BY <1>2, FileOperations
  <1> QED
    BY <1>3 DEF C

(* Every step keeps the types.                                             *)
LEMMA LedgerTypeStep == Store!TypeOK /\ [Store!Next]_(Store!vars) => Store!TypeOK'
  <1> SUFFICES ASSUME Store!TypeOK, [Store!Next]_(Store!vars) PROVE Store!TypeOK'
    OBVIOUS
  <1>1. ASSUME NEW p \in Proc, Store!Create(p) PROVE Store!TypeOK'
    <2>1. Store!StartCreate(p, "plan", PlanDoc) /\ PlanDoc \in Store!Payload["plan"] /\ "plan" \in Store!FileName
      BY <1>1 DEF Store!Create, Store!Payload, Store!FileName
    <2>2. /\ files' = [g \in Store!FileName |-> files'[g]]
          /\ \A g \in Store!FileName : files'[g] \in Store!FileOf(Store!Contents(g))
          /\ lock' \in Proc \cup {NoProc}
          /\ job' \in [Proc -> Store!Jobs]
      BY <2>1, TypeStart
    <2> QED
      BY <1>1, <2>2 DEF Store!Create, Store!TypeOK
  <1>2. ASSUME NEW p \in Proc, Store!Get(p) PROVE Store!TypeOK'
    <2>1. Store!claim \in Proc
      <3>1. "claim" \in Store!FileName
        BY DEF Store!FileName
      <3>2. Store!claim \in Store!Contents("claim")
        BY <3>1 DEF Store!TypeOK, Store!FileOf, Store!claim
      <3>3. Store!claim \notin {Absent, Torn}
        BY <1>2 DEF Store!Get, Store!Consumed, Store!RecordState, Store!DecodedState
      <3> QED
        BY <3>2, <3>3 DEF Store!Contents, Store!Payload
    <2> QED
      BY <1>2, <2>1 DEF Store!Get, Store!TypeOK
  <1>3. ASSUME NEW p \in Proc, Store!Claim(p) PROVE Store!TypeOK'
    <2>1. Store!StartCreate(p, "claim", p) /\ p \in Store!Payload["claim"] /\ "claim" \in Store!FileName
      BY <1>3 DEF Store!Claim, Store!Payload, Store!FileName
    <2>2. /\ files' = [g \in Store!FileName |-> files'[g]]
          /\ \A g \in Store!FileName : files'[g] \in Store!FileOf(Store!Contents(g))
          /\ lock' \in Proc \cup {NoProc}
          /\ job' \in [Proc -> Store!Jobs]
      BY <2>1, TypeStart
    <2> QED
      BY <1>3, <2>2 DEF Store!Claim, Store!TypeOK
  <1>4. ASSUME NEW p \in Proc, NEW r \in Result, Store!Finalize(p, r) PROVE Store!TypeOK'
    <2>1. r \in Store!Payload["result"] /\ "result" \in Store!FileName
      BY DEF Store!Payload, Store!FileName
    <2>2. CASE Store!StartCreate(p, "result", r)
      <3>1. /\ files' = [g \in Store!FileName |-> files'[g]]
            /\ \A g \in Store!FileName : files'[g] \in Store!FileOf(Store!Contents(g))
            /\ lock' \in Proc \cup {NoProc}
            /\ job' \in [Proc -> Store!Jobs]
        BY <2>1, <2>2, TypeStart
      <3> QED
        BY <1>4, <3>1 DEF Store!Finalize, Store!TypeOK
    <2>3. CASE ~Store!StartCreate(p, "result", r)
      <3>1. [step |-> "rename", file |-> "result", value |-> r] \in Store!Jobs
        BY <2>1 DEF Store!Jobs, Store!Steps
      <3> QED
        BY <1>4, <2>3, <3>1 DEF Store!Finalize, Store!TypeOK
    <2> QED
      BY <2>2, <2>3
  <1>5. ASSUME NEW p \in Proc, Store!Continue(p) PROVE Store!TypeOK'
    <2>1. CASE Store!WriteFile(p)
      BY <2>1, TargetTypes, TypeProceed DEF Store!WriteFile, Store!Steps
    <2>2. CASE Store!SyncFile(p)
      BY <2>2, TargetTypes, TypeProceed DEF Store!SyncFile, Store!Steps
    <2>3. CASE Store!SyncDir(p)
      BY <2>3, TargetTypes, TypeReturn DEF Store!SyncDir, Store!Steps
    <2>4. CASE Store!Rename(p)
      BY <2>4, TargetTypes, TypeProceed DEF Store!Rename, Store!Steps
    <2>5. CASE Store!SyncRename(p)
      BY <2>5, TargetTypes, TypeReturn DEF Store!SyncRename, Store!Steps
    <2> QED
      BY <1>5, <2>1, <2>2, <2>3, <2>4, <2>5 DEF Store!Continue
  <1>6. ASSUME NEW p \in Proc, Store!Abandon(p) PROVE Store!TypeOK'
    BY <1>6 DEF Store!Abandon, Store!TypeOK, Store!Jobs
  <1>7. ASSUME Store!PowerLoss PROVE Store!TypeOK'
    <2>1. PICK kept : /\ \A f \in Store!FileName : kept[f] \in files[f].disk
                      /\ files' = [f \in Store!FileName |-> Store!Stored(kept[f])]
      BY <1>7 DEF Store!PowerLoss
    <2>2. \A f \in Store!FileName : Store!Stored(kept[f]) \in Store!FileOf(Store!Contents(f))
      BY <2>1 DEF Store!TypeOK, Store!FileOf, Store!Stored
    <2>3. losses' \in 0 .. MaxPowerLoss
      BY <1>7, LedgerProcesses DEF Store!PowerLoss, Store!TypeOK
    <2> QED
      BY <1>7, <2>1, <2>2, <2>3 DEF Store!PowerLoss, Store!TypeOK, Store!Jobs
  <1>8. CASE UNCHANGED Store!vars
    BY <1>8 DEF Store!vars, Store!TypeOK
  <1> QED
    BY <1>1, <1>2, <1>3, <1>4, <1>5, <1>6, <1>7, <1>8 DEF Store!Next

(* Every reachable state is well typed: every file only ever holds what    *)
(* its name is for, and a handle always names an attempt (store.go).       *)
THEOREM TypeCorrect == Store!Spec => []Store!TypeOK
  BY LedgerTypeInit, LedgerTypeStep, PTL DEF Store!Spec

-----------------------------------------------------------------------------
(* Steps of the inductive invariant.                                       *)

(* A process that takes the lock finds no write under way.                 *)
LEMMA FreeIdle ==
    ASSUME Store!LedgerInv, NEW p \in Proc, Store!Free(p)
    PROVE  \A q \in Proc : job[q] = Store!Idle /\ lock # q
  BY LedgerProcesses DEF Store!LedgerInv, Store!Exclusive, Store!Free

(* A process in the middle of a write is the only one.                     *)
LEMMA OnlyWriter ==
    ASSUME Store!LedgerInv, NEW p \in Proc, job[p].step # "idle"
    PROVE  lock = p /\ \A q \in Proc \ {p} : job[q] = Store!Idle
  BY DEF Store!LedgerInv, Store!Exclusive, Store!Idle

(* Opening a file of the ledger starts a write that keeps the invariant.   *)
LEMMA StartKeeps ==
    ASSUME Store!LedgerInv, Store!TypeOK', NEW p \in Proc, NEW f \in Store!FileName, NEW v \in Store!Payload[f],
           Store!Free(p), Store!StartCreate(p, f, v), UNCHANGED granted,
           f = "claim" => v = p /\ granted = {}
    PROVE  Store!LedgerInv'
  <1> DEFINE j == [step |-> "write", file |-> f, value |-> v]
  <1>1. /\ files[f].seen = Absent /\ files[f].disk = {Absent}
        /\ files'[f] = [seen |-> Torn, disk |-> {Absent, Torn}]
        /\ \A g \in Store!FileName \ {f} : files'[g] = files[g]
    BY DEF Store!StartCreate, Store!Opened, Store!LedgerInv, Store!TypeOK, Store!Visible
  <1>2. /\ job'[p] = j /\ lock' = p
        /\ \A q \in Proc \ {p} : job'[q] = Store!Idle
    BY FreeIdle DEF Store!StartCreate, Store!LedgerInv, Store!TypeOK
  <1>3. v \notin {Absent, Torn}
    BY LedgerContents, LedgerProcesses DEF Store!FileName, Store!Payload
  <1>4. Store!Exclusive'
    BY <1>2 DEF Store!Exclusive
  <1>5. Store!Visible'
    BY <1>1, FileContentAssumption DEF Store!Visible, Store!LedgerInv
  <1>6. \A q \in Proc : Store!Progress(q)' /\ Store!Claiming(q)'
    <2>1. Store!Progress(p)' /\ Store!Claiming(p)'
      BY <1>1, <1>2, <1>3 DEF Store!Progress, Store!Claiming
    <2>2. ASSUME NEW q \in Proc \ {p} PROVE Store!Progress(q)' /\ Store!Claiming(q)'
      BY <1>2, <2>2 DEF Store!Progress, Store!Claiming, Store!Idle
    <2> QED
      BY <2>1, <2>2
  <1>7. Store!GrantRecorded'
    BY <1>1 DEF Store!GrantRecorded, Store!LedgerInv, Store!FileName
  <1> QED
    BY <1>4, <1>5, <1>6, <1>7 DEF Store!LedgerInv

(* A write that goes on to its next system call keeps the invariant.       *)
LEMMA ProceedKeeps ==
    ASSUME Store!LedgerInv, Store!TypeOK', NEW p \in Proc,
           NEW from \in Store!Steps \ {"idle"}, NEW to \in Store!Steps \ {"idle"}, NEW x,
           Store!Proceed(p, from, to, x),
           x.seen \in x.disk, x.seen # Absent,
           Store!Progress(p)',
           job[p].file # "claim" \/ granted = {}
    PROVE  Store!LedgerInv'
  <1>1. job[p].step = from /\ job[p].file \in Store!FileName
    BY JobOf DEF Store!Proceed, Store!LedgerInv, Store!TypeOK
  <1>2. /\ files'[job[p].file] = x
        /\ \A g \in Store!FileName \ {job[p].file} : files'[g] = files[g]
    BY <1>1 DEF Store!Proceed, Store!LedgerInv, Store!TypeOK
  <1>3. /\ job'[p].step = to /\ job'[p].file = job[p].file /\ job'[p].value = job[p].value
        /\ \A q \in Proc \ {p} : job'[q] = Store!Idle
        /\ lock' = p
    <2>1. job[p] \in Store!Jobs /\ lock = p /\ \A q \in Proc \ {p} : job[q] = Store!Idle
      BY <1>1, OnlyWriter DEF Store!LedgerInv, Store!TypeOK
    <2>2. job' = [job EXCEPT ![p] = [job[p] EXCEPT !.step = to]]
      BY DEF Store!Proceed
    <2>3. "step" \in DOMAIN job[p]
      BY <2>1 DEF Store!Jobs, Store!Idle
    <2> QED
      BY <2>1, <2>2, <2>3 DEF Store!LedgerInv, Store!TypeOK, Store!Proceed, Store!Jobs, Store!Idle
  <1>4. Store!Exclusive'
    BY <1>3 DEF Store!Exclusive
  <1>5. Store!Visible'
    BY <1>2 DEF Store!Visible, Store!LedgerInv
  <1>6. \A q \in Proc : Store!Progress(q)' /\ Store!Claiming(q)'
    <2>1. Store!Claiming(p)'
      BY <1>1, <1>3 DEF Store!Claiming, Store!LedgerInv, Store!Proceed
    <2>2. ASSUME NEW q \in Proc \ {p} PROVE Store!Progress(q)' /\ Store!Claiming(q)'
      BY <1>3, <2>2 DEF Store!Progress, Store!Claiming, Store!Idle
    <2> QED
      BY <2>1, <2>2
  <1>7. Store!GrantRecorded'
    BY <1>2 DEF Store!GrantRecorded, Store!LedgerInv, Store!Proceed, Store!FileName
  <1> QED
    BY <1>4, <1>5, <1>6, <1>7 DEF Store!LedgerInv

(* The return of a Store operation, its file stored, keeps the invariant.  *)
LEMMA ReturnKeeps ==
    ASSUME Store!LedgerInv, Store!TypeOK', NEW p \in Proc, NEW from \in Store!Steps \ {"idle"}, NEW x,
           Store!Return(p, from, x),
           x.seen \in x.disk, x.seen # Absent,
           job[p].file = "claim" => x = Store!Stored(p)
    PROVE  Store!LedgerInv'
  <1>1. job[p].step = from /\ job[p].file \in Store!FileName
    BY JobOf DEF Store!Return, Store!LedgerInv, Store!TypeOK
  <1>2. /\ files'[job[p].file] = x
        /\ \A g \in Store!FileName \ {job[p].file} : files'[g] = files[g]
    BY <1>1 DEF Store!Return, Store!LedgerInv, Store!TypeOK
  <1>3. lock' = NoProc /\ \A q \in Proc : job'[q] = Store!Idle
    BY <1>1, OnlyWriter DEF Store!Return, Store!LedgerInv, Store!TypeOK
  <1>4. Store!Exclusive'
    BY <1>3, LedgerProcesses DEF Store!Exclusive
  <1>5. Store!Visible'
    BY <1>2 DEF Store!Visible, Store!LedgerInv
  <1>6. \A q \in Proc : Store!Progress(q)' /\ Store!Claiming(q)'
    BY <1>3 DEF Store!Progress, Store!Claiming, Store!Idle
  <1>7. Store!GrantRecorded'
    <2>1. CASE job[p].file = "claim"
      <3>1. granted = {}
        BY <1>1, <2>1 DEF Store!LedgerInv, Store!Claiming
      <3> QED
        BY <1>2, <2>1, <3>1 DEF Store!Return, Store!GrantRecorded
    <2>2. CASE job[p].file # "claim"
      BY <1>2, <2>2 DEF Store!Return, Store!GrantRecorded, Store!LedgerInv, Store!FileName
    <2> QED
      BY <2>1, <2>2
  <1> QED
    BY <1>4, <1>5, <1>6, <1>7 DEF Store!LedgerInv

(* The remaining system calls keep the invariant.                          *)
LEMMA ContinueKeeps ==
    ASSUME Store!LedgerInv, Store!TypeOK', NEW p \in Proc, Store!Continue(p)
    PROVE  Store!LedgerInv'
  <1>1. /\ job[p].step # "idle" /\ job[p].file \in Store!FileName /\ job[p] \in Store!Jobs
        /\ Store!Target(p) \in Store!FileOf(Store!Contents(job[p].file))
        /\ Store!Progress(p) /\ Store!Claiming(p)
    <2>1. job[p].step # "idle"
      BY DEF Store!Continue, Store!WriteFile, Store!SyncFile, Store!SyncDir, Store!Rename,
         Store!SyncRename, Store!Proceed, Store!Return
    <2> QED
      BY <2>1, JobOf DEF Store!LedgerInv, Store!TypeOK, Store!Target
  <1>2. job[p].file # "claim" \/ granted = {}
    BY <1>1 DEF Store!Claiming
  <1>3. ASSUME NEW to \in Store!Steps \ {"idle"}, NEW x, Store!Proceed(p, job[p].step, to, x)
        PROVE  /\ job'[p].step = to /\ job'[p].file = job[p].file /\ job'[p].value = job[p].value
               /\ files'[job[p].file] = x
    <2>1. job' = [job EXCEPT ![p] = [job[p] EXCEPT !.step = to]]
      BY <1>3 DEF Store!Proceed
    <2>2. "step" \in DOMAIN job[p]
      BY <1>1 DEF Store!Jobs, Store!Idle
    <2>3. files' = [files EXCEPT ![job[p].file] = x]
      BY <1>3 DEF Store!Proceed
    <2> QED
      BY <1>1, <2>1, <2>2, <2>3 DEF Store!LedgerInv, Store!TypeOK, Store!Jobs, Store!Idle
  <1>4. CASE Store!WriteFile(p)
    <2> DEFINE x == Store!Written(Store!Target(p), job[p].value)
    <2>1. job[p].step = "write" /\ Store!Proceed(p, "write", "syncfile", x)
      BY <1>4 DEF Store!WriteFile, Store!Proceed
    <2>2. x.seen = job[p].value /\ x.disk = {Absent, Torn, job[p].value} /\ job[p].value \notin {Absent, Torn}
      BY <1>1, <2>1 DEF Store!Progress, Store!Target, Store!Written
    <2>3. Store!Progress(p)'
      BY <1>3, <2>1, <2>2 DEF Store!Progress, Store!Steps
    <2> QED
      BY <1>2, <2>1, <2>2, <2>3, ProceedKeeps DEF Store!Steps
  <1>5. CASE Store!SyncFile(p)
    <2> DEFINE x == Store!FileSynced(Store!Target(p))
    <2>1. job[p].step = "syncfile" /\ Store!Proceed(p, "syncfile", "syncdir", x)
      BY <1>5 DEF Store!SyncFile, Store!Proceed
    <2>2. x.seen = job[p].value /\ x.disk = {Absent, job[p].value} /\ job[p].value \notin {Absent, Torn}
      BY <1>1, <2>1, FileContentAssumption DEF Store!Progress, Store!Target, Store!FileSynced, Store!FileOf
    <2>3. Store!Progress(p)'
      BY <1>3, <2>1, <2>2 DEF Store!Progress, Store!Steps
    <2> QED
      BY <1>2, <2>1, <2>2, <2>3, ProceedKeeps DEF Store!Steps
  <1>6. CASE Store!SyncDir(p)
    <2> DEFINE x == Store!DirSynced(Store!Target(p))
    <2>1. job[p].step = "syncdir" /\ Store!Return(p, "syncdir", x)
      BY <1>6 DEF Store!SyncDir, Store!Return
    <2>2. x = Store!Stored(job[p].value) /\ job[p].value \notin {Absent, Torn}
      BY <1>1, <2>1, FileContentAssumption DEF Store!Progress, Store!Target, Store!DirSynced, Store!FileOf,
         Store!Stored
    <2>3. x.seen \in x.disk /\ x.seen # Absent /\ (job[p].file = "claim" => x = Store!Stored(p))
      BY <1>1, <2>2 DEF Store!Stored, Store!Claiming
    <2> QED
      BY <2>1, <2>3, ReturnKeeps DEF Store!Steps
  <1>7. CASE Store!Rename(p)
    <2> DEFINE x == Store!Renamed(Store!Target(p), job[p].value)
    <2>1. job[p].step = "rename" /\ Store!Proceed(p, "rename", "syncrename", x)
      BY <1>7 DEF Store!Rename, Store!Proceed
    <2>2. /\ job[p].file = "result" /\ job[p].value \in Result
          /\ x.seen = job[p].value /\ x.seen \in x.disk /\ \E old \in x.disk : old # job[p].value
      BY <1>1, <2>1 DEF Store!Progress, Store!Target, Store!Renamed, Store!LedgerInv, Store!Visible
    <2>3. Store!Progress(p)'
      BY <1>3, <2>1, <2>2 DEF Store!Progress, Store!Steps
    <2> QED
      BY <1>2, <2>1, <2>2, <2>3, ProceedKeeps, LedgerContents DEF Store!Steps
  <1>8. CASE Store!SyncRename(p)
    <2> DEFINE x == Store!RenameSynced(Store!Target(p))
    <2>1. job[p].step = "syncrename" /\ Store!Return(p, "syncrename", x)
      BY <1>8 DEF Store!SyncRename, Store!Return
    <2>2. job[p].file = "result" /\ x.seen \in Result /\ x.seen \in x.disk
      BY <1>1, <2>1 DEF Store!Progress, Store!Target, Store!RenameSynced, Store!Stored
    <2> QED
      BY <2>1, <2>2, ReturnKeeps, LedgerContents DEF Store!Steps
  <1> QED
    BY <1>4, <1>5, <1>6, <1>7, <1>8 DEF Store!Continue

(* A power loss keeps the invariant: what is granted cannot be lost.       *)
LEMMA PowerLossKeeps ==
    ASSUME Store!LedgerInv, Store!TypeOK', Store!PowerLoss
    PROVE  Store!LedgerInv'
  <1>1. PICK kept : /\ \A f \in Store!FileName : kept[f] \in files[f].disk
                    /\ files' = [f \in Store!FileName |-> Store!Stored(kept[f])]
    BY DEF Store!PowerLoss
  <1>2. lock' = NoProc /\ \A q \in Proc : job'[q] = Store!Idle
    BY DEF Store!PowerLoss
  <1>3. Store!Exclusive'
    BY <1>2, LedgerProcesses DEF Store!Exclusive
  <1>4. Store!Visible'
    BY <1>1 DEF Store!Visible, Store!Stored
  <1>5. \A q \in Proc : Store!Progress(q)' /\ Store!Claiming(q)'
    BY <1>2 DEF Store!Progress, Store!Claiming, Store!Idle
  <1>6. Store!GrantRecorded'
    <2> SUFFICES ASSUME NEW a \in granted PROVE files'["claim"] = Store!Stored(a)
      BY DEF Store!GrantRecorded, Store!PowerLoss
    <2>1. files["claim"] = Store!Stored(a) /\ "claim" \in Store!FileName
      BY DEF Store!LedgerInv, Store!GrantRecorded, Store!FileName
    <2>2. kept["claim"] = a
      BY <1>1, <2>1 DEF Store!Stored
    <2> QED
      BY <1>1, <2>1, <2>2
  <1> QED
    BY <1>3, <1>4, <1>5, <1>6 DEF Store!LedgerInv

(* The invariant holds initially.                                          *)
LEMMA InvInit == Store!Init => Store!LedgerInv
  <1> SUFFICES ASSUME Store!Init PROVE Store!LedgerInv
    OBVIOUS
  <1>1. \A q \in Proc : job[q] = Store!Idle /\ lock # q
    BY LedgerProcesses DEF Store!Init
  <1>2. Store!Exclusive /\ \A q \in Proc : Store!Progress(q) /\ Store!Claiming(q)
    BY <1>1 DEF Store!Exclusive, Store!Progress, Store!Claiming, Store!Idle
  <1>3. Store!Visible /\ Store!GrantRecorded
    BY DEF Store!Init, Store!Visible, Store!GrantRecorded, Store!Missing
  <1> QED
    BY <1>2, <1>3, LedgerTypeInit DEF Store!LedgerInv

(* Every step keeps the invariant.                                         *)
LEMMA InvStep == Store!LedgerInv /\ [Store!Next]_(Store!vars) => Store!LedgerInv'
  <1> SUFFICES ASSUME Store!LedgerInv, [Store!Next]_(Store!vars) PROVE Store!LedgerInv'
    OBVIOUS
  <1>0. Store!TypeOK'
    BY LedgerTypeStep DEF Store!LedgerInv
  <1>1. ASSUME NEW p \in Proc, Store!Create(p) PROVE Store!LedgerInv'
    BY <1>0, <1>1, StartKeeps DEF Store!Create, Store!FileName, Store!Payload
  <1>2. ASSUME NEW p \in Proc, Store!Get(p) PROVE Store!LedgerInv'
    BY <1>0, <1>2 DEF Store!Get, Store!LedgerInv, Store!Exclusive, Store!Visible, Store!Progress,
       Store!Claiming, Store!GrantRecorded
  <1>3. ASSUME NEW p \in Proc, Store!Claim(p) PROVE Store!LedgerInv'
    <2>1. granted = {}
      <3>1. files["claim"].seen = Absent
        BY <1>3 DEF Store!Claim, Store!StartCreate
      <3>2. ASSUME NEW a \in granted PROVE FALSE
        <4>1. files["claim"] = Store!Stored(a) /\ a \in Proc
          BY DEF Store!LedgerInv, Store!GrantRecorded, Store!TypeOK
        <4> QED
          BY <3>1, <4>1, LedgerProcesses DEF Store!Stored
      <3> QED
        BY <3>2
    <2> QED
      BY <1>0, <1>3, <2>1, StartKeeps DEF Store!Claim, Store!FileName, Store!Payload
  <1>4. ASSUME NEW p \in Proc, NEW r \in Result, Store!Finalize(p, r) PROVE Store!LedgerInv'
    <2>1. CASE Store!StartCreate(p, "result", r)
      BY <1>0, <1>4, <2>1, StartKeeps DEF Store!Finalize, Store!FileName, Store!Payload
    <2>2. CASE ~Store!StartCreate(p, "result", r)
      <3>1. /\ lock' = p /\ UNCHANGED <<files, granted>>
            /\ job' = [job EXCEPT ![p] = [step |-> "rename", file |-> "result", value |-> r]]
            /\ Store!MayReplaceResult(Store!RecordState, r) /\ r # Store!result /\ Store!Free(p)
        BY <1>4, <2>2 DEF Store!Finalize
      <3>2. Store!result \in Result \ {r} /\ Store!result.state \in Store!Unsettled
        <4>1. Store!RecordState \in Store!Unsettled
          BY <3>1 DEF Store!MayReplaceResult
        <4>2. Store!result \notin {Absent, Torn} /\ Store!RecordState = Store!result.state
          BY <4>1 DEF Store!RecordState, Store!DecodedState, Store!Unsettled
        <4>3. Store!result \in Store!Contents("result")
          BY DEF Store!LedgerInv, Store!TypeOK, Store!FileOf, Store!FileName, Store!result
        <4> QED
          BY <3>1, <4>1, <4>2, <4>3 DEF Store!Contents, Store!Payload
      <3>3. /\ job'[p] = [step |-> "rename", file |-> "result", value |-> r]
            /\ \A q \in Proc \ {p} : job'[q] = Store!Idle
        BY <3>1, FreeIdle DEF Store!LedgerInv, Store!TypeOK
      <3>4. Store!Exclusive'
        BY <3>1, <3>3 DEF Store!Exclusive
      <3>5. Store!Progress(p)' /\ Store!Claiming(p)'
        BY <3>1, <3>2, <3>3 DEF Store!Progress, Store!Claiming, Store!result
      <3>6. ASSUME NEW q \in Proc \ {p} PROVE Store!Progress(q)' /\ Store!Claiming(q)'
        BY <3>3, <3>6 DEF Store!Progress, Store!Claiming, Store!Idle
      <3>7. Store!Visible' /\ Store!GrantRecorded'
        BY <3>1 DEF Store!LedgerInv, Store!Visible, Store!GrantRecorded
      <3> QED
        BY <1>0, <3>4, <3>5, <3>6, <3>7 DEF Store!LedgerInv
    <2> QED
      BY <2>1, <2>2
  <1>5. ASSUME NEW p \in Proc, Store!Continue(p) PROVE Store!LedgerInv'
    BY <1>0, <1>5, ContinueKeeps
  <1>6. ASSUME NEW p \in Proc, Store!Abandon(p) PROVE Store!LedgerInv'
    <2>1. lock' = NoProc /\ \A q \in Proc : job'[q] = Store!Idle
      <3>1. job[p].step # "idle"
        BY <1>6, JobOf DEF Store!Abandon, Store!LedgerInv, Store!TypeOK
      <3> QED
        BY <1>6, <3>1, OnlyWriter DEF Store!Abandon, Store!LedgerInv, Store!TypeOK
    <2>2. Store!Exclusive' /\ \A q \in Proc : Store!Progress(q)' /\ Store!Claiming(q)'
      BY <2>1, LedgerProcesses DEF Store!Exclusive, Store!Progress, Store!Claiming, Store!Idle
    <2>3. Store!Visible' /\ Store!GrantRecorded'
      BY <1>6 DEF Store!Abandon, Store!LedgerInv, Store!Visible, Store!GrantRecorded
    <2> QED
      BY <1>0, <2>2, <2>3 DEF Store!LedgerInv
  <1>7. ASSUME Store!PowerLoss PROVE Store!LedgerInv'
    BY <1>0, <1>7, PowerLossKeeps
  <1>8. CASE UNCHANGED Store!vars
    BY <1>0, <1>8 DEF Store!vars, Store!LedgerInv, Store!Exclusive, Store!Visible, Store!Progress,
       Store!Claiming, Store!GrantRecorded
  <1> QED
    BY <1>1, <1>2, <1>3, <1>4, <1>5, <1>6, <1>7, <1>8 DEF Store!Next

(* The invariant holds in every reachable state.                           *)
THEOREM LedgerInvariant == Store!Spec => []LedgerInv
  <1>1. Store!Init => LedgerInv
    BY InvInit DEF LedgerInv
  <1>2. LedgerInv /\ [Store!Next]_(Store!vars) => LedgerInv'
    BY InvStep DEF LedgerInv
  <1> QED
    BY <1>1, <1>2, PTL DEF Store!Spec

(* However claims compete, fail or lose power, at most one attempt is ever *)
(* granted the right to dispatch (Store.Claim).                            *)
THEOREM ClaimedOnce == Store!Spec => []Store!ClaimOnce
  <1>1. Store!LedgerInv => Store!ClaimOnce
    <2> SUFFICES ASSUME Store!LedgerInv, NEW a \in granted, NEW b \in granted PROVE a = b
      BY DEF Store!ClaimOnce
    <2>1. Store!Stored(a) = Store!Stored(b)
      BY DEF Store!LedgerInv, Store!GrantRecorded
    <2> QED
      BY <2>1 DEF Store!Stored
  <1> QED
    BY <1>1, LedgerInvariant, PTL DEF LedgerInv

(* A granted claim is the only content its file can have after any power   *)
(* loss (create syncs the file and the directory before Claim returns).    *)
THEOREM GrantDurable == Store!Spec => []GrantSurvives
  <1>1. Store!LedgerInv => Store!GrantSurvives
    <2> SUFFICES ASSUME Store!LedgerInv, NEW a \in granted PROVE files["claim"].disk = {a}
      BY DEF Store!GrantSurvives
    <2>1. files["claim"] = Store!Stored(a)
      BY DEF Store!LedgerInv, Store!GrantRecorded
    <2> QED
      BY <2>1 DEF Store!Stored
  <1> QED
    BY <1>1, LedgerInvariant, PTL DEF LedgerInv, GrantSurvives

-----------------------------------------------------------------------------
(* Settled results and the abstract promise.                               *)

(* What one more system call of a running write does to its file: nobody   *)
(* takes the file for absent or for a settled result while it is written,  *)
(* and the last call leaves the value alone in it.                         *)
LEMMA ContinueEffect ==
    ASSUME Store!LedgerInv, NEW p \in Proc, Store!Continue(p)
    PROVE  LET f == job[p].file IN
           /\ f \in Store!FileName
           /\ \A g \in Store!FileName \ {f} : files'[g] = files[g]
           /\ files[f].seen # Absent /\ files'[f].seen # Absent
           /\ ~Store!Recorded(files[f])
           /\ f = "claim" => granted = {}
           /\ \/ UNCHANGED granted /\ ~Store!Recorded(files'[f])
              \/ /\ granted' = granted \cup {a \in {p} : f = "claim"}
                 /\ f = "result" => files'[f].seen \in Result
  <1> DEFINE f == job[p].file
             v == job[p].value
  <1>1. /\ job[p].step # "idle" /\ f \in Store!FileName /\ v \in Store!Payload[f]
        /\ files[f] \in Store!FileOf(Store!Contents(f)) /\ files[f].seen \in files[f].disk
        /\ Store!Progress(p) /\ Store!Claiming(p)
    <2>1. job[p].step # "idle"
      BY DEF Store!Continue, Store!WriteFile, Store!SyncFile, Store!SyncDir, Store!Rename,
         Store!SyncRename, Store!Proceed, Store!Return
    <2> QED
      BY <2>1, JobOf DEF Store!LedgerInv, Store!TypeOK, Store!Visible
  <1>2. f = "claim" => granted = {}
    BY <1>1 DEF Store!Claiming
  <1>3. ASSUME NEW x, files' = [files EXCEPT ![job[p].file] = x]
        PROVE  files'[f] = x /\ \A g \in Store!FileName \ {f} : files'[g] = files[g]
    BY <1>1, <1>3 DEF Store!LedgerInv, Store!TypeOK
  <1>4. \A x \in Result : x # Absent /\ x # Torn
    BY LedgerContents
  <1>5. Store!Settled \cap Store!Unsettled = {}
    BY DEF Store!Settled, Store!Unsettled
  <1>6. CASE Store!WriteFile(p)
    <2>1. files'[f] = Store!Written(files[f], v) /\ UNCHANGED granted /\ job[p].step = "write"
          /\ \A g \in Store!FileName \ {f} : files'[g] = files[g]
      BY <1>3, <1>6 DEF Store!WriteFile, Store!Proceed, Store!Target
    <2>2. files[f].seen = Torn /\ Torn \in files'[f].disk /\ files'[f].seen = v /\ v \notin {Absent, Torn}
      BY <1>1, <2>1 DEF Store!Progress, Store!Written
    <2> QED
      BY <1>1, <1>2, <1>4, <2>1, <2>2, FileContentAssumption DEF Store!Recorded
  <1>7. CASE Store!SyncFile(p)
    <2>1. files'[f] = Store!FileSynced(files[f]) /\ UNCHANGED granted /\ job[p].step = "syncfile"
          /\ \A g \in Store!FileName \ {f} : files'[g] = files[g]
      BY <1>3, <1>7 DEF Store!SyncFile, Store!Proceed, Store!Target
    <2>2. files[f].seen = v /\ files[f].disk = {Absent, Torn, v} /\ v \notin {Absent, Torn}
      BY <1>1, <2>1 DEF Store!Progress
    <2>3. files'[f].seen = v /\ Absent \in files'[f].disk
      BY <1>1, <2>1, <2>2, FileContentAssumption DEF Store!FileSynced, Store!FileOf
    <2> QED
      BY <1>1, <1>2, <2>1, <2>2, <2>3 DEF Store!Recorded
  <1>8. CASE Store!SyncDir(p)
    <2>1. /\ files'[f] = Store!DirSynced(files[f]) /\ job[p].step = "syncdir"
          /\ granted' = granted \cup {a \in {p} : f = "claim"}
          /\ \A g \in Store!FileName \ {f} : files'[g] = files[g]
      BY <1>3, <1>8 DEF Store!SyncDir, Store!Return, Store!Target
    <2>2. files[f].seen = v /\ files[f].disk = {Absent, v} /\ v \notin {Absent, Torn}
      BY <1>1, <2>1 DEF Store!Progress
    <2>3. files'[f].seen = v
      BY <1>1, <2>1, <2>2 DEF Store!DirSynced, Store!FileOf
    <2>4. f = "result" => v \in Result
      BY <1>1 DEF Store!Payload
    <2> QED
      BY <1>1, <1>2, <2>1, <2>2, <2>3, <2>4 DEF Store!Recorded
  <1>9. CASE Store!Rename(p)
    <2>1. files'[f] = Store!Renamed(files[f], v) /\ UNCHANGED granted /\ job[p].step = "rename"
          /\ \A g \in Store!FileName \ {f} : files'[g] = files[g]
      BY <1>3, <1>9 DEF Store!Rename, Store!Proceed, Store!Target
    <2>2. f = "result" /\ v \in Result /\ files[f].seen \in Result \ {v} /\ files[f].seen.state \in Store!Unsettled
      BY <1>1, <2>1 DEF Store!Progress
    <2>3. files'[f].seen = v /\ files[f].seen \in files'[f].disk
      BY <1>1, <2>1 DEF Store!Renamed
    <2> QED
      BY <1>1, <1>2, <1>4, <1>5, <2>1, <2>2, <2>3 DEF Store!Recorded
  <1>10. CASE Store!SyncRename(p)
    <2>1. /\ files'[f] = Store!RenameSynced(files[f]) /\ job[p].step = "syncrename"
          /\ granted' = granted \cup {a \in {p} : f = "claim"}
          /\ \A g \in Store!FileName \ {f} : files'[g] = files[g]
      BY <1>3, <1>10 DEF Store!SyncRename, Store!Return, Store!Target
    <2>2. f = "result" /\ v \in Result /\ files[f].seen = v /\ \E old \in files[f].disk : old # v
      BY <1>1, <2>1 DEF Store!Progress
    <2>3. files'[f].seen = v
      BY <2>1, <2>2 DEF Store!RenameSynced, Store!Stored
    <2> QED
      BY <1>1, <1>2, <1>4, <2>1, <2>2, <2>3 DEF Store!Recorded
  <1> QED
    BY <1>6, <1>7, <1>8, <1>9, <1>10 DEF Store!Continue

(* Operations that start, read or give up leave a visible file alone; one  *)
(* that starts a write opens a file that was absent.                       *)
LEMMA QuietEffect ==
    ASSUME Store!LedgerInv, NEW p \in Proc,
           \/ Store!Create(p) \/ Store!Get(p) \/ Store!Abandon(p) \/ \E r \in Result : Store!Finalize(p, r)
    PROVE  /\ files'["claim"] = files["claim"] /\ UNCHANGED granted
           /\ \/ files'["result"] = files["result"]
              \/ /\ files["claim"].seen # Absent
                 /\ files["result"].seen = Absent /\ files'["result"].seen = Torn
  <1>1. CASE Store!Create(p)
    BY <1>1 DEF Store!Create, Store!StartCreate, Store!LedgerInv, Store!TypeOK, Store!FileName
  <1>2. CASE Store!Get(p) \/ Store!Abandon(p)
    BY <1>2 DEF Store!Get, Store!Abandon
  <1>3. ASSUME NEW r \in Result, Store!Finalize(p, r)
        PROVE  /\ files'["claim"] = files["claim"] /\ UNCHANGED granted
               /\ \/ files'["result"] = files["result"]
                  \/ /\ files["claim"].seen # Absent
                     /\ files["result"].seen = Absent /\ files'["result"].seen = Torn
    <2>1. files["claim"].seen # Absent
      <3>1. Store!claim \in Proc
        BY <1>3 DEF Store!Finalize, Store!LedgerInv, Store!TypeOK
      <3> QED
        BY <3>1, LedgerProcesses DEF Store!claim
    <2>2. CASE Store!StartCreate(p, "result", r)
      BY <1>3, <2>1, <2>2 DEF Store!Finalize, Store!StartCreate, Store!Opened, Store!LedgerInv,
         Store!TypeOK, Store!FileName
    <2>3. CASE ~Store!StartCreate(p, "result", r)
      BY <1>3, <2>3 DEF Store!Finalize
    <2> QED
      BY <2>2, <2>3
  <1> QED
    BY <1>1, <1>2, <1>3

(* A claim opens the claim file of a plan that nobody withdrew.            *)
LEMMA ClaimEffect ==
    ASSUME Store!LedgerInv, NEW p \in Proc, Store!Claim(p)
    PROVE  /\ files["claim"].seen = Absent /\ files'["claim"].seen = Torn
           /\ files'["result"] = files["result"] /\ UNCHANGED granted
  BY DEF Store!Claim, Store!StartCreate, Store!Opened, Store!LedgerInv, Store!TypeOK, Store!FileName

(* One step of the final-outcome property.                                 *)
LEMMA SettledStep ==
    ASSUME Store!LedgerInv, [Store!Next]_(Store!vars), Store!Recorded(files["result"])
    PROVE  files'["result"] = files["result"]
  <1>1. files["result"].seen # Absent /\ "result" \in Store!FileName
    BY LedgerContents DEF Store!Recorded, Store!FileName
  <1>2. ASSUME NEW p \in Proc, Store!Continue(p) PROVE files'["result"] = files["result"]
    BY <1>1, <1>2, ContinueEffect
  <1>3. ASSUME Store!PowerLoss PROVE files'["result"] = files["result"]
    <2>1. PICK kept : /\ \A f \in Store!FileName : kept[f] \in files[f].disk
                      /\ files' = [f \in Store!FileName |-> Store!Stored(kept[f])]
      BY <1>3 DEF Store!PowerLoss
    <2>2. kept["result"] = files["result"].seen
      BY <1>1, <2>1 DEF Store!Recorded
    <2>3. files["result"] = Store!Stored(files["result"].seen)
      BY <1>1 DEF Store!Recorded, Store!Stored, Store!LedgerInv, Store!TypeOK, Store!FileOf
    <2> QED
      BY <1>1, <2>1, <2>2, <2>3
  <1> QED
    BY <1>1, <1>2, <1>3, QuietEffect, ClaimEffect DEF Store!Next, Store!vars

(* A final outcome on the disk is never replaced, neither by a later       *)
(* observation nor by a power loss (Store.Finalize).                       *)
THEOREM SettledStays == Store!Spec => SettledForever
  <1>1. Store!LedgerInv /\ [Store!Next]_(Store!vars) =>
          [Store!Recorded(files["result"]) => files'["result"] = files["result"]]_(Store!vars)
    BY SettledStep
  <1> QED
    BY <1>1, LedgerInvariant, PTL DEF Store!Spec, LedgerInv, SettledForever, Store!SettledForever

(* Every step of the ledger is a step of the promise or stutters.          *)
LEMMA LedgerPromiseStep ==
    ASSUME Store!LedgerInv, [Store!Next]_(Store!vars)
    PROVE  [Store!Promise!Next]_(Store!Promise!pvars)
  <1> DEFINE elig == Store!claim = Absent /\ Store!result = Absent
             verd == IF Store!Recorded(files["result"]) THEN Store!result.state ELSE "open"
             stutter == elig' = elig /\ verd' = verd /\ granted' = granted
  <1>1. stutter => UNCHANGED Store!Promise!pvars
    BY DEF Store!Promise!pvars
  <1>2. /\ \A x \in Result : x # Absent /\ x # Torn
        /\ {"claim", "result"} \subseteq Store!FileName
        /\ \A f \in Store!FileName : /\ files[f] \in Store!FileOf(Store!Contents(f))
                              /\ files[f].seen \in files[f].disk
                              /\ files[f].seen = Absent => files[f].disk = {Absent}
    BY LedgerContents DEF Store!LedgerInv, Store!TypeOK, Store!Visible, Store!FileName
  <1>3. ASSUME NEW p \in Proc,
               \/ Store!Create(p) \/ Store!Get(p) \/ Store!Abandon(p) \/ \E r \in Result : Store!Finalize(p, r)
        PROVE  stutter
    <2>1. /\ files'["claim"] = files["claim"] /\ UNCHANGED granted
          /\ \/ files'["result"] = files["result"]
             \/ /\ files["claim"].seen # Absent
                /\ files["result"].seen = Absent /\ files'["result"].seen = Torn
      BY <1>3, QuietEffect
    <2> QED
      BY <1>2, <2>1 DEF Store!claim, Store!result, Store!Recorded
  <1>4. ASSUME NEW p \in Proc, Store!Claim(p)
        PROVE  stutter \/ Store!Promise!Withdraw
    <2>1. /\ files["claim"].seen = Absent /\ files'["claim"].seen = Torn
          /\ files'["result"] = files["result"] /\ UNCHANGED granted
      BY <1>4, ClaimEffect
    <2>2. verd' = verd /\ elig' = FALSE
      BY <2>1, FileContentAssumption DEF Store!claim, Store!result
    <2> QED
      BY <2>1, <2>2 DEF Store!Promise!Withdraw
  <1>5. ASSUME NEW p \in Proc, Store!Continue(p)
        PROVE  stutter \/ Store!Promise!Grant \/ Store!Promise!Settle
    <2> DEFINE f == job[p].file
    <2>1. /\ f \in Store!FileName
          /\ \A g \in Store!FileName \ {f} : files'[g] = files[g]
          /\ files[f].seen # Absent /\ files'[f].seen # Absent
          /\ ~Store!Recorded(files[f])
          /\ f = "claim" => granted = {}
          /\ \/ UNCHANGED granted /\ ~Store!Recorded(files'[f])
             \/ /\ granted' = granted \cup {a \in {p} : f = "claim"}
                /\ f = "result" => files'[f].seen \in Result
      BY <1>5, ContinueEffect
    <2>2. elig' = elig
      BY <1>2, <2>1 DEF Store!claim, Store!result
    <2>3. CASE f = "result"
      <3>1. verd = "open" /\ elig = FALSE /\ UNCHANGED granted
        BY <2>1, <2>3 DEF Store!result
      <3>2. CASE Store!Recorded(files'["result"])
        <4>1. verd' \in Store!Settled
          BY <3>2 DEF Store!Recorded, Store!result
        <4> QED
          BY <2>2, <3>1, <4>1 DEF Store!Promise!Settle
      <3>3. CASE ~Store!Recorded(files'["result"])
        BY <2>2, <3>1, <3>3
      <3> QED
        BY <3>2, <3>3
    <2>4. CASE f = "claim"
      <3>1. verd' = verd /\ elig = FALSE /\ granted = {}
        BY <1>2, <2>1, <2>4 DEF Store!claim, Store!result
      <3>2. UNCHANGED granted \/ granted' = {p}
        BY <2>1, <2>4, <3>1
      <3> QED
        BY <2>2, <3>1, <3>2 DEF Store!Promise!Grant
    <2>5. CASE f \notin {"claim", "result"}
      BY <1>2, <2>1, <2>2, <2>5 DEF Store!result
    <2> QED
      BY <2>3, <2>4, <2>5
  <1>6. ASSUME Store!PowerLoss
        PROVE  stutter \/ Store!Promise!Forget \/ Store!Promise!Settle
    <2>1. PICK kept : /\ \A f \in Store!FileName : kept[f] \in files[f].disk
                      /\ files' = [f \in Store!FileName |-> Store!Stored(kept[f])]
      BY <1>6 DEF Store!PowerLoss
    <2>2. /\ kept["claim"] \in files["claim"].disk /\ files'["claim"].seen = kept["claim"]
          /\ kept["result"] \in files["result"].disk /\ files'["result"].seen = kept["result"]
          /\ UNCHANGED granted
      BY <1>2, <1>6, <2>1 DEF Store!PowerLoss, Store!Stored
    <2>3. \A f \in Store!FileName : files[f].seen = Absent => files[f].disk = {Absent}
      BY DEF Store!LedgerInv, Store!Visible
    <2>4. /\ files["claim"].seen = Absent => files'["claim"].seen = Absent
          /\ files["result"].seen = Absent => files'["result"].seen = Absent
      BY <1>2, <2>2, <2>3
    <2>5. elig => elig'
      BY <2>4 DEF Store!claim, Store!result
    <2>6. CASE Store!Recorded(files["result"])
      <3>1. files'["result"] = files["result"] /\ Store!result # Absent
        BY <1>2, <1>6, <2>6, SettledStep DEF Store!Next, Store!Recorded, Store!result
      <3> QED
        BY <2>2, <3>1 DEF Store!result
    <2>7. CASE ~Store!Recorded(files["result"]) /\ Store!Recorded(files'["result"])
      <3>1. Store!result # Absent /\ Store!result' # Absent /\ verd = "open" /\ verd' \in Store!Settled
        <4>1. files'["result"].seen \in Result /\ verd = "open" /\ verd' \in Store!Settled
          BY <2>7 DEF Store!result, Store!Recorded
        <4> QED
          BY <1>2, <2>4, <4>1 DEF Store!result
      <3> QED
        BY <2>2, <3>1 DEF Store!Promise!Settle
    <2>8. CASE ~Store!Recorded(files["result"]) /\ ~Store!Recorded(files'["result"])
      <3>1. verd = "open" /\ verd' = "open"
        BY <2>8
      <3>2. CASE elig' = elig
        BY <2>2, <3>1, <3>2
      <3>3. CASE elig' # elig
        <4>1. elig = FALSE /\ elig' = TRUE
          BY <2>5, <3>3
        <4>2. ASSUME NEW a \in granted PROVE FALSE
          <5>1. files["claim"] = Store!Stored(a) /\ a \in Proc
            BY DEF Store!LedgerInv, Store!GrantRecorded, Store!TypeOK
          <5>2. kept["claim"] = a
            BY <2>2, <5>1 DEF Store!Stored
          <5> QED
            BY <2>2, <4>1, <5>1, <5>2, LedgerProcesses DEF Store!claim
        <4> QED
          BY <2>2, <3>1, <4>1, <4>2 DEF Store!Promise!Forget
      <3> QED
        BY <3>2, <3>3
    <2> QED
      BY <2>6, <2>7, <2>8
  <1>7. CASE UNCHANGED Store!vars
    BY <1>1, <1>7 DEF Store!vars, Store!claim, Store!result
  <1> QED
    BY <1>1, <1>3, <1>4, <1>5, <1>6, <1>7 DEF Store!Next, Store!Promise!Next

(* The ledger with its files, system calls, failures and power losses      *)
(* implements a plan that is consumed once (store.go as a whole).          *)
THEOREM LedgerImplementsPromise == Store!Spec => FilesConsumeOnce
  <1>1. Store!Init => Store!Promise!Init
    <2>1. Store!Init => files["claim"] = Store!Missing /\ files["result"] = Store!Missing
      BY DEF Store!Init, Store!FileName
    <2>2. Store!Missing.seen = Absent /\ ~Store!Recorded(Store!Missing)
      BY LedgerContents DEF Store!Missing, Store!Recorded
    <2>3. Store!Init => granted = {}
      BY DEF Store!Init
    <2> QED
      BY <2>1, <2>2, <2>3 DEF Store!Promise!Init, Store!claim, Store!result
  <1>2. Store!LedgerInv /\ [Store!Next]_(Store!vars) => [Store!Promise!Next]_(Store!Promise!pvars)
    BY LedgerPromiseStep
  <1> QED
    BY <1>1, <1>2, LedgerInvariant, PTL
       DEF Store!Spec, LedgerInv, FilesConsumeOnce, Store!ImplementsConsumeOnce, Store!Promise!Spec

-----------------------------------------------------------------------------
(* The invocations.                                                        *)

-----------------------------------------------------------------------------
(* The files.                                                              *)

(* What the step of create leaves of a file that was never made.           *)
LEMMA Created ==
    ASSUME NEW C, Absent \in C, Torn \in C, NEW v \in C, v \notin {Absent, Torn}
    PROVE  /\ CreateSuccess(Missing, v) = Stored(v)
           /\ \A g \in CreateFailures(Missing, v) :
                 /\ g \in FileOf(C) /\ g.seen \in g.disk /\ g.disk \subseteq {Absent, Torn, v}
                 /\ g.seen = Absent => g.disk = {Absent}
                 /\ g.seen = v => g.disk # {v}
  <1>1. FileContentAssumption
    BY FileContentAssumption
  <1>2. Missing.seen = Absent /\ Missing.disk = {Absent}
    BY DEF Missing
  <1>3. Opened(Missing) = [seen |-> Torn, disk |-> {Absent, Torn}]
    BY <1>2 DEF Opened
  <1>4. Written(Opened(Missing), v) = [seen |-> v, disk |-> {Absent, Torn, v}]
    BY <1>3 DEF Written
  <1>5. FileSynced(Written(Opened(Missing), v)) = [seen |-> v, disk |-> {Absent, v}]
    BY <1>4, FileContentAssumption DEF FileSynced
  <1>6. DirSynced(FileSynced(Written(Opened(Missing), v))) = [seen |-> v, disk |-> {v}]
    BY <1>5, FileContentAssumption DEF DirSynced
  <1> QED
    BY <1>2, <1>3, <1>4, <1>5, <1>6, FileContentAssumption DEF CreateSuccess, CreateFailures, Stored, FileOf, Missing

(* What the steps of replace leave.                                        *)
LEMMA Replaced ==
    ASSUME NEW C, NEW f \in FileOf(C), NEW v \in C, v # Absent, f.seen \in f.disk, f.seen # v
    PROVE  /\ ReplaceSuccess(f, v) = Stored(v)
           /\ \A g \in ReplaceFailures(f, v) :
                 \/ g = f
                 \/ g = [seen |-> v, disk |-> f.disk \cup {v}] /\ g.disk # {v}
  BY DEF FileOf, ReplaceSuccess, ReplaceFailures, RenameSynced, Renamed, Stored

(* An eligible plan has no files but its own.                              *)
LEMMA Eligible ==
    ASSUME TypeOK, FilesVisible, State = "prepared"
    PROVE  claim = Missing /\ result = Missing
  <1>1. \A r \in Result : r.state # "prepared"
    BY WriteConstants DEF Settled, Unsettled
  <1>2. claim.seen = Absent /\ result.seen = Absent
    BY <1>1 DEF State, DecodedState, TypeOK, FileOf
  <1> QED
    BY <1>2 DEF FilesVisible, Missing, TypeOK, FileOf

(* A plan in flight has a claim and no result.                             *)
LEMMA InFlight ==
    ASSUME TypeOK, FilesVisible, State = "in_flight"
    PROVE  claim.seen \in Apply /\ result = Missing
  <1>1. \A r \in Result : r.state # "in_flight"
    BY WriteConstants DEF Settled, Unsettled
  <1>2. claim.seen \notin {Absent, Torn} /\ result.seen = Absent
    BY <1>1 DEF State, DecodedState, TypeOK, FileOf
  <1> QED
    BY <1>2 DEF FilesVisible, Missing, TypeOK, FileOf

(* A plan whose outcome is recorded has a claim and that result.           *)
LEMMA Answered ==
    ASSUME TypeOK, FilesVisible, State \in Settled \cup Unsettled
    PROVE  claim.seen \in Apply /\ result.seen \in Result /\ result.seen.state = State
  <1>1. "invalid" \notin Settled \cup Unsettled /\ "prepared" \notin Settled \cup Unsettled /\ "in_flight" \notin Settled \cup Unsettled
    BY DEF Settled, Unsettled
  <1> QED
    BY <1>1 DEF State, DecodedState, TypeOK, FileOf
(* Claim over an eligible plan.                                            *)
LEMMA Claims ==
    ASSUME TypeOK, FilesVisible, State = "prepared", NEW p \in Apply
    PROVE  /\ claim = Missing /\ result = Missing
           /\ CreateSuccess(claim, p) = Stored(p)
           /\ \A g \in CreateFailures(claim, p) :
                 /\ g \in FileOf({Absent, Torn} \cup Apply)
                 /\ g.seen \in g.disk /\ (g.seen = Absent => g.disk = {Absent})
  <1>1. p \notin {Absent, Torn} /\ claim = Missing /\ result = Missing
    BY Eligible, WriteConstants DEF Invocation
  <1> DEFINE C == {Absent, Torn} \cup Apply
  <1>2. Absent \in C /\ Torn \in C /\ p \in C
    OBVIOUS
  <1> HIDE DEF C
  <1>3. /\ CreateSuccess(Missing, p) = Stored(p)
        /\ \A g \in CreateFailures(Missing, p) :
              g \in FileOf(C) /\ g.seen \in g.disk /\ (g.seen = Absent => g.disk = {Absent})
    BY <1>1, <1>2, Created
  <1> QED
    BY <1>1, <1>3 DEF C

(* Finalize of a first result.                                             *)
LEMMA FirstResult ==
    ASSUME TypeOK, FilesVisible, MayCreateResult(State), NEW r \in Result
    PROVE  /\ claim.seen \in Apply /\ result = Missing
           /\ CreateSuccess(result, r) = Stored(r)
           /\ \A g \in CreateFailures(result, r) :
                 /\ g \in FileOf({Absent, Torn} \cup Result)
                 /\ g.seen \in g.disk /\ (g.seen = Absent => g.disk = {Absent})
                 /\ g.disk \subseteq {Absent, Torn, r} /\ ~Recorded(g)
  <1>1. r \notin {Absent, Torn} /\ claim.seen \in Apply /\ result = Missing
    BY InFlight, LedgerContents DEF MayCreateResult
  <1> DEFINE C == {Absent, Torn} \cup Result
  <1>2. Absent \in C /\ Torn \in C /\ r \in C
    OBVIOUS
  <1> HIDE DEF C
  <1>3. /\ CreateSuccess(Missing, r) = Stored(r)
        /\ \A g \in CreateFailures(Missing, r) :
              /\ g \in FileOf(C) /\ g.seen \in g.disk /\ (g.seen = Absent => g.disk = {Absent})
              /\ g.disk \subseteq {Absent, Torn, r} /\ (g.seen = r => g.disk # {r})
    BY <1>1, <1>2, Created
  <1>4. \A g \in CreateFailures(Missing, r) : ~Recorded(g)
    <2> SUFFICES ASSUME NEW g \in CreateFailures(Missing, r), Recorded(g) PROVE FALSE
      OBVIOUS
    <2>1. g.seen \in Result /\ g.seen \in {Absent, Torn, r} /\ g.disk = {g.seen}
      BY <1>3 DEF Recorded
    <2> QED
      BY <1>3, <2>1, LedgerContents
  <1> QED
    BY <1>1, <1>3, <1>4 DEF C

(* Finalize of an observation over an open result.                         *)
LEMMA NextResult ==
    ASSUME TypeOK, FilesVisible, NEW r \in Result, MayReplaceResult(State, r), result.seen # r
    PROVE  /\ claim.seen \in Apply /\ result.seen \in Result /\ ~Recorded(result)
           /\ ReplaceSuccess(result, r) = Stored(r)
           /\ \A g \in ReplaceFailures(result, r) :
                 /\ g \in FileOf({Absent, Torn} \cup Result)
                 /\ g.seen \in g.disk /\ g.seen # Absent
                 /\ g.disk \subseteq result.disk \cup {r} /\ ~Recorded(g)
  <1> DEFINE C == {Absent, Torn} \cup Result
  <1>1. claim.seen \in Apply /\ result.seen \in Result /\ result.seen.state \in Unsettled
    BY Answered DEF MayReplaceResult
  <1>2. r \in C /\ r # Absent /\ result \in FileOf(C) /\ result.seen # Absent /\ result.seen \in result.disk
    BY <1>1, LedgerContents DEF TypeOK, FilesVisible
  <1>3. ~Recorded(result)
    BY <1>1 DEF Recorded, Settled, Unsettled
  <1> HIDE DEF C
  <1>4. /\ ReplaceSuccess(result, r) = Stored(r)
        /\ \A g \in ReplaceFailures(result, r) :
              g = result \/ (g = [seen |-> r, disk |-> result.disk \cup {r}] /\ g.disk # {r})
    BY <1>2, Replaced
  <1>5. \A g \in ReplaceFailures(result, r) :
           /\ g \in FileOf(C) /\ g.seen \in g.disk /\ g.seen # Absent
           /\ g.disk \subseteq result.disk \cup {r} /\ ~Recorded(g)
    BY <1>2, <1>3, <1>4 DEF FileOf, Recorded
  <1> QED
    BY <1>1, <1>3, <1>4, <1>5 DEF C

-----------------------------------------------------------------------------
(* Types.                                                                  *)

LEMMA TypeInit == Init => TypeOK
  <1> SUFFICES ASSUME Init PROVE TypeOK
    OBVIOUS
  <1>1. NoOutcome \in Result
    BY WriteConstants DEF NoOutcome, Outcome, Unsettled
  <1>2. Missing \in FileOf({Absent, Torn} \cup Apply) /\ Missing \in FileOf({Absent, Torn} \cup Result)
    BY DEF FileOf, Missing
  <1>3. generation \in Nat /\ policy \in Policies
    BY DEF Init, Policies, BoundPolicy, BoundGeneration
  <1>4. faults \in 0 .. MaxFaults /\ cancels \in 0 .. MaxCancels /\ changes \in 0 .. MaxChanges
    BY WriteConstants DEF Init
  <1>5. pc \in [Invocation -> ApplyAt \cup ReconcileAt] /\ outcome \in [Invocation -> Result]
    BY <1>1 DEF Init, ApplyAt
  <1> QED
    BY <1>2, <1>3, <1>4, <1>5 DEF Init, TypeOK, Requests

(* A fault within its bound, and locks that their holder gives back.       *)
LEMMA FaultType ==
    ASSUME TypeOK, Fault
    PROVE  faults' \in 0 .. MaxFaults
  BY WriteConstants DEF TypeOK, Fault

LEMMA ReleaseType ==
    ASSUME TypeOK, NEW p, ReleaseLocks(p)
    PROVE  profileLock' \in Apply \cup {NoProc} /\ policyLock' \in Apply \cup {NoProc}
  BY DEF TypeOK, ReleaseLocks, Released

(* The steps of an apply keep the types.                                   *)
LEMMA TypeApply ==
    ASSUME TypeOK, FilesVisible, NEW p \in Apply, ApplyBegin(p) \/ ApplyStep(p)
    PROVE  TypeOK'
  <1> DEFINE At == ApplyAt \cup ReconcileAt
  <1>1. p \in Invocation /\ \A l \in At : [pc EXCEPT ![p] = l] \in [Invocation -> At]
    BY DEF TypeOK, Invocation
  <1>2. {"client", "lock", "remote", "policy", "verify", "claim", "send", "wait", "record", "done"} \subseteq At
    BY DEF ApplyAt
  <1> HIDE DEF At
  <1>3. CASE ApplyBegin(p)
    BY <1>1, <1>2, <1>3 DEF ApplyBegin, Goto, TypeOK, ledgerVars, localVars, serverVars, boundVars, At
  <1>4. CASE ApplyClient(p) \/ ApplyRemote(p) \/ ApplyLock(p) \/ ApplyPolicy(p) \/ ApplyVerify(p)
    BY <1>1, <1>2, <1>4 DEF ApplyClient, ApplyRemote, ApplyLock, ApplyPolicy, ApplyVerify, Goto, TypeOK,
                            ledgerVars, localVars, serverVars, boundVars, At
  <1>5. CASE ApplyClaim(p)
    <2>1. claim' = Stored(p)
      BY <1>5, Claims DEF ApplyClaim
    <2> QED
      BY <1>1, <1>2, <1>5, <2>1 DEF ApplyClaim, Goto, TypeOK, localVars, serverVars, boundVars, At, Stored, FileOf
  <1>6. CASE ApplyClaimFails(p)
    <2>1. claim' \in FileOf({Absent, Torn} \cup Apply)
      BY <1>6, Claims DEF ApplyClaimFails
    <2> QED
      BY <1>1, <1>2, <1>6, <2>1, FaultType, ReleaseType DEF ApplyClaimFails, Goto, TypeOK, serverVars, At
  <1>7. CASE ApplyRefused(p)
    BY <1>1, <1>2, <1>7, ReleaseType DEF ApplyRefused, Goto, TypeOK, ledgerVars, serverVars, boundVars, At
  <1>8. CASE ApplySend(p)
    <2>1. NoOutcome \in Result
      BY WriteConstants DEF NoOutcome, Outcome, Unsettled
    <2> QED
      BY <1>1, <1>2, <1>8, <2>1 DEF ApplySend, Goto, TypeOK, ledgerVars, localVars, boundVars, At, Requests
  <1>9. CASE ApplyAnswer(p)
    BY <1>1, <1>2, <1>9 DEF ApplyAnswer, Goto, TypeOK, ledgerVars, localVars, serverVars, boundVars, At
  <1>10. CASE ApplyRecord(p)
    <2>1. outcome[p] \in Result
      BY <1>1 DEF TypeOK
    <2>2. result' = result \/ result' = Stored(outcome[p])
      BY <1>10, <2>1, FirstResult DEF ApplyRecord
    <2>3. result' \in FileOf({Absent, Torn} \cup Result)
      BY <2>1, <2>2 DEF TypeOK, Stored, FileOf
    <2> QED
      BY <1>1, <1>2, <1>10, <2>3, ReleaseType DEF ApplyRecord, Goto, TypeOK, serverVars, boundVars, At
  <1>11. CASE ApplyRecordFails(p)
    <2>1. result' \in FileOf({Absent, Torn} \cup Result)
      BY <1>1, <1>11, FirstResult DEF ApplyRecordFails, TypeOK
    <2> QED
      BY <1>1, <1>2, <1>11, <2>1, FaultType, ReleaseType DEF ApplyRecordFails, Goto, TypeOK, serverVars, At
  <1> QED
    BY <1>3, <1>4, <1>5, <1>6, <1>7, <1>8, <1>9, <1>10, <1>11 DEF ApplyStep

(* The steps of a reconcile keep the types.                                *)
LEMMA TypeReconcile ==
    ASSUME TypeOK, FilesVisible, NEW p \in Reconcile, ReconcileBegin(p) \/ ReconcileStep(p)
    PROVE  TypeOK'
  <1> DEFINE At == ApplyAt \cup ReconcileAt
  <1>1. p \in Invocation /\ \A l \in At : [pc EXCEPT ![p] = l] \in [Invocation -> At]
    BY DEF TypeOK, Invocation
  <1>2. {"client", "observe", "save", "done"} \subseteq At
    BY DEF ReconcileAt
  <1> HIDE DEF At
  <1>3. CASE ReconcileBegin(p)
    <2>1. Outcome("operator_resolution_required", State # "in_flight" /\ result.seen.rid) \in Result
      <3>1. State # "in_flight" => result.seen.rid \in BOOLEAN
        BY <1>3, Answered, WriteConstants DEF ReconcileBegin
      <3> QED
        BY <3>1, WriteConstants DEF Outcome, Unsettled
    <2> QED
      BY <1>1, <1>2, <1>3, <2>1 DEF ReconcileBegin, Goto, TypeOK, ledgerVars, localVars, serverVars, boundVars, At
  <1>4. CASE ReconcileClient(p) \/ ReconcileGivesUp(p)
    BY <1>1, <1>2, <1>4 DEF ReconcileClient, ReconcileGivesUp, Goto, TypeOK, ledgerVars, localVars, serverVars, boundVars, At
  <1>5. CASE ReconcileObserve(p)
    <2>1. Outcome("reconciled", TRUE) \in Result
      BY WriteConstants DEF Outcome, Settled
    <2> QED
      BY <1>1, <1>2, <1>5, <2>1 DEF ReconcileObserve, Goto, TypeOK, ledgerVars, localVars, serverVars, boundVars, At
  <1>6. outcome[p] \in Result
    BY <1>1 DEF TypeOK
  <1>7. CASE ReconcileSave(p)
    <2>1. result' = result \/ result' = Stored(outcome[p])
      BY <1>6, <1>7, FirstResult, NextResult DEF ReconcileSave
    <2>2. result' \in FileOf({Absent, Torn} \cup Result)
      BY <1>6, <2>1 DEF TypeOK, Stored, FileOf
    <2> QED
      BY <1>1, <1>2, <1>7, <2>2 DEF ReconcileSave, Goto, TypeOK, localVars, serverVars, boundVars, At
  <1>8. CASE ReconcileSaveFails(p)
    <2>1. result' \in FileOf({Absent, Torn} \cup Result)
      <3>1. CASE MayCreateResult(State) /\ result' \in CreateFailures(result, outcome[p])
        BY <1>6, <3>1, FirstResult
      <3>2. CASE result' \in ReplaceFailures(result, outcome[p])
        BY <1>6, <3>2 DEF ReplaceFailures, Renamed, FileOf, TypeOK
      <3> QED
        BY <1>8, <3>1, <3>2 DEF ReconcileSaveFails, TypeOK
    <2> QED
      BY <1>1, <1>2, <1>8, <2>1, FaultType DEF ReconcileSaveFails, Goto, TypeOK, localVars, serverVars, At
  <1> QED
    BY <1>3, <1>4, <1>5, <1>7, <1>8 DEF ReconcileStep

(* What happens around the invocations keeps the types.                    *)
LEMMA TypeEnvironment ==
    ASSUME TypeOK, Environment
    PROVE  TypeOK'
  <1>1. ASSUME NEW a \in Apply, ServerApplies(a) \/ ServerRefuses(a) PROVE TypeOK'
    BY <1>1 DEF ServerApplies, ServerRefuses, TypeOK, Requests, ledgerVars, localVars, boundVars
  <1>2. CASE ForeignEdit
    BY <1>2 DEF ForeignEdit, TypeOK, ledgerVars, localVars, boundVars
  <1>3. CASE Login \/ SetPolicy \/ ClearPolicy
    BY <1>3, WriteConstants DEF Login, SetPolicy, ClearPolicy, TypeOK, Policies, NoPolicy, ledgerVars, serverVars
  <1>4. ASSUME NEW p \in Invocation, Cancel(p) PROVE TypeOK'
    BY <1>4, WriteConstants DEF Cancel, TypeOK, ledgerVars, localVars, serverVars
  <1>5. ASSUME NEW p \in Invocation, Kill(p) PROVE TypeOK'
    BY <1>5, FaultType, ReleaseType DEF Kill, Goto, TypeOK, ApplyAt, ledgerVars, serverVars
  <1>6. CASE PowerLoss
    <2>1. claim' \in FileOf({Absent, Torn} \cup Apply) /\ result' \in FileOf({Absent, Torn} \cup Result)
      BY <1>6 DEF PowerLoss, TypeOK, FileOf, Stored
    <2> QED
      BY <1>6, <2>1, FaultType DEF PowerLoss, TypeOK, ApplyAt, serverVars
  <1> QED
    BY <1>1, <1>2, <1>3, <1>4, <1>5, <1>6 DEF Environment

LEMMA TypeStep == TypeOK /\ FilesVisible /\ [Next]_vars => TypeOK'
  <1>1. TypeOK /\ UNCHANGED vars => TypeOK'
    BY DEF TypeOK, vars, ledgerVars, localVars, serverVars, boundVars
  <1> QED
    BY <1>1, TypeApply, TypeReconcile, TypeEnvironment DEF Next

-----------------------------------------------------------------------------
(* The locks.                                                              *)

(* An apply moves along its program and takes the locks as it goes; the    *)
(* others keep theirs.                                                     *)
LEMMA LocksApply ==
    ASSUME TypeOK, LocksFollowProgram, NEW p \in Apply, ApplyBegin(p) \/ ApplyStep(p)
    PROVE  LocksFollowProgram'
  <1>1. p \in Invocation /\ Apply \subseteq Invocation /\ NoProc \notin Apply
    BY WriteConstants DEF Invocation
  <1>2. /\ pc \in [Invocation -> ApplyAt \cup ReconcileAt]
        /\ profileLock \in Apply \cup {NoProc} /\ policyLock \in Apply \cup {NoProc}
    BY DEF TypeOK
  <1> USE <1>1, <1>2 DEF LocksFollowProgram, Locking, Goto, BindingHolds
  <1>3. CASE ApplyBegin(p) \/ ApplyClient(p) \/ ApplyRemote(p)
    BY <1>3 DEF ApplyBegin, ApplyClient, ApplyRemote, Live, localVars
  <1>4. CASE ApplyLock(p) \/ ApplyPolicy(p)
    BY <1>4 DEF ApplyLock, ApplyPolicy, Live
  <1>5. CASE ApplyVerify(p) \/ ApplyClaim(p) \/ ApplySend(p) \/ ApplyAnswer(p)
    BY <1>5 DEF ApplyVerify, ApplyClaim, ApplySend, ApplyAnswer, Live, localVars
  <1>6. CASE ApplyClaimFails(p) \/ ApplyRefused(p) \/ ApplyRecord(p) \/ ApplyRecordFails(p)
    BY <1>6 DEF ApplyClaimFails, ApplyRefused, ApplyRecord, ApplyRecordFails, ReleaseLocks, Released
  <1> QED
    BY <1>3, <1>4, <1>5, <1>6 DEF ApplyStep

LEMMA LocksReconcile ==
    ASSUME TypeOK, LocksFollowProgram, NEW p \in Reconcile, ReconcileBegin(p) \/ ReconcileStep(p)
    PROVE  LocksFollowProgram'
  <1>1. p \in Invocation /\ Apply \subseteq Invocation /\ p \notin Apply
    BY WriteConstants DEF Invocation
  <1>2. pc \in [Invocation -> ApplyAt \cup ReconcileAt]
    BY DEF TypeOK
  <1>3. UNCHANGED localVars /\ \E l \in ReconcileAt : pc' = [pc EXCEPT ![p] = l]
    BY DEF ReconcileBegin, ReconcileStep, ReconcileClient, ReconcileObserve, ReconcileSave, ReconcileSaveFails,
           ReconcileGivesUp, Goto, ReconcileAt, localVars
  <1> QED
    BY <1>1, <1>2, <1>3 DEF LocksFollowProgram, localVars, BindingHolds

LEMMA LocksEnvironment ==
    ASSUME TypeOK, LocksFollowProgram, Environment
    PROVE  LocksFollowProgram'
  <1>1. Apply \subseteq Invocation /\ NoProc \notin Apply
    BY WriteConstants DEF Invocation
  <1>2. /\ pc \in [Invocation -> ApplyAt \cup ReconcileAt]
        /\ profileLock \in Apply \cup {NoProc} /\ policyLock \in Apply \cup {NoProc}
    BY DEF TypeOK
  <1> USE <1>1, <1>2 DEF LocksFollowProgram, Locking, BindingHolds
  <1>3. ASSUME NEW a \in Apply, ServerApplies(a) \/ ServerRefuses(a) PROVE LocksFollowProgram'
    BY <1>3 DEF ServerApplies, ServerRefuses, localVars
  <1>4. CASE ForeignEdit
    BY <1>4 DEF ForeignEdit, localVars
  <1>5. CASE Login \/ SetPolicy \/ ClearPolicy
    BY <1>5 DEF Login, SetPolicy, ClearPolicy
  <1>6. ASSUME NEW p \in Invocation, Cancel(p) PROVE LocksFollowProgram'
    BY <1>6 DEF Cancel, localVars
  <1>7. ASSUME NEW p \in Invocation, Kill(p) PROVE LocksFollowProgram'
    BY <1>7 DEF Kill, ReleaseLocks, Released, Goto
  <1>8. CASE PowerLoss
    BY <1>8 DEF PowerLoss
  <1> QED
    BY <1>3, <1>4, <1>5, <1>6, <1>7, <1>8 DEF Environment

(* What a reader sees is what a step of the ledger left.                   *)
LEMMA FilesStep ==
    ASSUME TypeOK, FilesVisible, [Next]_vars
    PROVE  FilesVisible'
  <1> DEFINE Sound(f) == f.seen \in f.disk /\ (f.seen = Absent => f.disk = {Absent})
  <1> SUFFICES Sound(claim') /\ Sound(result')
    BY DEF FilesVisible
  <1>1. Sound(claim) /\ Sound(result)
    BY DEF FilesVisible
  <1>2. \A v : Sound(Stored(v))
    BY DEF Stored
  <1>3. \A p \in Invocation : outcome[p] \in Result
    BY DEF TypeOK
  <1>4. ASSUME NEW p \in Apply, ApplyClaim(p) \/ ApplyClaimFails(p) PROVE Sound(claim') /\ Sound(result')
    BY <1>1, <1>2, <1>4, Claims DEF ApplyClaim, ApplyClaimFails
  <1>5. ASSUME NEW p \in Apply, ApplyRecord(p) \/ ApplyRecordFails(p) PROVE Sound(claim') /\ Sound(result')
    BY <1>1, <1>2, <1>3, <1>5, FirstResult DEF ApplyRecord, ApplyRecordFails, Invocation
  <1>6. ASSUME NEW p \in Reconcile, ReconcileSave(p) PROVE Sound(claim') /\ Sound(result')
    BY <1>1, <1>2, <1>3, <1>6, FirstResult, NextResult DEF ReconcileSave, Invocation
  <1>7. ASSUME NEW p \in Reconcile, ReconcileSaveFails(p) PROVE Sound(claim') /\ Sound(result')
    <2>1. outcome[p] \in Result
      BY <1>3 DEF Invocation
    <2>2. CASE MayReplaceResult(State, outcome[p]) /\ result' \in ReplaceFailures(result, outcome[p])
      <3>1. outcome[p] # Absent /\ result.seen \in Result
        BY <2>1, <2>2, Answered, LedgerContents DEF MayReplaceResult
      <3> QED
        BY <1>1, <1>7, <2>2, <3>1 DEF ReconcileSaveFails, ReplaceFailures, Renamed
    <2> QED
      BY <1>1, <1>7, <2>1, <2>2, FirstResult DEF ReconcileSaveFails
  <1>8. CASE PowerLoss
    BY <1>2, <1>8 DEF PowerLoss
  <1> HIDE DEF Sound
  <1>9. ASSUME UNCHANGED <<claim, result>> PROVE Sound(claim') /\ Sound(result')
    BY <1>1, <1>9
  <1> USE DEF ledgerVars
  <1>10. ASSUME NEW p \in Apply,
                \/ ApplyBegin(p) \/ ApplyClient(p) \/ ApplyRemote(p) \/ ApplyLock(p) \/ ApplyPolicy(p)
                \/ ApplyVerify(p) \/ ApplyRefused(p) \/ ApplySend(p) \/ ApplyAnswer(p)
         PROVE  UNCHANGED <<claim, result>>
    BY <1>10 DEF ApplyBegin, ApplyClient, ApplyRemote, ApplyLock, ApplyPolicy, ApplyVerify, ApplyRefused, ApplySend, ApplyAnswer
  <1>11. ASSUME NEW p \in Reconcile,
                ReconcileBegin(p) \/ ReconcileClient(p) \/ ReconcileObserve(p) \/ ReconcileGivesUp(p)
         PROVE  UNCHANGED <<claim, result>>
    BY <1>11 DEF ReconcileBegin, ReconcileClient, ReconcileObserve, ReconcileGivesUp
  <1>12. CASE Environment
    <2>1. CASE ~PowerLoss
      BY <1>9, <1>12, <2>1 DEF Environment, ServerApplies, ServerRefuses, ForeignEdit, Login, SetPolicy, ClearPolicy, Cancel, Kill
    <2> QED
      BY <1>8, <2>1
  <1>13. CASE UNCHANGED vars
    BY <1>9, <1>13 DEF vars
  <1> QED
    BY <1>4, <1>5, <1>6, <1>7, <1>9, <1>10, <1>11, <1>12, <1>13 DEF Next, ApplyStep, ReconcileStep

-----------------------------------------------------------------------------
(* The claim and the request.                                              *)

(* A stored claim names one invocation.                                    *)
LEMMA OneClaim ==
    ASSUME NEW a \in Apply
    PROVE  /\ Stored(a).seen = a /\ Stored(a).disk = {a} /\ Stored(a) # Missing /\ a # Absent /\ a # Torn
           /\ \A b : Stored(a) = Stored(b) => a = b
  <1>1. a # Absent /\ a # Torn
    BY WriteConstants DEF Invocation
  <1>2. Stored(a).seen = a /\ Stored(a).disk = {a} /\ \A b : Stored(b).seen = b
    BY DEF Stored
  <1> QED
    BY <1>1, <1>2 DEF Missing

LEMMA RequestNamed == ClaimBeforeRequest => AtMostOneRequest
  BY OneClaim DEF ClaimBeforeRequest, AtMostOneRequest

LEMMA ClaimApply ==
    ASSUME TypeOK, FilesVisible, ClaimBeforeRequest, NEW p \in Apply, ApplyBegin(p) \/ ApplyStep(p)
    PROVE  ClaimBeforeRequest'
  <1>1. p \in Invocation /\ Apply \subseteq Invocation
    BY DEF Invocation
  <1>2. pc \in [Invocation -> ApplyAt \cup ReconcileAt] /\ request \in [Apply -> Requests]
    BY DEF TypeOK
  <1> USE <1>1, <1>2 DEF ClaimBeforeRequest, Dispatching, Goto, Live, ledgerVars, serverVars
  <1>3. CASE ApplyBegin(p) \/ ApplyClient(p) \/ ApplyRemote(p) \/ ApplyLock(p) \/ ApplyPolicy(p) \/ ApplyVerify(p) \/ ApplyRefused(p)
    BY <1>3 DEF ApplyBegin, ApplyClient, ApplyRemote, ApplyLock, ApplyPolicy, ApplyVerify, ApplyRefused
  <1>4. CASE ApplyClaim(p)
    <2>1. claim = Missing /\ claim' = Stored(p)
      BY <1>4, Claims DEF ApplyClaim
    <2>2. \A a \in Apply : pc[a] \notin Dispatching /\ request[a] = "none"
      BY <2>1, OneClaim
    <2> QED
      BY <1>4, <2>1, <2>2 DEF ApplyClaim
  <1>5. CASE ApplyClaimFails(p)
    <2>1. claim = Missing
      BY <1>5, Claims DEF ApplyClaimFails
    <2>2. \A a \in Apply : pc[a] \notin Dispatching /\ request[a] = "none"
      BY <2>1, OneClaim
    <2> QED
      BY <1>5, <2>2 DEF ApplyClaimFails
  <1>6. CASE ApplySend(p)
    BY <1>6 DEF ApplySend
  <1>7. CASE ApplyAnswer(p) \/ ApplyRecord(p) \/ ApplyRecordFails(p)
    BY <1>7 DEF ApplyAnswer, ApplyRecord, ApplyRecordFails
  <1> QED
    BY <1>3, <1>4, <1>5, <1>6, <1>7 DEF ApplyStep

(* No reconcile touches a claim, a request or an apply.                    *)
LEMMA ReconcileAside ==
    ASSUME TypeOK, NEW p \in Reconcile, ReconcileBegin(p) \/ ReconcileStep(p)
    PROVE  /\ UNCHANGED <<kind, claim, localVars, serverVars, staleAtStart>>
           /\ \A q \in Invocation \ {p} : pc'[q] = pc[q] /\ outcome'[q] = outcome[q]
           /\ Apply \subseteq Invocation \ {p}
  <1>1. UNCHANGED <<kind, claim, localVars, serverVars, staleAtStart>> /\ \E l : Goto(p, l)
    BY DEF ReconcileBegin, ReconcileStep, ReconcileClient, ReconcileObserve, ReconcileSave, ReconcileSaveFails,
           ReconcileGivesUp, ledgerVars
  <1>2. \A q \in Invocation \ {p} : outcome'[q] = outcome[q]
    BY DEF TypeOK, ReconcileBegin, ReconcileStep, ReconcileClient, ReconcileObserve, ReconcileSave, ReconcileSaveFails,
           ReconcileGivesUp
  <1> QED
    BY <1>1, <1>2, WriteConstants DEF Goto, TypeOK, Invocation

(* The environment moves an invocation only to its end.                    *)
LEMMA EnvironmentAside ==
    ASSUME TypeOK, Environment
    PROVE  /\ \A q \in Invocation : pc'[q] = pc[q] \/ (pc'[q] = "done" /\ pc[q] # "idle")
           /\ UNCHANGED <<kind, outcome, staleAtStart>>
           /\ edited => edited'
           /\ \/ UNCHANGED request
              \/ \E a \in Apply : /\ request[a] = "pending"
                                  /\ \E v \in {"applied", "refused"} : request' = [request EXCEPT ![a] = v]
           /\ \/ UNCHANGED <<claim, result>>
              \/ /\ \E c \in claim.disk, r \in result.disk : claim' = Stored(c) /\ result' = Stored(r)
                 /\ \A q \in Invocation : pc'[q] \in {"idle", "done"}
                 /\ UNCHANGED <<request, edited>>
  <1>1. pc \in [Invocation -> ApplyAt \cup ReconcileAt] /\ edited \in BOOLEAN
    BY DEF TypeOK
  <1> USE DEF ledgerVars, serverVars
  <1>2. ASSUME NEW a \in Apply, ServerApplies(a) \/ ServerRefuses(a)
        PROVE  /\ \E v \in {"applied", "refused"} : request' = [request EXCEPT ![a] = v]
               /\ request[a] = "pending" /\ UNCHANGED <<kind, claim, result, pc, outcome, staleAtStart>> /\ (edited => edited')
    BY <1>1, <1>2 DEF ServerApplies, ServerRefuses
  <1>3. CASE ForeignEdit
    BY <1>3 DEF ForeignEdit
  <1>4. CASE Login \/ SetPolicy \/ ClearPolicy
    BY <1>4 DEF Login, SetPolicy, ClearPolicy
  <1>5. ASSUME NEW p \in Invocation, Cancel(p) PROVE UNCHANGED <<ledgerVars, serverVars, pc, outcome, staleAtStart>>
    BY <1>5 DEF Cancel
  <1>6. ASSUME NEW p \in Invocation, Kill(p)
        PROVE  /\ UNCHANGED <<ledgerVars, serverVars, outcome, staleAtStart>>
               /\ \A q \in Invocation : pc'[q] = pc[q] \/ (pc'[q] = "done" /\ pc[q] # "idle")
    BY <1>1, <1>6 DEF Kill, Goto
  <1>7. CASE PowerLoss
    <2>1. \A q \in Invocation : pc'[q] = IF pc[q] = "idle" THEN "idle" ELSE "done"
      BY <1>7 DEF PowerLoss
    <2> QED
      BY <1>7, <2>1 DEF PowerLoss
  <1> QED
    BY <1>2, <1>3, <1>4, <1>5, <1>6, <1>7 DEF Environment

LEMMA ClaimEnvironment ==
    ASSUME TypeOK, ClaimBeforeRequest, Environment
    PROVE  ClaimBeforeRequest'
  <1> SUFFICES ASSUME NEW a \in Apply
               PROVE  /\ pc'[a] \in Dispatching \/ request'[a] # "none" => claim' = Stored(a)
                      /\ pc'[a] \notin {"wait", "record", "done"} => request'[a] = "none"
    BY DEF ClaimBeforeRequest
  <1>1. a \in Invocation /\ request \in [Apply -> Requests]
    BY DEF Invocation, TypeOK
  <1>2. /\ pc'[a] \in Dispatching => pc[a] \in Dispatching
        /\ pc'[a] \notin {"wait", "record", "done"} => pc'[a] = pc[a]
    BY <1>1, EnvironmentAside DEF Dispatching
  <1>3. request'[a] # "none" <=> request[a] # "none"
    BY <1>1, EnvironmentAside DEF Requests
  <1>4. claim = Stored(a) => claim' = Stored(a)
    BY OneClaim, EnvironmentAside
  <1> QED
    BY <1>2, <1>3, <1>4 DEF ClaimBeforeRequest

LEMMA ClaimStep ==
    ASSUME TypeOK, FilesVisible, ClaimBeforeRequest, [Next]_vars
    PROVE  ClaimBeforeRequest'
  <1>1. ASSUME NEW p \in Reconcile, ReconcileBegin(p) \/ ReconcileStep(p) PROVE ClaimBeforeRequest'
    BY <1>1, ReconcileAside DEF ClaimBeforeRequest, serverVars
  <1>2. CASE UNCHANGED vars
    BY <1>2 DEF ClaimBeforeRequest, vars, ledgerVars, serverVars
  <1> QED
    BY <1>1, <1>2, ClaimApply, ClaimEnvironment DEF Next

-----------------------------------------------------------------------------
(* Who may record.                                                         *)

(* A reconcile is past the profile lock only while no apply holds it.      *)
LEMMA LedgerOfReconcile ==
    ASSUME TypeOK, FilesVisible, State \in Unsettled \cup {"in_flight"}
    PROVE  claim.seen \in Apply /\ claim # Missing
  <1>1. claim.seen \in Apply
    BY InFlight, Answered
  <1> QED
    BY <1>1, OneClaim DEF Missing

LEMMA ReconcileAfterApplyStep ==
    ASSUME TypeOK, FilesVisible, LocksFollowProgram, ClaimBeforeRequest, ReconcileAfterApply, [Next]_vars
    PROVE  ReconcileAfterApply'
  <1>1. /\ pc \in [Invocation -> ApplyAt \cup ReconcileAt]
        /\ Apply \subseteq Invocation /\ Reconcile \subseteq Invocation /\ Apply \cap Reconcile = {} /\ NoProc \notin Apply
    BY WriteConstants DEF TypeOK, Invocation
  <1> USE <1>1 DEF ReconcileAfterApply, Reconciling, Dispatching
  <1>2. ASSUME NEW p \in Apply, ApplyClaim(p) PROVE ReconcileAfterApply'
    <2>1. claim = Missing
      BY <1>2, Claims DEF ApplyClaim
    <2>2. \A q \in Reconcile : pc[q] \notin Reconciling
      BY <2>1, OneClaim DEF Missing
    <2>3. \A q \in Reconcile : pc'[q] = pc[q]
      BY <1>2 DEF ApplyClaim, Goto
    <2> QED
      BY <2>2, <2>3
  <1>3. ASSUME NEW p \in Apply, ApplyClaimFails(p) PROVE ReconcileAfterApply'
    <2>1. claim = Missing
      BY <1>3, Claims DEF ApplyClaimFails
    <2>2. \A q \in Reconcile : pc[q] \notin Reconciling
      BY <2>1, OneClaim DEF Missing
    <2>3. \A q \in Reconcile : pc'[q] = pc[q]
      BY <1>3 DEF ApplyClaimFails, Goto
    <2> QED
      BY <2>2, <2>3
  <1>4. ASSUME NEW p \in Apply, ApplyBegin(p) \/ ApplyStep(p), ~ApplyClaim(p), ~ApplyClaimFails(p) PROVE ReconcileAfterApply'
    <2>1. UNCHANGED claim
      BY <1>4 DEF ApplyBegin, ApplyStep, ApplyClient, ApplyRemote, ApplyLock, ApplyPolicy, ApplyVerify, ApplyRefused,
                  ApplySend, ApplyAnswer, ApplyRecord, ApplyRecordFails, ledgerVars
    <2>2. \A q \in Invocation \ {p} : pc'[q] = pc[q]
      BY <1>4 DEF ApplyBegin, ApplyStep, ApplyClient, ApplyRemote, ApplyLock, ApplyPolicy, ApplyVerify, ApplyRefused,
                  ApplySend, ApplyAnswer, ApplyRecord, ApplyRecordFails, Goto
    <2>3. pc'[p] \in Dispatching => pc[p] \in Dispatching
      BY <1>4 DEF ApplyBegin, ApplyStep, ApplyClient, ApplyRemote, ApplyLock, ApplyPolicy, ApplyVerify, ApplyRefused,
                  ApplySend, ApplyAnswer, ApplyRecord, ApplyRecordFails, Goto
    <2> QED
      BY <2>1, <2>2, <2>3
  <1>5. ASSUME NEW p \in Reconcile, ReconcileBegin(p) \/ ReconcileStep(p) PROVE ReconcileAfterApply'
    <2>1. UNCHANGED claim /\ \A q \in Invocation \ {p} : pc'[q] = pc[q]
      BY <1>5, ReconcileAside
    <2>2. CASE ReconcileBegin(p)
      BY <2>1, <2>2, LedgerOfReconcile DEF ReconcileBegin, Goto
    <2>3. CASE ReconcileClient(p)
      <3>1. \A a \in Apply : pc[a] \notin Dispatching
        BY <2>3 DEF ReconcileClient, LocksFollowProgram, Locking
      <3> QED
        BY <2>1, <2>3, <3>1 DEF ReconcileClient, Live, Goto
    <2>4. CASE ReconcileObserve(p)
      BY <2>1, <2>4 DEF ReconcileObserve, Live, Goto
    <2>5. CASE ReconcileSave(p) \/ ReconcileSaveFails(p) \/ ReconcileGivesUp(p)
      BY <2>1, <2>5 DEF ReconcileSave, ReconcileSaveFails, ReconcileGivesUp, Goto
    <2> QED
      BY <1>5, <2>2, <2>3, <2>4, <2>5 DEF ReconcileStep
  <1>6. CASE Environment
    <2>1. \A q \in Invocation : pc'[q] = pc[q] \/ pc'[q] = "done"
      BY <1>6, EnvironmentAside
    <2>2. UNCHANGED claim \/ \A q \in Invocation : pc'[q] \in {"idle", "done"}
      BY <1>6, EnvironmentAside
    <2> QED
      BY <2>1, <2>2
  <1>7. CASE UNCHANGED vars
    BY <1>7 DEF vars, ledgerVars
  <1> QED
    BY <1>2, <1>3, <1>4, <1>5, <1>6, <1>7 DEF Next

LEMMA NoEarlyVerdictStep ==
    ASSUME TypeOK, FilesVisible, LocksFollowProgram, ReconcileAfterApply, NoEarlyVerdict, [Next]_vars
    PROVE  NoEarlyVerdict'
  <1>1. /\ pc \in [Invocation -> ApplyAt \cup ReconcileAt]
        /\ Apply \subseteq Invocation /\ Reconcile \subseteq Invocation /\ Apply \cap Reconcile = {} /\ NoProc \notin Apply
    BY WriteConstants DEF TypeOK, Invocation
  <1> USE <1>1 DEF NoEarlyVerdict
  <1>2. ASSUME NEW p \in Apply, ApplyClaim(p) PROVE NoEarlyVerdict'
    BY <1>2, Claims DEF ApplyClaim
  <1>3. ASSUME NEW p \in Apply, ApplyRecord(p) \/ ApplyRecordFails(p) PROVE NoEarlyVerdict'
    <2>1. \A a \in Apply \ {p} : pc[a] \notin Dispatching
      BY <1>3 DEF ApplyRecord, ApplyRecordFails, LocksFollowProgram, Locking, Dispatching
    <2> QED
      BY <1>3, <2>1 DEF ApplyRecord, ApplyRecordFails, Goto, Dispatching
  <1>4. ASSUME NEW p \in Apply, ApplyBegin(p) \/ ApplyStep(p), ~ApplyClaim(p), ~ApplyRecord(p), ~ApplyRecordFails(p) PROVE NoEarlyVerdict'
    BY <1>4 DEF ApplyBegin, ApplyStep, ApplyClient, ApplyRemote, ApplyLock, ApplyPolicy, ApplyVerify, ApplyRefused,
                ApplyClaimFails, ApplySend, ApplyAnswer, ledgerVars, Goto
  <1>5. ASSUME NEW p \in Reconcile, ReconcileBegin(p) \/ ReconcileStep(p) PROVE NoEarlyVerdict'
    <2>1. \A a \in Apply : pc'[a] = pc[a]
      BY <1>5, ReconcileAside
    <2>2. CASE ReconcileSave(p) \/ ReconcileSaveFails(p)
      BY <2>1, <2>2 DEF ReconcileSave, ReconcileSaveFails, Live, ReconcileAfterApply, Dispatching
    <2>3. CASE ~(ReconcileSave(p) \/ ReconcileSaveFails(p))
      <3>1. UNCHANGED result
        BY <1>5, <2>3 DEF ReconcileBegin, ReconcileStep, ReconcileClient, ReconcileObserve, ReconcileGivesUp, ledgerVars
      <3> QED
        BY <2>1, <3>1
    <2> QED
      BY <2>2, <2>3
  <1>6. CASE Environment
    <2>1. \A q \in Invocation : pc'[q] = pc[q] \/ pc'[q] = "done"
      BY <1>6, EnvironmentAside
    <2>2. UNCHANGED result \/ \A q \in Invocation : pc'[q] \in {"idle", "done"}
      BY <1>6, EnvironmentAside
    <2> QED
      BY <2>1, <2>2
  <1>7. CASE UNCHANGED vars
    BY <1>7 DEF vars, ledgerVars
  <1> QED
    BY <1>2, <1>3, <1>4, <1>5, <1>6, <1>7 DEF Next

-----------------------------------------------------------------------------
(* Stale applies.                                                          *)

LEMMA StaleApply ==
    ASSUME TypeOK, ClaimBeforeRequest, StaleStopped, StaleRefused, NEW p \in Apply, ApplyBegin(p) \/ ApplyStep(p)
    PROVE  StaleStopped' /\ StaleRefused'
  <1>1. /\ pc \in [Invocation -> ApplyAt \cup ReconcileAt] /\ request \in [Apply -> Requests]
        /\ staleAtStart \subseteq Apply /\ edited \in BOOLEAN /\ Apply \subseteq Invocation
    BY DEF TypeOK, Invocation
  <1> USE <1>1 DEF StaleStopped, StaleRefused, Goto, Live, ledgerVars, serverVars
  <1>2. CASE ApplyBegin(p)
    BY <1>2 DEF ApplyBegin, ClaimBeforeRequest
  <1>3. CASE ApplyClient(p)
    BY <1>3 DEF ApplyClient
  <1>4. CASE ApplyRemote(p) \/ ApplyVerify(p)
    BY <1>4 DEF ApplyRemote, ApplyVerify, RemoteUnchanged
  <1>5. CASE ApplyLock(p) \/ ApplyPolicy(p)
    BY <1>5 DEF ApplyLock, ApplyPolicy
  <1>6. CASE ApplyClaim(p) \/ ApplySend(p)
    BY <1>6 DEF ApplyClaim, ApplySend
  <1>7. CASE ApplyClaimFails(p) \/ ApplyRefused(p) \/ ApplyAnswer(p) \/ ApplyRecord(p) \/ ApplyRecordFails(p)
    BY <1>7 DEF ApplyClaimFails, ApplyRefused, ApplyAnswer, ApplyRecord, ApplyRecordFails
  <1> QED
    BY <1>2, <1>3, <1>4, <1>5, <1>6, <1>7 DEF ApplyStep

LEMMA StaleStep ==
    ASSUME TypeOK, ClaimBeforeRequest, StaleStopped, StaleRefused, [Next]_vars
    PROVE  StaleStopped' /\ StaleRefused'
  <1>1. /\ pc \in [Invocation -> ApplyAt \cup ReconcileAt] /\ request \in [Apply -> Requests]
        /\ staleAtStart \subseteq Apply /\ Apply \subseteq Invocation
    BY DEF TypeOK, Invocation
  <1>2. ASSUME NEW p \in Reconcile, ReconcileBegin(p) \/ ReconcileStep(p) PROVE StaleStopped' /\ StaleRefused'
    <2>1. UNCHANGED <<kind, request, edited, staleAtStart>> /\ \A a \in Apply : pc'[a] = pc[a]
      BY <1>2, ReconcileAside DEF serverVars
    <2> QED
      BY <1>1, <2>1 DEF StaleStopped, StaleRefused
  <1>3. CASE Environment
    <2>1. \A a \in Apply : request'[a] # "none" => request[a] # "none"
      BY <1>1, <1>3, EnvironmentAside
    <2>2. UNCHANGED <<kind, staleAtStart>> /\ (edited => edited') /\ \A a \in Apply : pc'[a] = pc[a] \/ pc'[a] = "done"
      BY <1>1, <1>3, EnvironmentAside
    <2> QED
      BY <1>1, <2>1, <2>2 DEF StaleStopped, StaleRefused
  <1>4. CASE UNCHANGED vars
    BY <1>4 DEF StaleStopped, StaleRefused, vars, ledgerVars, serverVars
  <1> QED
    BY <1>2, <1>3, <1>4, StaleApply DEF Next

-----------------------------------------------------------------------------
(* Truth.                                                                  *)

(* The server refuses or does what is pending, and takes nothing back.     *)
LEMMA TruthEnvironment ==
    ASSUME TypeOK, Environment, NEW r, Truthful(r)
    PROVE  Truthful(r)'
  <1>1. request \in [Apply -> Requests]
    BY DEF TypeOK
  <1>2. ASSUME NEW a \in Apply, request[a] = "pending",
               NEW v \in {"applied", "refused"}, request' = [request EXCEPT ![a] = v]
        PROVE  Truthful(r)'
    BY <1>1, <1>2 DEF Truthful
  <1>3. CASE UNCHANGED request
    BY <1>3 DEF Truthful
  <1> QED
    BY <1>2, <1>3, EnvironmentAside

(* What is true of the server stays true: a request that took effect did,  *)
(* and one that was refused or never sent takes none.                      *)
LEMMA TruthStays ==
    ASSUME TypeOK, [Next]_vars, NEW r, Truthful(r), ~\E p \in Apply : ApplySend(p)
    PROVE  Truthful(r)'
  <1>1. request \in [Apply -> Requests]
    BY DEF TypeOK
  <1> USE DEF serverVars
  <1>2. ASSUME NEW p \in Apply, ApplyBegin(p) \/ ApplyStep(p) PROVE UNCHANGED request
    BY <1>2 DEF ApplyBegin, ApplyStep, ApplyClient, ApplyRemote, ApplyLock, ApplyPolicy, ApplyVerify, ApplyRefused,
                ApplyClaim, ApplyClaimFails, ApplyAnswer, ApplyRecord, ApplyRecordFails
  <1>3. ASSUME NEW p \in Reconcile, ReconcileBegin(p) \/ ReconcileStep(p) PROVE UNCHANGED request
    BY <1>3, ReconcileAside
  <1>4. CASE UNCHANGED request
    BY <1>4 DEF Truthful
  <1>5. CASE Environment
    BY <1>5, TruthEnvironment
  <1>6. CASE UNCHANGED vars
    BY <1>4, <1>6 DEF vars
  <1> QED
    BY <1>2, <1>3, <1>4, <1>5, <1>6 DEF Next

(* A request that leaves contradicts no observation.                       *)
LEMMA TruthOfObservation ==
    ASSUME TypeOK, ClaimBeforeRequest, NEW p \in Apply, ApplySend(p), NEW r, r.state \in Observations, Truthful(r)
    PROVE  Truthful(r)'
  <1>1. request \in [Apply -> Requests] /\ request[p] = "none"
    BY DEF TypeOK, ApplySend, ClaimBeforeRequest
  <1>2. \A a \in Apply : request[a] = "applied" => request'[a] = "applied"
    BY <1>1 DEF ApplySend
  <1> QED
    BY <1>2 DEF Truthful, Observations

(* The invariant without the truth of what is on the disk.                 *)
LEMMA ConcludedStep ==
    ASSUME WriteInv, [Next]_vars
    PROVE  ConcludedTruly'
  <1>1. /\ pc \in [Invocation -> ApplyAt \cup ReconcileAt] /\ outcome \in [Invocation -> Result]
        /\ Apply \subseteq Invocation /\ Reconcile \subseteq Invocation /\ Apply \cap Reconcile = {}
        /\ request \in [Apply -> Requests] /\ TypeOK /\ FilesVisible /\ ClaimBeforeRequest
    BY WriteConstants DEF WriteInv, TypeOK, Invocation
  <1>2. /\ \A a \in Apply : pc[a] = "record" => Truthful(outcome[a])
        /\ \A p \in Reconcile : pc[p] \in Reconciling => outcome[p].state \in Observations /\ Truthful(outcome[p])
    BY DEF WriteInv, ConcludedTruly
  <1>3. ASSUME NEW p \in Apply, ApplySend(p) PROVE ConcludedTruly'
    <2>1. \A a \in Apply \ {p} : pc[a] # "record" /\ pc'[a] # "record"
      BY <1>1, <1>3 DEF WriteInv, LocksFollowProgram, Locking, ApplySend, Goto
    <2>2. pc'[p] = "record" => outcome'[p] = NoOutcome
      BY <1>1, <1>3 DEF ApplySend, Goto
    <2>3. Truthful(NoOutcome)'
      BY DEF Truthful, NoOutcome, Outcome
    <2>4. \A q \in Reconcile : pc'[q] = pc[q] /\ outcome'[q] = outcome[q]
      BY <1>1, <1>3 DEF ApplySend, Goto
    <2>5. ASSUME NEW q \in Reconcile, pc[q] \in Reconciling, NEW r, r = outcome[q]
          PROVE  r.state \in Observations /\ Truthful(r)'
      BY <1>1, <1>2, <1>3, <2>5, TruthOfObservation
    <2>6. \A q \in Reconcile : pc'[q] \in Reconciling => outcome'[q].state \in Observations /\ Truthful(outcome[q])'
      BY <2>4, <2>5 DEF Truthful
    <2> QED
      BY <2>1, <2>2, <2>3, <2>6 DEF ConcludedTruly, Truthful
  <1>4. ASSUME NEW p \in Apply, ApplyAnswer(p) PROVE ConcludedTruly'
    <2>1. PICK r \in Result : Concludes(p, r) /\ outcome' = [outcome EXCEPT ![p] = r]
      BY <1>4 DEF ApplyAnswer
    <2>2. outcome'[p] = r /\ pc'[p] = "record" /\ UNCHANGED request
          /\ \A q \in Invocation \ {p} : pc'[q] = pc[q] /\ outcome'[q] = outcome[q]
      BY <1>1, <1>4, <2>1 DEF ApplyAnswer, Goto, serverVars
    <2>3. r.state = "rejected" => \A a \in Apply : request[a] \in {"none", "refused"}
      BY <2>1 DEF Concludes, Outcome, WriteInv, AtMostOneRequest
    <2>4. Truthful(r)
      BY <2>1, <2>3 DEF Concludes, Outcome, Truthful
    <2> QED
      BY <1>1, <1>2, <2>2, <2>4 DEF ConcludedTruly, Truthful
  <1>5. ASSUME NEW p \in Apply, ApplyBegin(p) \/ ApplyStep(p), ~ApplyAnswer(p), ~ApplySend(p) PROVE ConcludedTruly'
    <2>1. /\ UNCHANGED <<request, outcome>>
          /\ \A q \in Invocation \ {p} : pc'[q] = pc[q]
          /\ pc'[p] # "record"
      BY <1>1, <1>5 DEF ApplyBegin, ApplyStep, ApplyClient, ApplyRemote, ApplyLock, ApplyPolicy, ApplyVerify, ApplyRefused,
                  ApplyClaim, ApplyClaimFails, ApplyRecord, ApplyRecordFails, serverVars, Goto
    <2> QED
      BY <1>1, <1>2, <2>1 DEF ConcludedTruly, Truthful
  <1>6. ASSUME NEW p \in Reconcile, ReconcileBegin(p) \/ ReconcileStep(p) PROVE ConcludedTruly'
    <2>1. /\ UNCHANGED request /\ \A q \in Invocation \ {p} : pc'[q] = pc[q] /\ outcome'[q] = outcome[q]
      BY <1>1, <1>6, ReconcileAside DEF serverVars
    <2>2. CASE ReconcileBegin(p)
      <3>1. outcome'[p].state = "operator_resolution_required"
        BY <1>1, <2>2 DEF ReconcileBegin, Outcome
      <3> QED
        BY <1>1, <1>2, <2>1, <3>1 DEF ConcludedTruly, Truthful, Observations
    <2>3. CASE ReconcileObserve(p)
      <3>1. pc[p] \in Reconciling
        BY <2>3 DEF ReconcileObserve, Live, Reconciling
      <3>2. outcome'[p] = outcome[p] \/ (Evidence /\ outcome'[p].state = "reconciled")
        BY <1>1, <2>3 DEF ReconcileObserve, Outcome
      <3>3. outcome'[p].state \in Observations /\ Truthful(outcome[p])'
        BY <1>2, <2>1, <3>1, <3>2 DEF Truthful, Evidence, Observations
      <3> QED
        BY <1>1, <1>2, <2>1, <3>3 DEF ConcludedTruly, Truthful
    <2>4. CASE ReconcileClient(p) \/ ReconcileSave(p) \/ ReconcileSaveFails(p) \/ ReconcileGivesUp(p)
      <3>1. UNCHANGED outcome /\ (pc'[p] \in Reconciling => pc[p] \in Reconciling)
        BY <1>1, <2>4 DEF ReconcileClient, ReconcileSave, ReconcileSaveFails, ReconcileGivesUp, Live, Goto, Reconciling
      <3> QED
        BY <1>1, <1>2, <2>1, <3>1 DEF ConcludedTruly, Truthful
    <2> QED
      BY <1>6, <2>2, <2>3, <2>4 DEF ReconcileStep
  <1>7. CASE Environment
    <2>1. UNCHANGED outcome /\ \A q \in Invocation : pc'[q] = pc[q] \/ pc'[q] = "done"
      BY <1>1, <1>7, EnvironmentAside
    <2>2. ASSUME NEW r, Truthful(r) PROVE Truthful(r)'
      BY <1>1, <1>7, <2>2, TruthEnvironment
    <2>3. \A q \in Invocation : Truthful(outcome[q]) => Truthful(outcome[q])'
      <3> SUFFICES ASSUME NEW q \in Invocation, Truthful(outcome[q]) PROVE Truthful(outcome[q])'
        OBVIOUS
      <3>1. PICK r : r = outcome[q]
        OBVIOUS
      <3>2. Truthful(r)'
        BY <2>2, <3>1
      <3> QED
        BY <2>1, <3>1, <3>2 DEF Truthful
    <2> QED
      BY <1>1, <1>2, <2>1, <2>3 DEF ConcludedTruly, Reconciling
  <1>8. CASE UNCHANGED vars
    BY <1>2, <1>8 DEF vars, serverVars, ConcludedTruly, Truthful
  <1> QED
    BY <1>3, <1>4, <1>5, <1>6, <1>7, <1>8 DEF Next

(* Where a result on the disk comes from.                                  *)
LEMMA ResultSource ==
    ASSUME TypeOK, FilesVisible, [Next]_vars, NEW r \in result'.disk \cap Result, r \notin result.disk
    PROVE  \E p \in Invocation :
              /\ r = outcome[p]
              /\ (p \in Apply /\ pc[p] = "record") \/ (p \in Reconcile /\ pc[p] = "save")
  <1>1. \A p \in Invocation : outcome[p] \in Result
    BY DEF TypeOK
  <1>2. Absent \notin Result /\ Torn \notin Result /\ \A v : Stored(v).disk = {v}
    BY LedgerContents DEF Stored
  <1>3. ASSUME NEW p \in Apply, ApplyBegin(p) \/ ApplyStep(p), ~ApplyRecord(p), ~ApplyRecordFails(p) PROVE UNCHANGED result
    BY <1>3 DEF ApplyBegin, ApplyStep, ApplyClient, ApplyRemote, ApplyLock, ApplyPolicy, ApplyVerify, ApplyRefused,
                ApplyClaim, ApplyClaimFails, ApplySend, ApplyAnswer, ledgerVars
  <1>4. ASSUME NEW p \in Apply, ApplyRecord(p) \/ ApplyRecordFails(p) PROVE pc[p] = "record" /\ r = outcome[p]
    BY <1>1, <1>2, <1>4, FirstResult DEF ApplyRecord, ApplyRecordFails, Invocation
  <1>5. ASSUME NEW p \in Reconcile, ReconcileBegin(p) \/ ReconcileStep(p), ~ReconcileSave(p), ~ReconcileSaveFails(p) PROVE UNCHANGED result
    BY <1>5 DEF ReconcileBegin, ReconcileStep, ReconcileClient, ReconcileObserve, ReconcileGivesUp, ledgerVars
  <1>6. ASSUME NEW p \in Reconcile, ReconcileSave(p) \/ ReconcileSaveFails(p) PROVE pc[p] = "save" /\ r = outcome[p]
    <2>1. outcome[p] \in Result /\ pc[p] = "save"
      BY <1>1, <1>6 DEF ReconcileSave, ReconcileSaveFails, Live, Invocation
    <2>2. CASE result' = CreateSuccess(result, outcome[p]) /\ MayCreateResult(State)
      BY <1>2, <2>1, <2>2, FirstResult
    <2>3. CASE MayCreateResult(State) /\ result' \in CreateFailures(result, outcome[p])
      BY <1>2, <2>1, <2>3, FirstResult
    <2>4. CASE MayReplaceResult(State, outcome[p]) /\ result.seen # outcome[p] /\ result' = ReplaceSuccess(result, outcome[p])
      BY <1>2, <2>1, <2>4, NextResult
    <2>5. CASE MayReplaceResult(State, outcome[p]) /\ result' \in ReplaceFailures(result, outcome[p])
      BY <2>1, <2>5 DEF ReplaceFailures, Renamed
    <2> QED
      BY <1>6, <2>1, <2>2, <2>3, <2>4, <2>5 DEF ReconcileSave, ReconcileSaveFails
  <1>7. ASSUME Environment PROVE UNCHANGED result \/ \E v \in result.disk : result' = Stored(v)
    BY <1>7, EnvironmentAside
  <1>8. CASE UNCHANGED vars
    BY <1>8 DEF vars, ledgerVars
  <1> QED
    BY <1>2, <1>3, <1>4, <1>5, <1>6, <1>7, <1>8 DEF Next, Invocation

LEMMA TruthfulStep ==
    ASSUME WriteInv, TruthfulOutcome, [Next]_vars
    PROVE  TruthfulOutcome'
  <1>1. TypeOK /\ FilesVisible
    BY DEF WriteInv
  <1>2. ASSUME NEW p \in Apply, ApplySend(p) PROVE TruthfulOutcome'
    <2>1. result = Missing /\ UNCHANGED result
      BY <1>2 DEF ApplySend, WriteInv, NoEarlyVerdict, ledgerVars
    <2> QED
      BY <2>1, LedgerContents DEF Missing, TruthfulOutcome
  <1>3. CASE ~\E p \in Apply : ApplySend(p)
    <2> SUFFICES ASSUME NEW r \in result'.disk \cap Result PROVE Truthful(r)'
      BY DEF TruthfulOutcome, Truthful
    <2>1. CASE r \in result.disk
      BY <1>1, <1>3, <2>1, TruthStays DEF TruthfulOutcome
    <2>2. CASE r \notin result.disk
      <3>1. PICK p \in Invocation :
               /\ r = outcome[p]
               /\ (p \in Apply /\ pc[p] = "record") \/ (p \in Reconcile /\ pc[p] = "save")
        BY <1>1, <2>2, ResultSource
      <3>2. Truthful(r)
        BY <3>1 DEF WriteInv, ConcludedTruly, Reconciling
      <3> QED
        BY <1>1, <1>3, <3>2, TruthStays
    <2> QED
      BY <2>1, <2>2
  <1> QED
    BY <1>2, <1>3

-----------------------------------------------------------------------------
(* The theorems.                                                           *)

LEMMA WriteInit == Init => WriteInv /\ TruthfulOutcome
  <1> SUFFICES ASSUME Init PROVE WriteInv /\ TruthfulOutcome
    OBVIOUS
  <1>1. TypeOK
    BY TypeInit
  <1>2. /\ claim = Missing /\ result = Missing /\ staleAtStart = {}
        /\ \A a \in Apply : request[a] = "none" /\ pc[a] = "idle"
        /\ \A p \in Reconcile : pc[p] = "idle"
        /\ profileLock = NoProc /\ policyLock = NoProc /\ NoProc \notin Apply
    BY WriteConstants DEF Init, Invocation
  <1>3. AtMostOneRequest /\ NoEarlyVerdict /\ StaleRefused /\ LocksFollowProgram
    BY <1>2 DEF AtMostOneRequest, NoEarlyVerdict, StaleRefused, LocksFollowProgram, Locking
  <1>4. FilesVisible
    BY <1>2 DEF FilesVisible, Missing
  <1>5. ClaimBeforeRequest /\ ReconcileAfterApply /\ ConcludedTruly /\ StaleStopped
    BY <1>2 DEF ClaimBeforeRequest, ReconcileAfterApply, ConcludedTruly, StaleStopped, Dispatching, Reconciling
  <1>6. TruthfulOutcome
    BY <1>2, LedgerContents DEF TruthfulOutcome, Missing
  <1> QED
    BY <1>1, <1>3, <1>4, <1>5, <1>6 DEF WriteInv

LEMMA WriteStep == WriteInv /\ TruthfulOutcome /\ [Next]_vars => WriteInv' /\ TruthfulOutcome'
  <1> SUFFICES ASSUME WriteInv, TruthfulOutcome, [Next]_vars PROVE WriteInv' /\ TruthfulOutcome'
    OBVIOUS
  <1>1. /\ TypeOK /\ FilesVisible /\ LocksFollowProgram /\ ClaimBeforeRequest /\ ReconcileAfterApply
        /\ NoEarlyVerdict /\ StaleStopped /\ StaleRefused
    BY DEF WriteInv
  <1>2. TypeOK' /\ FilesVisible'
    BY <1>1, TypeStep, FilesStep
  <1>3. LocksFollowProgram'
    <2>1. CASE UNCHANGED vars
      BY <1>1, <2>1 DEF vars, localVars, LocksFollowProgram, BindingHolds
    <2> QED
      BY <1>1, <2>1, LocksApply, LocksReconcile, LocksEnvironment DEF Next
  <1>4. ClaimBeforeRequest' /\ AtMostOneRequest'
    BY <1>1, ClaimStep, RequestNamed, PTL
  <1>5. ReconcileAfterApply' /\ NoEarlyVerdict'
    BY <1>1, ReconcileAfterApplyStep, NoEarlyVerdictStep
  <1>6. StaleStopped' /\ StaleRefused'
    BY <1>1, StaleStep
  <1>7. ConcludedTruly' /\ TruthfulOutcome'
    BY ConcludedStep, TruthfulStep
  <1> QED
    BY <1>2, <1>3, <1>4, <1>5, <1>6, <1>7 DEF WriteInv

(* Both invariants: each step needs the other one.                         *)
LEMMA WriteSafe == Spec => [](WriteInv /\ TruthfulOutcome)
  BY WriteInit, WriteStep, PTL DEF Spec

(* While any number of invocations compete, are killed, canceled or lose   *)
(* power, the locks, the durable claim and the program of apply and        *)
(* reconcile keep to each other (ApplyOperatorWrite,                       *)
(* ReconcileOperatorWrite).                                                *)
THEOREM WriteInvariant == Spec => []WriteInv
  BY WriteSafe, PTL

(* One plan sends at most one mutation request (ApplyOperatorWrite claims  *)
(* durably before it dispatches).                                          *)
THEOREM SentOnce == Spec => []AtMostOneRequest
  BY WriteInvariant, PTL DEF WriteInv

(* What may survive as a recorded result is so on the server (the outcome  *)
(* classification of apply and the evidence rules of reconcile).           *)
THEOREM OutcomeTrue == Spec => []TruthfulOutcome
  BY WriteSafe, PTL

(* The one request leaves under both locks, with the binding the snapshot  *)
(* froze and a claim that no power loss can undo (checkOperatorBinding     *)
(* under the locks, then Claim, then dispatchOperatorWrite).               *)
THEOREM Authorized == Spec => DispatchAuthorized
  <1> DEFINE Authorization ==
               \A a \in Apply : request[a] = "none" /\ request'[a] # "none" =>
                  /\ BindingHolds
                  /\ profileLock = a /\ policyLock = a
                  /\ claim.disk = {a}
  <1>1. ASSUME WriteInv, Next PROVE Authorization
    <2> SUFFICES ASSUME NEW a \in Apply, request[a] = "none", request'[a] # "none"
                 PROVE  BindingHolds /\ profileLock = a /\ policyLock = a /\ claim.disk = {a}
      OBVIOUS
    <2>1. TypeOK /\ request \in [Apply -> Requests]
      BY <1>1 DEF WriteInv, TypeOK
    <2>2. PICK p \in Apply : ApplySend(p)
      <3>1. ASSUME NEW p \in Apply, ApplyBegin(p) \/ ApplyStep(p), ~ApplySend(p) PROVE UNCHANGED request
        BY <3>1 DEF ApplyBegin, ApplyStep, ApplyClient, ApplyRemote, ApplyLock, ApplyPolicy, ApplyVerify, ApplyRefused,
                    ApplyClaim, ApplyClaimFails, ApplyAnswer, ApplyRecord, ApplyRecordFails, serverVars
      <3>2. ASSUME NEW p \in Reconcile, ReconcileBegin(p) \/ ReconcileStep(p) PROVE UNCHANGED request
        BY <2>1, <3>2, ReconcileAside DEF serverVars
      <3>3. CASE Environment
        BY <2>1, <3>3, EnvironmentAside
      <3> QED
        BY <1>1, <3>1, <3>2, <3>3 DEF Next
    <2>3. p = a /\ pc[a] = "send"
      BY <2>1, <2>2 DEF ApplySend
    <2> QED
      BY <1>1, <2>3, OneClaim DEF WriteInv, LocksFollowProgram, ClaimBeforeRequest, Locking, Dispatching
  <1>2. WriteInv /\ [Next]_vars => [Authorization]_vars
    BY <1>1
  <1> QED
    BY <1>2, WriteInvariant, PTL DEF Spec, DispatchAuthorized

-----------------------------------------------------------------------------
(* The promise.                                                            *)

Sent      == {a \in Apply : request[a] # "none"}
Withdrawn == ~(claim.seen = Absent /\ result.seen = Absent)
Verdict   == IF Recorded(result) THEN result.seen.state ELSE "open"

(* A result that is recorded for good is left alone by every step.         *)
LEMMA RecordedStays ==
    ASSUME TypeOK, FilesVisible, Recorded(result), [Next]_vars, NoEarlyVerdict, ClaimBeforeRequest
    PROVE  result' = result
  <1>1. result.seen \in Result /\ result.seen # Absent /\ result # Missing /\ result = Stored(result.seen) /\ result.disk = {result.seen}
    BY LedgerContents DEF Recorded, Missing, Stored, TypeOK, FileOf
  <1>2. ASSUME NEW p \in Apply, ApplyBegin(p) \/ ApplyStep(p) PROVE result' = result
    <2>1. ~ApplyRecord(p) /\ ~ApplyRecordFails(p)
      BY <1>1 DEF ApplyRecord, ApplyRecordFails, NoEarlyVerdict
    <2> QED
      BY <1>2, <2>1 DEF ApplyBegin, ApplyStep, ApplyClient, ApplyRemote, ApplyLock, ApplyPolicy, ApplyVerify, ApplyRefused,
                ApplyClaim, ApplyClaimFails, ApplySend, ApplyAnswer, ledgerVars
  <1>3. ASSUME NEW p \in Reconcile, ReconcileBegin(p) \/ ReconcileStep(p) PROVE result' = result
    <2>1. ~MayCreateResult(State)
      BY <1>1, InFlight DEF MayCreateResult
    <2>2. \A r : ~MayReplaceResult(State, r)
      <3>1. \A s \in Settled : s \notin Unsettled
        BY DEF Settled, Unsettled
      <3> QED
        BY <3>1, Answered DEF MayReplaceResult, Recorded
    <2> QED
      BY <1>3, <2>1, <2>2 DEF ReconcileBegin, ReconcileStep, ReconcileClient, ReconcileObserve, ReconcileSave,
                              ReconcileSaveFails, ReconcileGivesUp, ledgerVars
  <1>4. CASE Environment
    BY <1>1, <1>4, EnvironmentAside
  <1>5. CASE UNCHANGED vars
    BY <1>5 DEF vars, ledgerVars
  <1> QED
    BY <1>2, <1>3, <1>4, <1>5 DEF Next

(* The request is sent by one invocation, and only with a withdrawn plan.  *)
LEMMA SentStep ==
    ASSUME WriteInv, [Next]_vars
    PROVE  \/ Sent' = Sent
           \/ /\ Sent = {} /\ Withdrawn /\ UNCHANGED <<claim, result>>
              /\ \E a \in Apply : Sent' = {a}
  <1>1. TypeOK /\ request \in [Apply -> Requests]
    BY DEF WriteInv, TypeOK
  <1>2. ASSUME NEW p \in Apply, ApplySend(p)
        PROVE  \/ Sent' = Sent
               \/ /\ Sent = {} /\ Withdrawn /\ UNCHANGED <<claim, result>>
                  /\ \E a \in Apply : Sent' = {a}
    <2>1. claim = Stored(p) /\ UNCHANGED <<claim, result>>
      BY <1>2 DEF ApplySend, ledgerVars, WriteInv, ClaimBeforeRequest, Dispatching
    <2>2. Sent \subseteq {p} /\ Withdrawn
      BY <2>1, OneClaim DEF Sent, Withdrawn, WriteInv, ClaimBeforeRequest
    <2>3. Sent' = Sent \/ Sent' = Sent \cup {p}
      BY <1>1, <1>2 DEF ApplySend, Sent
    <2> QED
      BY <2>1, <2>2, <2>3
  <1>3. ASSUME NEW p \in Apply, ApplyBegin(p) \/ ApplyStep(p), ~ApplySend(p) PROVE UNCHANGED request
    BY <1>3 DEF ApplyBegin, ApplyStep, ApplyClient, ApplyRemote, ApplyLock, ApplyPolicy, ApplyVerify, ApplyRefused,
                ApplyClaim, ApplyClaimFails, ApplyAnswer, ApplyRecord, ApplyRecordFails, serverVars
  <1>4. ASSUME NEW p \in Reconcile, ReconcileBegin(p) \/ ReconcileStep(p) PROVE UNCHANGED request
    BY <1>1, <1>4, ReconcileAside DEF serverVars
  <1>5. CASE Environment
    <2>1. \A a \in Apply : request'[a] # "none" <=> request[a] # "none"
      BY <1>1, <1>5, EnvironmentAside
    <2> QED
      BY <2>1 DEF Sent
  <1>6. CASE UNCHANGED vars
    BY <1>6 DEF vars, serverVars, Sent
  <1>7. UNCHANGED request => Sent' = Sent
    BY DEF Sent
  <1> QED
    BY <1>2, <1>3, <1>4, <1>5, <1>6, <1>7 DEF Next

(* What a step may do to the files, as far as the promise tells.           *)
LEMMA LedgerStep ==
    ASSUME WriteInv, [Next]_vars
    PROVE  \/ UNCHANGED <<claim, result>>
           \/ /\ ~Withdrawn /\ UNCHANGED result
           \/ Withdrawn /\ Withdrawn' /\ UNCHANGED claim
           \/ Withdrawn /\ PowerLoss
  <1>1. TypeOK /\ FilesVisible
    BY DEF WriteInv
  <1>2. \A p \in Invocation : outcome[p] \in Result
    BY <1>1 DEF TypeOK
  <1>3. ASSUME NEW p \in Apply, ApplyClaim(p) \/ ApplyClaimFails(p) PROVE ~Withdrawn /\ UNCHANGED result
    BY <1>1, <1>3, Eligible DEF ApplyClaim, ApplyClaimFails, Withdrawn, Missing
  <1>4. ASSUME NEW p \in Apply, ApplyRecord(p) \/ ApplyRecordFails(p) PROVE claim.seen \in Apply /\ UNCHANGED claim
    <2>1. p = claim.seen \/ UNCHANGED result
      BY <1>4 DEF ApplyRecord, ApplyRecordFails
    <2>2. claim = Stored(p)
      BY <1>4 DEF ApplyRecord, ApplyRecordFails, WriteInv, ClaimBeforeRequest, Dispatching
    <2> QED
      BY <1>4, <2>2, OneClaim DEF ApplyRecord, ApplyRecordFails
  <1>5. ASSUME NEW p \in Reconcile, ReconcileSave(p) \/ ReconcileSaveFails(p) PROVE claim.seen \in Apply /\ UNCHANGED claim
    BY <1>5 DEF ReconcileSave, ReconcileSaveFails, Live, WriteInv, ReconcileAfterApply, Reconciling
  <1>6. claim.seen \in Apply /\ UNCHANGED claim => Withdrawn /\ Withdrawn'
    BY OneClaim DEF Withdrawn
  <1>7. ASSUME NEW p \in Apply, ApplyBegin(p) \/ ApplyStep(p),
               ~ApplyClaim(p), ~ApplyClaimFails(p), ~ApplyRecord(p), ~ApplyRecordFails(p)
        PROVE  UNCHANGED <<claim, result>>
    BY <1>7 DEF ApplyBegin, ApplyStep, ApplyClient, ApplyRemote, ApplyLock, ApplyPolicy, ApplyVerify, ApplyRefused,
                ApplySend, ApplyAnswer, ledgerVars
  <1>8. ASSUME NEW p \in Reconcile, ReconcileBegin(p) \/ ReconcileStep(p), ~ReconcileSave(p), ~ReconcileSaveFails(p)
        PROVE  UNCHANGED <<claim, result>>
    BY <1>8 DEF ReconcileBegin, ReconcileStep, ReconcileClient, ReconcileObserve, ReconcileGivesUp, ledgerVars
  <1>9. CASE PowerLoss
    <2>1. ~Withdrawn => claim' = Stored(Absent) /\ result' = Stored(Absent)
      BY <1>1, <1>9 DEF PowerLoss, Withdrawn, FilesVisible
    <2>2. ~Withdrawn => claim = Stored(Absent) /\ result = Stored(Absent)
      BY <1>1 DEF Withdrawn, FilesVisible, Stored, TypeOK, FileOf
    <2> QED
      BY <1>9, <2>1, <2>2
  <1>10. CASE Environment /\ ~PowerLoss
    BY <1>10 DEF Environment, ServerApplies, ServerRefuses, ForeignEdit, Login, SetPolicy, ClearPolicy, Cancel, Kill, ledgerVars
  <1>11. CASE UNCHANGED vars
    BY <1>11 DEF vars, ledgerVars
  <1> QED
    BY <1>3, <1>4, <1>5, <1>6, <1>7, <1>8, <1>9, <1>10, <1>11 DEF Next

LEMMA PromiseStep ==
    ASSUME WriteInv, [Next]_vars
    PROVE  [Promise!Next]_(Promise!pvars)
  <1> DEFINE eligible == claim.seen = Absent /\ result.seen = Absent
  <1>1. TypeOK /\ FilesVisible /\ NoEarlyVerdict /\ ClaimBeforeRequest
    BY DEF WriteInv
  <1>2. /\ Recorded(result) => result' = result
        /\ Verdict \in Settled \cup {"open"} /\ Verdict' \in Settled \cup {"open"}
        /\ "open" \notin Settled
    BY <1>1, RecordedStays DEF Verdict, Recorded, Settled
  <1>3. Verdict # "open" => Verdict' = Verdict /\ result' = result /\ result.seen # Absent
    BY <1>2, LedgerContents DEF Verdict, Recorded
  <1>4. Verdict' # "open" => result'.seen # Absent
    BY LedgerContents DEF Verdict, Recorded
  <1>5. CASE UNCHANGED <<claim, result>>
    <2>1. eligible' = eligible /\ Verdict' = Verdict
      BY <1>5 DEF Verdict, Recorded
    <2> QED
      BY <1>5, <2>1, SentStep DEF Promise!Next, Promise!pvars, Promise!Grant, Sent, Verdict, Withdrawn
  <1>6. CASE ~UNCHANGED <<claim, result>>
    <2>1. Sent' = Sent
      BY <1>6, SentStep
    <2>2. CASE ~Withdrawn /\ UNCHANGED result
      <3>1. eligible = TRUE /\ Verdict' = Verdict
        BY <2>2 DEF Withdrawn, Verdict, Recorded
      <3>2. eligible' \in BOOLEAN
        OBVIOUS
      <3> QED
        BY <2>1, <3>1, <3>2 DEF Promise!Next, Promise!pvars, Promise!Withdraw, Sent, Verdict
    <2>3. CASE Withdrawn /\ Withdrawn'
      <3>1. eligible = FALSE /\ eligible' = FALSE
        BY <2>3 DEF Withdrawn
      <3>2. CASE Verdict' = Verdict
        BY <2>1, <3>1, <3>2 DEF Promise!Next, Promise!pvars, Sent, Verdict
      <3>3. CASE Verdict = "open" /\ Verdict' \in Settled
        BY <2>1, <3>1, <3>3 DEF Promise!Next, Promise!Settle, Sent, Verdict
      <3> QED
        BY <1>2, <1>3, <3>2, <3>3
    <2>4. CASE Withdrawn /\ PowerLoss /\ ~Withdrawn'
      <3>1. eligible = FALSE /\ eligible' = TRUE
        BY <2>4 DEF Withdrawn
      <3>2. Verdict = "open" /\ Verdict' = "open"
        BY <1>3, <1>4, <2>4 DEF Withdrawn
      <3>3. Sent = {}
        <4> SUFFICES ASSUME NEW a \in Sent PROVE FALSE
          OBVIOUS
        <4>1. a \in Apply /\ claim = Stored(a)
          BY <1>1 DEF Sent, ClaimBeforeRequest
        <4>2. claim' = Stored(a)
          BY <2>4, <4>1, OneClaim DEF PowerLoss
        <4> QED
          BY <2>4, <4>1, <4>2, OneClaim DEF Withdrawn
      <3> QED
        BY <2>1, <3>1, <3>2, <3>3 DEF Promise!Next, Promise!Forget, Sent, Verdict
    <2> QED
      BY <1>6, <2>2, <2>3, <2>4, LedgerStep
  <1> QED
    BY <1>5, <1>6

(* Apply and reconcile as a whole, with competing invocations, failures    *)
(* and power losses, implement a plan that is consumed once: what happens  *)
(* once is the request itself.                                             *)
THEOREM ApplyImplementsPromise == Spec => ImplementsConsumeOnce
  <1>1. Init => Promise!Init
    <2>1. Init => claim.seen = Absent /\ result.seen = Absent /\ ~Recorded(result)
      BY LedgerContents DEF Init, Missing, Recorded
    <2>2. Init => {a \in Apply : request[a] # "none"} = {}
      BY DEF Init
    <2> QED
      BY <2>1, <2>2 DEF Promise!Init
  <1>2. WriteInv /\ [Next]_vars => [Promise!Next]_(Promise!pvars)
    BY PromiseStep
  <1> QED
    BY <1>1, <1>2, WriteInvariant, PTL DEF Spec, ImplementsConsumeOnce, Promise!Spec
=============================================================================
