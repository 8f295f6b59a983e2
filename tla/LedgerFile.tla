----------------------------- MODULE LedgerFile -----------------------------
(***************************************************************************)
(* One file of the private operator-write directory, as                    *)
(* internal/operatorwrite/files_unix.go writes it.  A file has a content   *)
(* that running processes see and a set of contents that a power loss may  *)
(* leave: what is written is only one of the possible survivors until the  *)
(* file and then its directory entry are synced.                           *)
(*                                                                         *)
(* The profile registry replaces its file by the same temporary, rename    *)
(* and directory sync (internal/profile/registry.go).                      *)
(*                                                                         *)
(* Absent is "no such name", Torn any content decode refuses (a short or   *)
(* interrupted write).  Everything else is a whole encoded value.          *)
(***************************************************************************)
CONSTANTS Absent, Torn

ASSUME FileContentAssumption == Absent # Torn

FileOf(Content) == [seen : Content, disk : SUBSET Content]

Missing == [seen |-> Absent, disk |-> {Absent}]

Stored(v) == [seen |-> v, disk |-> {v}]

(* openat(O_CREAT|O_EXCL): the name exists, the content does not.           *)
Opened(f) == [seen |-> Torn, disk |-> f.disk \cup {Torn}]

(* The whole value went through write.                                     *)
Written(f, v) == [seen |-> v, disk |-> f.disk \cup {v}]

(* Broken variants of a step are named after the defect; no specification  *)
(* uses them, they only test that the properties would notice it.          *)
NoFileSync(f) == f
NoDirSync(f) == f

(* fsync of the file: if the name survives, so does the content.           *)
FileSynced(f) == [f EXCEPT !.disk = @ \ {Torn}]

(* fsync of the directory after create: the name survives.                 *)
DirSynced(f) == [f EXCEPT !.disk = {f.seen} \cup (@ \cap {Torn})]

(* renameat of a synced temporary over the name: old or new, never torn.   *)
Renamed(f, v) == [seen |-> v, disk |-> f.disk \cup {v}]

(* fsync of the directory after renameat: the old file is gone.            *)
RenameSynced(f) == Stored(f.seen)

(***************************************************************************)
(* create and replace as one step, for callers that only see the ledger    *)
(* lock released: every state a failing call or a killed process may leave *)
(* and the one state a successful call leaves.  A failed openat leaves f.  *)
(***************************************************************************)
CreateFailures(f, v) ==
    LET opened  == Opened(f)
        written == Written(opened, v)
    IN  {f, opened, written, FileSynced(written)}

CreateSuccess(f, v) == DirSynced(FileSynced(Written(Opened(f), v)))

ReplaceFailures(f, v) == {f, Renamed(f, v)}

ReplaceSuccess(f, v) == RenameSynced(Renamed(f, v))
=============================================================================
