----------------------------- MODULE MCOperator -----------------------------
(* The operator-write ledger with its files and system calls, and the      *)
(* invocations for which an operation of the ledger is one step.  A        *)
(* behaviour is of one of them; the variables of the other keep their      *)
(* first value.                                                            *)
EXTENDS MCOperatorWrite

CONSTANTS Proc, MaxPowerLoss

VARIABLES level, files, lock, job, handle, created, tried, granted, losses

Store == INSTANCE OperatorLedger

ASSUME LedgerAssumption == Store!LedgerConstants

MCOperatorSymmetry == MCSymmetry \cup Permutations(Proc)

MCInit ==
    /\ level \in {"ledger", "invocations"}
    /\ Init /\ Store!Init
    /\ level = "ledger" => kind = "issue.create"

MCNext ==
    /\ UNCHANGED level
    /\ \/ level = "ledger" /\ Store!Next /\ UNCHANGED vars
       \/ level = "invocations" /\ Next
          /\ UNCHANGED <<files, lock, job, handle, created, tried, granted, losses>>

MCSpec == MCInit /\ [][MCNext]_<<level, vars, files, lock, job, handle, created, tried, granted, losses>>

-----------------------------------------------------------------------------
(* The ledger's files are written under the plan's lock in the order open, *)
(* write, sync, sync the directory (store.go).                             *)
LedgerInv == Store!LedgerInv

(* Once sending is granted no system call, failure or power loss can make  *)
(* the plan prepared again (Store.Claim).                                  *)
GrantSurvives == Store!GrantSurvives

(* A final outcome on the disk is never replaced (Store.Finalize).         *)
SettledForever == Store!SettledForever

(* The files implement a plan that is consumed once.                       *)
FilesConsumeOnce == Store!ImplementsConsumeOnce
=============================================================================
