--------------------------- MODULE MCOperatorWrite ---------------------------
(* OperatorWrite for TLC.                                                  *)
EXTENDS OperatorWrite, TLC

MCResult == [state : Settled \cup Unsettled, rid : BOOLEAN]
MCSymmetry == Permutations(Apply) \cup Permutations(Reconcile)
=============================================================================
