---------------------- MODULE MCCredentialTransaction ----------------------
(* CredentialTransaction for TLC.                                          *)
EXTENDS CredentialTransaction, TLC

MCSymmetry == Permutations(Client) \cup Permutations(Topology)
=============================================================================
