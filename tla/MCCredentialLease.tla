-------------------------- MODULE MCCredentialLease --------------------------
(* Instances of CredentialLease for TLC.                                      *)
EXTENDS CredentialLease, TLC

WorkerSymmetry == Permutations(Workers)
=============================================================================
