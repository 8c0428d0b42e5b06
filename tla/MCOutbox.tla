------------------------------ MODULE MCOutbox ------------------------------
(* Instance of Outbox for TLC.                                                *)
EXTENDS Outbox, TLC

Symmetry == Permutations(Flushes)
=============================================================================
