---------------------------- MODULE MCTaskLease ----------------------------
(* Instances of TaskLease for TLC.                                            *)
EXTENDS TaskLease, TLC

(* Rows and request slots are interchangeable, but for the review tasks.      *)
Symmetry == Permutations(Tasks \ ReviewTasks) \cup Permutations(Workers)
                \cup Permutations(Procs)
=============================================================================
