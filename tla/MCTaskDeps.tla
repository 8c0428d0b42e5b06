----------------------------- MODULE MCTaskDeps -----------------------------
(* Instances of TaskDeps for TLC: a chain that is also a diamond, and a cycle. *)
EXTENDS TaskDeps, TLC

CONSTANTS a, b, c

MCGraphs == {a :> {} @@ b :> {a} @@ c :> {a, b},
             a :> {b} @@ b :> {a} @@ c :> {b}}

Symmetry == Permutations(Procs)
=============================================================================
