--------------------------- MODULE MCRunnerClaims ---------------------------
(* Instances of RunnerClaims for TLC.                                         *)
EXTENDS RunnerClaims, TLC

(* authBackoffMs(): doubled each time, cut off at the longest pause.          *)
MCBackoff == [n \in 1..MaxFailures |->
                 IF 2 ^ (n - 1) < MaxPause THEN 2 ^ (n - 1) ELSE MaxPause]

Symmetry == Permutations(Requests)
=============================================================================
