--------------------------- MODULE MCRunnerWorker ----------------------------
(* Instances of RunnerWorker for TLC.                                         *)
EXTENDS RunnerWorker, TLC
=============================================================================
