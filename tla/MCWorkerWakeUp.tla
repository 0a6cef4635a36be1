--------------------------- MODULE MCWorkerWakeUp ---------------------------
(* Instances of WorkerWakeUp for TLC. *)
EXTENDS WorkerWakeUp, TLC

IdSymmetry == Permutations(Ids)
=============================================================================
