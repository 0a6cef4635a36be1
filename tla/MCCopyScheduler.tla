-------------------------- MODULE MCCopyScheduler --------------------------
(* Instances of CopyScheduler for TLC. *)
EXTENDS CopyScheduler, TLC

(* The first write of a file keeps its size, the next one changes it.       *)
MCSizeOf == [v \in 1..MaxVersion |-> 1 + v \div 3]

FileSymmetry == Permutations(Files)
=============================================================================
