---------------------------- MODULE MCCopyEngine ----------------------------
(* Instances of CopyEngine for TLC. *)
EXTENDS CopyEngine, TLC

ChunkSymmetry == Permutations(Chunks)
=============================================================================
