------------------------------ MODULE MCFreeSpace ------------------------------
(* FreeSpace with two files of size 1 and one that grows from 1 to 2 and back. *)
EXTENDS FreeSpace, TLC

CONSTANTS f1, f2, f3

MCSizes == (f1 :> {1}) @@ (f2 :> {1}) @@ (f3 :> {1, 2})
(* A hint of 1 would ask for no more than MinFree does. *)
MCHints == (f1 :> {0}) @@ (f2 :> {0}) @@ (f3 :> {0, 2})
MCRequests ==
  {[number |-> 1, unit |-> "K"], [number |-> 0, unit |-> "B"],
   [number |-> 3, unit |-> "TB"], [number |-> 1, unit |-> "X"]}
MCSymmetry == Permutations({f1, f2})
=============================================================================
