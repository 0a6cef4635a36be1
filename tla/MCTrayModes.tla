------------------------------ MODULE MCTrayModes ------------------------------
(* Clients are alike.                                                      *)
EXTENDS TrayModes, TLC

ClientSymmetry == Permutations(Clients)

=============================================================================
