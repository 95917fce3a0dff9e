------------------------------ MODULE MCPSStore ------------------------------
(* Instances of PSStore for TLC. *)
EXTENDS PSStore, TLC

\* The slaves are forked from one master and run the same code.
SlaveSymmetry == Permutations(Slave)
=============================================================================
