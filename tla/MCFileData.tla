----------------------------- MODULE MCFileData -----------------------------
(* Instances of FileData for TLC. *)
EXTENDS FileData, TLC

CONSTANTS u1, u2, u3, c1, c2

AllClients == (u1 :> c1) @@ (u2 :> c2) @@ (u3 :> c1)
Clients == [u \in Upload |-> AllClients[u]]
SlaveSymmetry == Permutations(Slave)
=============================================================================
