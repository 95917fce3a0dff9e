----------------------------- MODULE MCTagStore -----------------------------
(* Instances of TagStore for TLC. *)
EXTENDS TagStore, TLC

CONSTANTS s1, s2, j1, j2, j3, t1, t2, t3, t4, t5

It(j, t) == [job |-> j, tags |-> t]

\* Single tags for one job, several tags for two jobs, no tag at all, and a
\* call that is refused at its second job.
Calls == {<<It(j1, <<t1>>)>>,
          <<It(j1, <<t2, t3>>), It(j2, <<t4>>)>>,
          <<It(j2, <<>>)>>,
          <<It(j1, <<t5>>), It(j3, <<t1>>)>>,
          <<>>}

SlaveSymmetry == Permutations(Slave)
=============================================================================
