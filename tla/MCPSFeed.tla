------------------------------ MODULE MCPSFeed ------------------------------
(* Instances of PSFeed for TLC. *)
EXTENDS PSFeed, TLC

CONSTANTS s1, s2, j1, j2, j3, f1, f2, owner, a, b, c

\* A feed of everything and, besides it, one of a tag.
OneWanted == (f1 :> {owner, a, b, c})
TwoWanted == OneWanted @@ (f2 :> {a})

OwnerQuery == (f1 :> <<owner>>)
TwoQueries == (f1 :> <<owner, b>>) @@ (f2 :> <<owner>>)

\* j2 may belong to an owner the feeds do not ask for.
AllFit == Feed \X Job \X Attr
OtherOwner == Feed \X Job \X Attr \ Feed \X {j2} \X {owner}

\* What is stored before anyone asks for a feed.
OldJob == [j \in Job |-> IF j = j1 THEN {owner, a} ELSE {}]
OldJobs == [j \in Job |-> IF j = j2 THEN {} ELSE {owner, b}]

SlaveSymmetry == Permutations(Slave)
=============================================================================
