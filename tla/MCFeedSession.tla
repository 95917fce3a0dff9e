---------------------------- MODULE MCFeedSession ----------------------------
(* Instances of FeedSession for TLC. *)
EXTENDS FeedSession, TLC

\* Identifiers are random strings.
IdSymmetry == Permutations(Id)
=============================================================================
