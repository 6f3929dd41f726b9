------------------------------- MODULE MCEvents -------------------------------
(* Instances of Events for TLC.                                            *)
EXTENDS Events, TLC

MCSymmetry == Permutations(Members) \cup Permutations(Sources) \cup Permutations(Workers)
=============================================================================
