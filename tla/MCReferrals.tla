------------------------------ MODULE MCReferrals ------------------------------
(* Instances of Referrals for TLC.                                         *)
EXTENDS Referrals, TLC

MCSymmetry == Permutations(Members) \cup Permutations(Workers)
=============================================================================
