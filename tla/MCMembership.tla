---------------------------- MODULE MCMembership ----------------------------
(* Constants for the TLC runs of Membership.                                *)
EXTENDS Membership, TLC

CONSTANTS bronze, gold, platinum

\* An upgrade from gold to platinum is free of charge.
MCFee == [p \in Plans |-> IF p = bronze THEN 1 ELSE 2]
MCTier == [p \in Plans |-> CASE p = bronze -> 1 [] p = gold -> 3 [] p = platinum -> 4]
\* A gold membership has no period configured: it can be activated, not renewed.
MCValidity == [p \in Plans |-> IF p = gold THEN 0 ELSE 1]

MCSymmetry == Permutations(Captures) \cup Permutations(Workers) \cup Permutations(Members)
=============================================================================
