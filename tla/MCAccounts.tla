------------------------------ MODULE MCAccounts ------------------------------
(* Instances of Accounts for TLC.                                          *)
EXTENDS Accounts, TLC

MCSymmetry == Permutations(Members) \cup Permutations(Workers) \cup Permutations(Mobiles) \cup Permutations(Emails)
=============================================================================
