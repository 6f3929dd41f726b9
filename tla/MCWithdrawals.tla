---------------------------- MODULE MCWithdrawals ----------------------------
(* Constants for the TLC runs of Withdrawals.                               *)
EXTENDS Withdrawals, TLC

\* A flat charge of one unit on a conversion of two units per point.
MCNetAmount == [n \in WithdrawablePoints |-> 2 * n - 1]

MCSymmetry == Permutations(Requests) \cup Permutations(Payouts) \cup Permutations(Workers)
=============================================================================
