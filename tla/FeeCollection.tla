---------------------------- MODULE FeeCollection ----------------------------
(***************************************************************************)
(* What the collection of membership fees promises, without handlers,       *)
(* transactions, plans or failures: a payment captured by the gateway is    *)
(* taken at most once; the first fee of a member gives a membership number  *)
(* that is nobody else's and is kept for good; and the end of a membership  *)
(* moves only in the step that takes a fee for it.                          *)
(***************************************************************************)
EXTENDS Integers

CONSTANTS Members, Captures, None

VARIABLES
    taken,    \* the captured payments that have been taken
    fees,     \* [Members -> number of fees taken, of the gateway or in cash]
    number,   \* [Members -> membership number or None]
    until     \* [Members -> end of the membership, None for no end]

Init ==
    /\ taken = {}
    /\ fees = [m \in Members |-> 0]
    /\ number = [m \in Members |-> None]
    /\ until = [m \in Members |-> None]

\* A fee of m: in cash (S is empty) or one captured payment.
Take(m, S) ==
    /\ S \cap taken = {} /\ \A g, h \in S : g = h
    /\ taken' = taken \cup S
    /\ fees' = [fees EXCEPT ![m] = @ + 1]
    /\ number' = [number EXCEPT ![m] = number'[m]] /\ number'[m] \in Nat
    /\ IF number[m] = None THEN \A k \in Members : number[k] # number'[m] ELSE number'[m] = number[m]
    /\ until' = [until EXCEPT ![m] = until'[m]]

Next == \E m \in Members, S \in SUBSET Captures : Take(m, S)

Spec == Init /\ [][Next]_<<taken, fees, number, until>>
=============================================================================
