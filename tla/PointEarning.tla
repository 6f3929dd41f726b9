---------------------------- MODULE PointEarning ----------------------------
(***************************************************************************)
(* What the earning side of the wallet promises, without handlers, reviews,  *)
(* retries or failures: whatever earns points - a referred member, a         *)
(* donation, an event registration - earns them at most once, for one        *)
(* member, and they enter that member's balance in the same step.            *)
(***************************************************************************)
EXTENDS Integers

CONSTANTS Members, Sources

VARIABLES
    credits, \* the points earned: [source, m, points]
    balance  \* [Members -> points earned]

Init ==
    /\ credits = {}
    /\ balance = [m \in Members |-> 0]

Earn(c) ==
    /\ \A b \in credits : b.source # c.source
    /\ credits' = credits \cup {c}
    /\ balance' = [balance EXCEPT ![c.m] = @ + c.points]

\* Any new credit; read off credits' rather than chosen from the infinite set
\* of all of them.
Next == \E c \in credits' \ credits : c \in [source : Sources, m : Members, points : Nat] /\ Earn(c)

Spec == Init /\ [][Next]_<<credits, balance>>
=============================================================================
