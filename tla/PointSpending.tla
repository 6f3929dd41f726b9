---------------------------- MODULE PointSpending ----------------------------
(***************************************************************************)
(* What the withdrawal side of the wallet promises, without handlers,       *)
(* transactions, a payout gateway or failures: a claim on some points of    *)
(* one member is made once, is paid at most once, and its points leave the  *)
(* member's balance in the very step that pays it.  How often a transfer is *)
(* tried, and by which route a claim is settled, cannot be seen here.       *)
(***************************************************************************)
EXTENDS Integers

CONSTANTS Members, Claims, Amounts, None

VARIABLES
    claim,   \* [Claims -> [phase, owner, points]]
    spent    \* [Members -> points that have left the balance for good]

Unmade == [phase |-> "none", owner |-> None, points |-> 0]

OpenClaims == [phase : {"open"}, owner : Members, points : Amounts]

\* Some claims may be older than what is specified here.
Init ==
    /\ claim \in [Claims -> {Unmade} \cup OpenClaims]
    /\ spent = [m \in Members |-> 0]

Make(c, m, n) ==
    /\ claim[c].phase = "none"
    /\ claim' = [claim EXCEPT ![c] = [phase |-> "open", owner |-> m, points |-> n]]
    /\ UNCHANGED spent

Pay(c) ==
    /\ claim[c].phase = "open"
    /\ claim' = [claim EXCEPT ![c].phase = "paid"]
    /\ spent' = [spent EXCEPT ![claim[c].owner] = @ + claim[c].points]

Next == \E c \in Claims : Pay(c) \/ \E m \in Members, n \in Amounts : Make(c, m, n)

Spec == Init /\ [][Next]_<<claim, spent>>
=============================================================================
