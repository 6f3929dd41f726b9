---------------------------- MODULE PointsLedger ----------------------------
(***************************************************************************)
(* The points a member has earned: ReferralPointsLedger rows and the         *)
(* balance cached on the member's row, with what ReferralsService does to    *)
(* both in one transaction.  Donations, Events and Referrals build on it.    *)
(* Points that leave the balance again are the business of Withdrawals.      *)
(*                                                                         *)
(* A row names what earned the points (source): relatedMemberId, -DonationId  *)
(* or -EventRegistrationId.  Only a donation's is a unique key; nth tells     *)
(* rows of one source apart.                                                *)
(***************************************************************************)
EXTENDS Integers, FiniteSets, Functions

CONSTANTS Members, Sources

VARIABLES
    balance, \* [Members -> Member.referralPointsBalance]
    ledger   \* the ReferralPointsLedger rows

RowStatus == {"PENDING", "APPROVED", "REJECTED"}
LedgerRow == [source : Sources, nth : Nat, m : Members, points : Nat, status : RowStatus]

RowsOf(s) == {r \in ledger : r.source = s}
Approved == {r \in ledger : r.status = "APPROVED"}
SumOfPoints(R) == SumFunctionOnSet([r \in R |-> r.points], R)
NewRow(s, m, n, status) ==
    [source |-> s, nth |-> Cardinality(RowsOf(s)), m |-> m, points |-> n, status |-> status]

\* creditPoints: the row and the balance in one transaction.
CreditPoints(s, m, n) ==
    /\ balance' = [balance EXCEPT ![m] = @ + n]
    /\ ledger' = ledger \cup {NewRow(s, m, n, "APPROVED")}

\* A row that was written earlier is decided: its points are credited, or not.
SetRow(r, n, status) ==
    ledger' = {q \in ledger : q.source # r.source \/ q.nth # r.nth}
                \cup {[r EXCEPT !.points = n, !.status = status]}
ApproveRow(r, n) ==
    /\ balance' = [balance EXCEPT ![r.m] = @ + n]
    /\ SetRow(r, n, "APPROVED")

-----------------------------------------------------------------------------
\* The cached balance is the sum of the approved rows (schema.prisma: "only
\* APPROVED rows count toward Member.referralPointsBalance").
BalanceIsSum ==
    \A m \in Members : balance[m] = SumOfPoints({r \in Approved : r.m = m})

\* What the proofs need: each source has one row at most.
OneRow == IsFiniteSet(ledger) /\ \A q, r \in ledger : q.source = r.source => q = r

\* Refinement: nothing earns points twice, by whichever handlers and however
\* often it is reported, submitted or reviewed, and what it earns is credited to
\* one member in one step.
Earning == INSTANCE PointEarning WITH
    credits <- {[source |-> r.source, m |-> r.m, points |-> r.points] : r \in Approved}
EarningSpec == Earning!Spec
=============================================================================
