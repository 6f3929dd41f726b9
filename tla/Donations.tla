------------------------------ MODULE Donations ------------------------------
(***************************************************************************)
(* Donations to NMMS and the points they earn.  A member's own report of a   *)
(* donation waits for staff, who approve or reject it; a donation that staff *)
(* take in person, or that Razorpay captured, is approved as it is recorded. *)
(*                                                                         *)
(* Workers and job[w] are as in Membership.  Here the connections of the    *)
(* Prisma pool count as well: a transaction keeps one from its begin to its  *)
(* end, and the receipt number it needs (NumberingService.next) takes a      *)
(* second one.  If there is none, the transaction times out (5 seconds, for  *)
(* it has no timeout of its own) while the call for the number still waits.   *)
(*                                                                         *)
(* Abstractions: an amount and a percentage are integers; donors' details,   *)
(* modes and who reviewed are left out; Razorpay's orders are payments.       *)
(***************************************************************************)
EXTENDS PointsLedger \* Sources are the donations

CONSTANTS
    Captures,    \* Razorpay payments
    Workers,
    Connections, \* connection_limit of the pool
    Amounts, Percents,
    None,
    MaxReceipts, MaxAborts \* bounds of the model

ASSUME NoneAssumption == None \notin Members \cup Sources \cup Captures \cup Workers \cup Int
ASSUME AmountsAssumption == Amounts \subseteq Nat /\ Percents \subseteq Nat
ASSUME BoundsAssumption == Connections \in Nat \ {0} /\ MaxReceipts \in Nat /\ MaxAborts \in Nat

VARIABLES
    donation,   \* [Sources -> Donation row], status NONE: no such row
    captured,   \* [Captures -> what was paid and by whom]
    percent,    \* OrgSettings.donationPointsPercent
    receiptSeq, \* OrgSettings.lastDonationReceiptSeq
    job,        \* [Workers -> what the handler is doing]
    aborts      \* handlers that failed or crashed so far

points_vars == <<balance, ledger>>
vars == <<points_vars, donation, captured, percent, receiptSeq, job, aborts>>

-----------------------------------------------------------------------------
NoDonation == [status |-> "NONE", m |-> None, amount |-> 0, points |-> 0, receipt |-> None, g |-> None]
NoJob == [op |-> "idle", at |-> "end", d |-> None, m |-> None, g |-> None,
          amount |-> 0, points |-> 0, receipt |-> None, row |-> None]
NotCaptured == [m |-> None, amount |-> 0]

Exists(d) == donation[d].status # "NONE"
Recorded(g) == \E d \in Sources : donation[d].g = g

computePoints(amount, p) == (amount * p) \div 100

Init ==
    /\ balance = [m \in Members |-> 0] /\ ledger = {}
    /\ donation = [d \in Sources |-> NoDonation]
    /\ captured = [g \in Captures |-> NotCaptured]
    /\ percent \in Percents
    /\ receiptSeq = 0
    /\ job = [w \in Workers |-> NoJob]
    /\ aborts = 0

-----------------------------------------------------------------------------
(* Workers, transactions, row locks and connections.                       *)

Idle(w) == job[w].op = "idle"
At(w, ops, at) == job[w].op \in ops /\ job[w].at = at
Begin(w, j) == Idle(w) /\ job' = [job EXCEPT ![w] = j]
Goto(w, at) == job' = [job EXCEPT ![w].at = at]
Finish(w) == job' = [job EXCEPT ![w] = NoJob]

RecordOps == {"direct", "verify", "webhook"}

\* Between begin and commit; and the row that a review has updated by then.
InTx(w) == job[w].at \in {"cas", "number", "commit"}
Locked(d) == \E w \in Workers : job[w].op = "approve" /\ job[w].at \in {"number", "commit"} /\ job[w].d = d

\* A connection for another transaction, or for a statement outside of one.
ConnectionFree == Cardinality({w \in Workers : InTx(w)}) < Connections

\* Ids and receipt numbers that handlers at work may still need.
Creators == {w \in Workers : job[w].op \in RecordOps \cup {"submit"} /\ job[w].at # "points"}
DonationLeft == Cardinality({d \in Sources : Exists(d)} \cup Creators) < Cardinality(Sources)
Numberers == {w \in Workers : job[w].op \in RecordOps \cup {"approve"} /\ job[w].receipt = None}
ReceiptLeft == receiptSeq + Cardinality(Numberers) < MaxReceipts

\* The handler dies before its next step; its transaction is rolled back.
Abort(w) ==
    /\ ~Idle(w) /\ aborts < MaxAborts
    /\ aborts' = aborts + 1
    /\ Finish(w)
    /\ UNCHANGED <<points_vars, donation, captured, percent, receiptSeq>>

\* No connection for the receipt number within 5 seconds: the transaction is
\* rolled back and gives its connection up.  The call for the number waits on.
TimeOut_Never(w) == FALSE /\ UNCHANGED vars
TimeOut(w) ==
    /\ job[w].at = "number" /\ ~ConnectionFree
    /\ Goto(w, "orphan")
    /\ UNCHANGED <<points_vars, donation, captured, percent, receiptSeq, aborts>>

\* BEGIN, once a connection is there.
BeginTransaction(w) ==
    /\ job[w].at = "begin" /\ ConnectionFree
    /\ Goto(w, IF job[w].op \in RecordOps THEN "number" ELSE "cas")
    /\ UNCHANGED <<points_vars, donation, captured, percent, receiptSeq, aborts>>

\* nextDonationReceiptNumber, on a connection of its own.
AllocateReceipt(w) ==
    /\ job[w].at = "number" /\ ConnectionFree
    /\ receiptSeq' = receiptSeq + 1
    /\ job' = [job EXCEPT ![w].receipt = receiptSeq + 1, ![w].at = "commit"]
    /\ UNCHANGED <<points_vars, donation, captured, percent, aborts>>

\* The number comes too late: the next statement fails, the transaction being
\* closed.  Or the pool times out as well.
OrphanEnds(w) ==
    /\ job[w].at = "orphan"
    /\ receiptSeq' = IF ConnectionFree THEN receiptSeq + 1 ELSE receiptSeq
    /\ Finish(w)
    /\ UNCHANGED <<points_vars, donation, captured, percent, aborts>>

-----------------------------------------------------------------------------
(* DonationsService.submitMine: three statements, no transaction.          *)

NewJob(op, at, m, a) == [NoJob EXCEPT !.op = op, !.at = at, !.m = m, !.amount = a,
                                     !.points = computePoints(a, percent)]

SubmitRead(w, m, a) ==
    /\ ConnectionFree /\ DonationLeft
    /\ Begin(w, NewJob("submit", "create", m, a))
    /\ UNCHANGED <<points_vars, donation, captured, percent, receiptSeq, aborts>>

EarnsPoints_AboveOne(w) == job[w].points > 1
EarnsPoints(w) == job[w].points > 0

NewDonation(w, status) ==
    [status |-> status, m |-> job[w].m, amount |-> job[w].amount, points |-> job[w].points,
     receipt |-> job[w].receipt, g |-> job[w].g]

SubmitCreate(w, d) ==
    /\ At(w, {"submit"}, "create") /\ ConnectionFree /\ ~Exists(d)
    /\ donation' = [donation EXCEPT ![d] = NewDonation(w, "PENDING")]
    /\ IF EarnsPoints(w)
       THEN job' = [job EXCEPT ![w].d = d, ![w].at = "points"]
       ELSE Finish(w)
    /\ UNCHANGED <<points_vars, captured, percent, receiptSeq, aborts>>

\* recordPendingDonationPoints.
SubmitPoints(w) ==
    /\ At(w, {"submit"}, "points") /\ ConnectionFree
    /\ ledger' = ledger \cup {NewRow(job[w].d, job[w].m, job[w].points, "PENDING")}
    /\ Finish(w)
    /\ UNCHANGED <<balance, donation, captured, percent, receiptSeq, aborts>>

-----------------------------------------------------------------------------
(* recordDirect, and DonationGatewayService.recordApprovedDonation for      *)
(* verify and the webhook.                                                 *)

DirectRead(w, m, a) ==
    /\ ConnectionFree /\ DonationLeft /\ ReceiptLeft
    /\ Begin(w, NewJob("direct", "begin", m, a))
    /\ UNCHANGED <<points_vars, donation, captured, percent, receiptSeq, aborts>>

\* A member pays an order, in the page or through a link.
Pay(g, m, a) ==
    /\ captured[g] = NotCaptured
    /\ captured' = [captured EXCEPT ![g] = [m |-> m, amount |-> a]]
    /\ UNCHANGED <<points_vars, donation, percent, receiptSeq, job, aborts>>

\* The idempotency check, once or again: a recorded payment ends it.
GatewayFind_Unpaid(w, op, g) ==
    /\ ConnectionFree /\ DonationLeft /\ ReceiptLeft
    /\ ~Recorded(g)
    /\ Begin(w, [NoJob EXCEPT !.op = op, !.at = "settings", !.g = g,
                              !.m = captured[g].m, !.amount = captured[g].amount])
    /\ UNCHANGED <<points_vars, donation, captured, percent, receiptSeq, aborts>>
GatewayFind(w, op, g) ==
    /\ ConnectionFree /\ DonationLeft /\ ReceiptLeft
    /\ captured[g] # NotCaptured /\ ~Recorded(g)
    /\ Begin(w, [NoJob EXCEPT !.op = op, !.at = "settings", !.g = g,
                              !.m = captured[g].m, !.amount = captured[g].amount])
    /\ UNCHANGED <<points_vars, donation, captured, percent, receiptSeq, aborts>>

GatewayReadSettings(w) ==
    /\ job[w].at = "settings" /\ ConnectionFree
    /\ job' = [job EXCEPT ![w].at = "begin", ![w].points = computePoints(job[w].amount, percent)]
    /\ UNCHANGED <<points_vars, donation, captured, percent, receiptSeq, aborts>>

PaymentIsNew_Always(g) == TRUE
PaymentIsNew(g) == g = None \/ ~Recorded(g)

\* donation.create, creditDonationPoints, COMMIT.
RecordCommit(w, d) ==
    /\ At(w, RecordOps, "commit") /\ ~Exists(d) /\ PaymentIsNew(job[w].g)
    /\ donation' = [donation EXCEPT ![d] = NewDonation(w, "APPROVED")]
    /\ IF EarnsPoints(w)
       THEN CreditPoints(d, job[w].m, job[w].points)
       ELSE UNCHANGED points_vars
    /\ Finish(w)
    /\ UNCHANGED <<captured, percent, receiptSeq, aborts>>

\* gatewayPaymentId is unique (P2002): a 409, and the number is lost.
RecordDuplicate(w) ==
    /\ At(w, RecordOps, "commit") /\ ~PaymentIsNew(job[w].g)
    /\ Finish(w)
    /\ UNCHANGED <<points_vars, donation, captured, percent, receiptSeq, aborts>>

-----------------------------------------------------------------------------
(* approve and reject, then ReferralsService.resolveDonation.              *)

ReviewFind(w, op, d) ==
    /\ ConnectionFree /\ Exists(d)
    /\ op = "approve" => ReceiptLeft
    /\ Begin(w, [NoJob EXCEPT !.op = op, !.at = "begin", !.d = d, !.m = donation[d].m])
    /\ UNCHANGED <<points_vars, donation, captured, percent, receiptSeq, aborts>>

CanReview_Any(d) == TRUE
CanReview(d) == donation[d].status = "PENDING"

ApproveCas(w) ==
    /\ At(w, {"approve"}, "cas") /\ ~Locked(job[w].d)
    /\ IF CanReview(job[w].d) THEN Goto(w, "number") ELSE Finish(w)
    /\ UNCHANGED <<points_vars, donation, captured, percent, receiptSeq, aborts>>

ApproveCommit(w) ==
    /\ At(w, {"approve"}, "commit")
    /\ donation' = [donation EXCEPT ![job[w].d].status = "APPROVED", ![job[w].d].receipt = job[w].receipt]
    /\ Goto(w, "resolve")
    /\ UNCHANGED <<points_vars, captured, percent, receiptSeq, aborts>>

\* One statement, which waits for the row with the connection in its hand.
RejectCas(w) ==
    /\ At(w, {"reject"}, "cas") /\ ~Locked(job[w].d)
    /\ IF CanReview(job[w].d)
       THEN donation' = [donation EXCEPT ![job[w].d].status = "REJECTED"] /\ Goto(w, "resolve")
       ELSE UNCHANGED donation /\ Finish(w)
    /\ UNCHANGED <<points_vars, captured, percent, receiptSeq, aborts>>

PendingRow(d) == {r \in RowsOf(d) : r.status = "PENDING"}

ResolveFind(w) ==
    /\ job[w].at = "resolve" /\ ConnectionFree
    /\ IF PendingRow(job[w].d) = {}
       THEN Finish(w)
       ELSE \E r \in PendingRow(job[w].d) : job' = [job EXCEPT ![w].at = "settle", ![w].row = r]
    /\ UNCHANGED <<points_vars, donation, captured, percent, receiptSeq, aborts>>

\* By the id of the row that was found: credited in one transaction, or rejected.
ResolveSettle(w) ==
    /\ job[w].at = "settle" /\ ConnectionFree
    /\ IF job[w].op = "approve"
       THEN ApproveRow(job[w].row, job[w].row.points)
       ELSE SetRow(job[w].row, job[w].row.points, "REJECTED") /\ UNCHANGED balance
    /\ Finish(w)
    /\ UNCHANGED <<donation, captured, percent, receiptSeq, aborts>>

\* The organization changes the rate.
SetPercent(p) ==
    /\ percent # p
    /\ percent' = p
    /\ UNCHANGED <<points_vars, donation, captured, receiptSeq, job, aborts>>

-----------------------------------------------------------------------------
Start(w) ==
    \/ \E m \in Members, a \in Amounts : SubmitRead(w, m, a) \/ DirectRead(w, m, a)
    \/ \E g \in Captures, op \in {"verify", "webhook"} : GatewayFind(w, op, g)
    \/ \E d \in Sources, op \in {"approve", "reject"} : ReviewFind(w, op, d)

Proceed(w) ==
    \/ BeginTransaction(w) \/ AllocateReceipt(w) \/ OrphanEnds(w)
    \/ \E d \in Sources : SubmitCreate(w, d) \/ RecordCommit(w, d)
    \/ SubmitPoints(w) \/ GatewayReadSettings(w) \/ RecordDuplicate(w)
    \/ ApproveCas(w) \/ ApproveCommit(w) \/ RejectCas(w) \/ ResolveFind(w) \/ ResolveSettle(w)

Next ==
    \/ \E w \in Workers : Start(w) \/ Proceed(w) \/ TimeOut(w) \/ Abort(w)
    \/ \E g \in Captures, m \in Members, a \in Amounts : Pay(g, m, a)
    \/ \E p \in Percents : SetPercent(p)

Spec == Init /\ [][Next]_vars

\* Handlers go on to their end.  Strong, because those that wait for a
\* connection or a row are served in the order they came, so that none is
\* passed over for ever.
Fairness == \A w \in Workers : SF_vars(Proceed(w) \/ TimeOut(w))
FairSpec == Spec /\ Fairness

-----------------------------------------------------------------------------
DonationRow == [status : {"PENDING", "APPROVED", "REJECTED"}, m : Members,
                amount : Nat, points : Nat, receipt : Nat \cup {None}, g : Captures \cup {None}]
Steps == {"create", "points", "settings", "begin", "cas", "number", "commit", "orphan", "resolve", "settle"}
Job == [op : {"idle", "submit", "approve", "reject"} \cup RecordOps, at : Steps \cup {"end"},
        d : Sources \cup {None}, m : Members \cup {None}, g : Captures \cup {None},
        amount : Nat, points : Nat, receipt : Nat \cup {None}, row : LedgerRow \cup {None}]

\* Every variable has its type.
TypeOK ==
    /\ balance \in [Members -> Nat] /\ ledger \subseteq LedgerRow
    /\ donation \in [Sources -> DonationRow \cup {NoDonation}]
    /\ captured \in [Captures -> {NotCaptured} \cup [m : Members, amount : Nat]]
    /\ percent \in Nat /\ receiptSeq \in Nat
    /\ job \in [Workers -> Job]
    /\ aborts \in Nat

-----------------------------------------------------------------------------
(* Safety.  BalanceIsSum and EarningSpec are those of PointsLedger.         *)

\* Points are spendable only when staff, or the gateway, have confirmed the
\* money (donations.service.ts: "no spendable points until staff confirm"): a
\* row of the ledger belongs to a donation, is credited only if that is
\* approved and rejected only if that is rejected; and it holds the points of
\* the rate at submission ("a later rate change can't alter" them).
PointsFollowReview ==
    \A r \in ledger :
        /\ r.m = donation[r.source].m /\ r.points = donation[r.source].points
        /\ r.status \in {"PENDING", donation[r.source].status}

\* Nothing is forgotten: when no handler is at work and none crashed, a donation
\* that is worth points has its row in the ledger.
PointsAccounted ==
    aborts = 0 /\ (\A w \in Workers : Idle(w)) =>
        \A d \in Sources : Exists(d) /\ donation[d].points > 0 =>
            \E r \in ledger : r.source = d

\* "A lost race never burns" a receipt number (approve): what was taken from
\* the counter stays with its handler or on a donation, unless a transaction
\* timed out or failed, or verify and the webhook both took one.
InHand == {donation[d].receipt : d \in Sources} \cup {job[w].receipt : w \in Workers}
ReceiptsKept ==
    [][\A n \in 1..receiptSeq :
         n \in InHand /\ n \notin InHand' =>
            \/ aborts' > aborts
            \/ \E w \in Workers : RecordDuplicate(w) /\ job[w].receipt = n]_vars

\* A receipt number is on one donation, and an approved donation has one; a
\* captured payment is one donation, however often it is reported.
ReceiptsDistinct ==
    \A c, d \in Sources :
        /\ donation[d].status = "APPROVED" <=> donation[d].receipt # None
        /\ donation[c].receipt = donation[d].receipt /\ donation[c].receipt # None => c = d
        /\ donation[c].g = donation[d].g /\ donation[c].g # None => c = d

-----------------------------------------------------------------------------
(* What makes the safety properties inductive.                             *)

\* What a handler knows at each of its steps.
IsStep(op, at) ==
    \/ op = "submit" /\ at \in {"create", "points"}
    \/ op = "direct" /\ at \in {"begin", "number", "commit", "orphan"}
    \/ op \in {"verify", "webhook"} /\ at \in {"settings", "begin", "number", "commit", "orphan"}
    \/ op = "approve" /\ at \in {"begin", "cas", "number", "commit", "orphan", "resolve", "settle"}
    \/ op = "reject" /\ at \in {"begin", "cas", "resolve", "settle"}
Shaped(j) ==
    IF j.op = "idle" THEN j = NoJob
    ELSE /\ IsStep(j.op, j.at) /\ j.m \in Members
         /\ j.op \in {"approve", "reject"} \/ j.at = "points" => j.d \in Sources
         /\ j.g # None => j.op \in {"verify", "webhook"}
         /\ j.receipt # None <=> j.at = "commit" \/ (j.op = "approve" /\ j.at \in {"resolve", "settle"})
         /\ j.at = "settle" => j.row \in LedgerRow

\* The receipt numbers given out, on donations and in open transactions, are all
\* different and not ahead of their counter.
ReceiptsIssued ==
    /\ \A d \in Sources : donation[d].receipt # None => donation[d].receipt \in 1..receiptSeq
    /\ \A w \in Workers : job[w].at = "commit" =>
          /\ job[w].receipt \in 1..receiptSeq
          /\ \A d \in Sources : donation[d].receipt # job[w].receipt
          /\ \A v \in Workers : job[v].at = "commit" /\ job[v].receipt = job[w].receipt => v = w

\* Of all reviews of a donation one takes effect: the one whose compare-and-swap
\* found it pending.  It goes on to the donation's row, which stays as it was
\* found.
Resolving(w) == job[w].at \in {"resolve", "settle"}
Reviewing(w) == (job[w].op = "approve" /\ job[w].at \in {"number", "commit"}) \/ Resolving(w)
OneReview ==
    \A w \in Workers : Reviewing(w) =>
        /\ \A v \in Workers : Reviewing(v) /\ job[v].d = job[w].d => v = w
        /\ donation[job[w].d].status =
              IF ~Resolving(w) THEN "PENDING" ELSE IF job[w].op = "approve" THEN "APPROVED" ELSE "REJECTED"
        /\ Resolving(w) /\ job[w].op = "approve" => donation[job[w].d].receipt = job[w].receipt
        /\ job[w].at = "settle" => job[w].row \in PendingRow(job[w].d)

\* The pending row of a reported donation is owed by the one who recorded it.
RowsOwed ==
    \A w \in Workers : job[w].at = "points" =>
        /\ Exists(job[w].d) /\ EarnsPoints(w)
        /\ donation[job[w].d].m = job[w].m /\ donation[job[w].d].points = job[w].points
        /\ RowsOf(job[w].d) = {}
        /\ \A v \in Workers : job[v].at = "points" /\ job[v].d = job[w].d => v = w

\* PointsAccounted, while handlers are at work.
RowOrOwed ==
    aborts = 0 => \A d \in Sources : Exists(d) /\ donation[d].points > 0 =>
        RowsOf(d) # {} \/ \E w \in Workers : job[w].at = "points" /\ job[w].d = d

DonationInv ==
    /\ TypeOK /\ \A w \in Workers : Shaped(job[w])
    /\ ReceiptsDistinct /\ ReceiptsIssued /\ OneReview /\ RowsOwed
    /\ OneRow /\ PointsFollowReview /\ RowOrOwed

\* Liveness: no handler waits for ever, although each of several transactions
\* may hold the connection that another one needs for its number.
HandlersEnd == \A w \in Workers : ~Idle(w) ~> Idle(w)
=============================================================================
