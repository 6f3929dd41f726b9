----------------------------- MODULE Membership -----------------------------
(***************************************************************************)
(* The life of a membership of NMMS: a draft is given a plan and submitted,  *)
(* a fee activates it, further fees renew or upgrade it, a daily job expires *)
(* it, staff suspend it or close it.  Fees are recorded by staff or reach    *)
(* the API from Razorpay twice over, by the page that saw the checkout       *)
(* (verify) and by the webhook.                                              *)
(*                                                                         *)
(* Every request handler and the daily job is run by one of Workers; job[w]  *)
(* holds what it has read.  A step ends where the code awaits a statement or *)
(* a call that another worker can interfere with.  An interactive            *)
(* transaction is a worker between its compare-and-swap, which locks the     *)
(* member's row, and its commit, which shows what it wrote (InTx, Locked);   *)
(* the sequence counters commit at once, on a connection of their own.       *)
(*                                                                         *)
(* Abstractions: a plan stands for planId; feeOverride is a column of its    *)
(* own, read where a fee decides something; time is days; of the status      *)
(* history only the net number of rows that enter each status is kept.       *)
(* SUBMITTED, which remains on old rows only, is everywhere treated like     *)
(* AWAITING_PAYMENT.                                                         *)
(***************************************************************************)
EXTENDS Integers, FiniteSets

CONSTANTS
    Members, Workers,
    Captures,      \* Razorpay orders, each with at most one captured payment
    Plans,
    None,          \* a null column, an unset local
    Fee,           \* plan -> fee
    Overrides,     \* fees that staff may set for one member instead
    Tier,          \* plan -> index in PLAN_TIER_ORDER, 0 for a plan without tier
    LifetimePlans, \* validityType LIFETIME
    Validity,      \* plan -> validityMonths in days, 0 for a MONTHS plan without
    Handlers,      \* which handlers are at work in an instance of the model
    MaxReceipts, MaxDay, MaxAborts         \* bounds of the model

\* The columns of an edit that decide about plan and fee.
PlanColumns == {{"plan"}, {"override"}, {"plan", "override"}}

HandlerNames == {"plan", "submit", "remove", "manual", "gateway", "upgrade",
                 "sweep", "suspend", "deceased"}

ASSUME NoneAssumption == None \notin Members \cup Workers \cup Captures \cup Plans \cup Int
ASSUME PlansAssumption ==
    /\ Fee \in [Plans -> Nat] /\ Tier \in [Plans -> Nat] /\ Validity \in [Plans -> Nat]
    /\ LifetimePlans \subseteq Plans /\ Overrides \subseteq Nat
ASSUME BoundsAssumption ==
    /\ Handlers \subseteq HandlerNames
    /\ MaxReceipts \in Nat /\ MaxDay \in Nat /\ MaxAborts \in Nat

VARIABLES
    member,        \* [Members -> Member row], status NONE: deleted
    trail,         \* [Members -> [Status -> StatusHistory rows into it minus out of it]]
    payments,      \* the Payment rows
    order,         \* [Captures -> Razorpay's order]
    membershipSeq, \* OrgSettings.lastMembershipSeq
    receiptSeq,    \* OrgSettings.lastReceiptSeq
    job,           \* [Workers -> what the handler is doing]
    today,
    aborts         \* handlers that failed or crashed so far

\* Everything but what the handlers remember.
database == <<member, trail, payments, order, membershipSeq, receiptSeq, today, aborts>>
vars == <<database, job>>

-----------------------------------------------------------------------------
(* Rows.  As in Withdrawals, a definition named after another one with a    *)
(* suffix (Locked_Never) is not part of the model but what that one  *)
(* would be with a plausible bug, see "mutants" in PROJECT.json.            *)

Status == {"NONE", "DRAFT", "AWAITING_PAYMENT", "ACTIVE", "EXPIRED", "SUSPENDED", "DECEASED"}
EditableStatuses == {"DRAFT", "AWAITING_PAYMENT", "ACTIVE", "SUSPENDED", "EXPIRED"}
PayableStatuses == {"AWAITING_PAYMENT", "ACTIVE", "EXPIRED"}

NewDraft == [status |-> "DRAFT", plan |-> None, override |-> None, joining |-> None, until |-> None,
             number |-> None, rewards |-> {}, awards |-> 0]
NoRow == [NewDraft EXCEPT !.status = "NONE"]
NoOrder == [state |-> "none", m |-> None, plan |-> None]

Exists(m) == member[m].status # "NONE"
IsPayable(m) == member[m].status \in PayableStatuses /\ member[m].plan # None
IsOverdue(m) == /\ member[m].status = "ACTIVE"
                /\ member[m].until # None /\ member[m].until < today
\* feeOverride, or the fee of the plan, of a member with a plan.
EffectiveFee(m) == IF member[m].override = None THEN Fee[member[m].plan] ELSE member[m].override
Recorded(g) == \E p \in payments : p.g = g
TiersUpTo(p) == IF Tier[p] = 0 THEN {} ELSE 1..Tier[p]
IsUpgrade(p, q) == q # p /\ (Tier[p] # 0 /\ Tier[q] # 0 => Tier[q] > Tier[p])
HasValidity(p) == p \in LifetimePlans \/ Validity[p] # 0

\* The end of a membership of plan p that counts from day d; a plan without a
\* period has none.
EndOfValidity(p, d) == IF p \notin LifetimePlans /\ Validity[p] # 0 THEN d + Validity[p] ELSE None

EmptyTrail == [s \in Status |-> 0]
\* One more StatusHistory row of m, from one status to another.
MoveTrail(m, from, to) ==
    trail' = [trail EXCEPT ![m] =
                [s \in Status |-> @[s] + (IF s = to THEN 1 ELSE 0) - (IF s = from THEN 1 ELSE 0)]]

\* Registered, in draft, perhaps with a plan and a fee already.
Init ==
    /\ \E plan \in [Members -> Plans \cup {None}], override \in [Members -> Overrides \cup {None}] :
          member = [m \in Members |-> [NewDraft EXCEPT !.plan = plan[m], !.override = override[m]]]
    /\ trail = [m \in Members |-> EmptyTrail]
    /\ payments = {}
    /\ order = [g \in Captures |-> NoOrder]
    /\ membershipSeq = 0 /\ receiptSeq = 0
    /\ job = [w \in Workers |-> [op |-> "idle"]]
    /\ today = 0 /\ aborts = 0

-----------------------------------------------------------------------------
(* Workers, transactions and row locks.                                    *)

PayOps == {"manual", "verify", "webhook"}
Idle(w) == job[w].op = "idle"
At(w, ops, at) == job[w].op \in ops /\ job[w].at = at
Begin(w, j) == Idle(w) /\ job' = [job EXCEPT ![w] = j]
Goto(w, at) == job' = [job EXCEPT ![w].at = at]
Finish(w) == job' = [job EXCEPT ![w] = [op |-> "idle"]]

InTx(w) == job[w].op \in PayOps \cup {"upgrade"} /\ job[w].at \in {"number", "receipt", "commit"}
Locked_Never(m) == FALSE
Locked(m) == \E w \in Workers : InTx(w) /\ job[w].m = m

\* A payment or upgrade that may still take a receipt number.
Paying == {w \in Workers : job[w].op \in PayOps \cup {"upgrade"} /\ job[w].at \in {"member", "cas", "number", "receipt"}}
ReceiptLeft == receiptSeq + Cardinality(Paying) < MaxReceipts

\* The handler dies before its next step: the process crashes, or a statement
\* or its transaction fails.  An open transaction is rolled back.
Abort(w) ==
    /\ ~Idle(w) /\ aborts < MaxAborts
    /\ aborts' = aborts + 1
    /\ Finish(w)
    /\ UNCHANGED <<member, trail, payments, order, membershipSeq, receiptSeq, today>>

-----------------------------------------------------------------------------
(* MembersService: choosing the plan, submitting, deleting.                *)

\* selectMyPlan, by the member: the first choice, while in draft.
SelectPlanRead(w, m, p) ==
    /\ "plan" \in Handlers
    /\ member[m].status = "DRAFT" /\ member[m].plan = None
    /\ Begin(w, [op |-> "plan", m |-> m, sets |-> {"plan"}, plan |-> p, override |-> None,
                 joining |-> IF member[m].joining = None THEN today ELSE member[m].joining])
    /\ UNCHANGED database

\* update, by staff: the body sets the plan, the fee or both, to any or to none
\* while in draft, to the same ones later.  (Nothing else that it writes is
\* modelled.)
EditPlanRead(w, m, sets, p, o) ==
    /\ "plan" \in Handlers
    /\ member[m].status \in EditableStatuses
    /\ "plan" \notin sets => p = None
    /\ "override" \notin sets => o = None
    /\ member[m].status # "DRAFT" =>
          /\ "plan" \in sets => p = member[m].plan
          /\ "override" \in sets => o = member[m].override
    /\ Begin(w, [op |-> "plan", m |-> m, sets |-> sets, plan |-> p, override |-> o, joining |-> None])
    /\ UNCHANGED database

\* Both then update by id, whatever the row has become.
PlannedRow(w) ==
    [member[job[w].m] EXCEPT !.plan = IF "plan" \in job[w].sets THEN job[w].plan ELSE @,
                             !.override = IF "override" \in job[w].sets THEN job[w].override ELSE @,
                             !.joining = IF job[w].joining = None THEN @ ELSE job[w].joining]

PlanWrite(w) ==
    /\ job[w].op = "plan" /\ ~Locked(job[w].m)
    /\ member' = [member EXCEPT ![job[w].m] = IF Exists(job[w].m) THEN PlannedRow(w) ELSE @]
    /\ Finish(w)
    /\ UNCHANGED <<trail, payments, order, membershipSeq, receiptSeq, today, aborts>>

SubmitRead(w, m) ==
    /\ "submit" \in Handlers
    /\ member[m].status = "DRAFT" /\ member[m].plan # None
    /\ Begin(w, [op |-> "submit", at |-> "cas", m |-> m])
    /\ UNCHANGED database

SubmitCas(w) ==
    /\ At(w, {"submit"}, "cas") /\ ~Locked(job[w].m)
    /\ IF member[job[w].m].status = "DRAFT"
       THEN /\ member' = [member EXCEPT ![job[w].m].status = "AWAITING_PAYMENT"]
            /\ Goto(w, "history")
       ELSE Finish(w) /\ UNCHANGED member
    /\ UNCHANGED <<trail, payments, order, membershipSeq, receiptSeq, today, aborts>>

\* The history row is a statement of its own (and fails if the row is gone).
SubmitHistory(w) ==
    /\ At(w, {"submit"}, "history")
    /\ IF Exists(job[w].m) THEN MoveTrail(job[w].m, "DRAFT", "AWAITING_PAYMENT") ELSE UNCHANGED trail
    /\ Finish(w)
    /\ UNCHANGED <<member, payments, order, membershipSeq, receiptSeq, today, aborts>>

RemoveRead(w, m) ==
    /\ "remove" \in Handlers
    /\ member[m].status = "DRAFT"
    /\ Begin(w, [op |-> "remove", m |-> m])
    /\ UNCHANGED database

\* Deletes the row by id together with its history and payments.
RemoveWrite(w) ==
    /\ job[w].op = "remove" /\ ~Locked(job[w].m)
    /\ member' = [member EXCEPT ![job[w].m] = NoRow]
    /\ trail' = [trail EXCEPT ![job[w].m] = EmptyTrail]
    /\ payments' = {p \in payments : p.m # job[w].m}
    /\ Finish(w)
    /\ UNCHANGED <<order, membershipSeq, receiptSeq, today, aborts>>

-----------------------------------------------------------------------------
(* Razorpay: an order quotes the fee of the day it is made.                *)

CreateOrder(m, g) ==
    /\ "gateway" \in Handlers
    /\ order[g].state = "none" /\ IsPayable(m)
    /\ order' = [order EXCEPT ![g] = [state |-> "created", m |-> m, plan |-> member[m].plan]]
    /\ UNCHANGED <<member, trail, payments, membershipSeq, receiptSeq, job, today, aborts>>

Capture(g) ==
    /\ order[g].state = "created"
    /\ order' = [order EXCEPT ![g].state = "captured"]
    /\ UNCHANGED <<member, trail, payments, membershipSeq, receiptSeq, job, today, aborts>>

-----------------------------------------------------------------------------
(* PaymentsService: recordPayment and recordGatewayPaymentInternal.        *)

\* What finalizePayment knows: the member as read, with the plan that the fee
\* was charged for (quoted), and on which day.
PayJob(op, at, m, g, quoted) ==
    [op |-> op, at |-> at, m |-> m, g |-> g, quoted |-> quoted, day |-> today,
     status |-> member[m].status, plan |-> member[m].plan, joining |-> member[m].joining,
     until |-> member[m].until, number |-> None, receipt |-> None]

\* Staff record a payment: assertPayable, and the amount is the effective fee.
RecordPaymentRead(w, m) ==
    /\ "manual" \in Handlers /\ ReceiptLeft
    /\ IsPayable(m)
    /\ Begin(w, PayJob("manual", "cas", m, None, member[m].plan))
    /\ UNCHANGED database

\* verify or the webhook, once or again: the idempotency check on
\* gatewayPaymentId, which ends it if the payment is recorded already.
GatewayFind(w, op, g) ==
    /\ ReceiptLeft
    /\ order[g].state = "captured" /\ ~Recorded(g)
    /\ Begin(w, PayJob(op, "member", order[g].m, g, order[g].plan))
    /\ UNCHANGED database

GatewayReadMember(w) ==
    /\ At(w, PayOps, "member")
    /\ IF IsPayable(job[w].m)
       THEN job' = [job EXCEPT ![w] = PayJob(@.op, "cas", @.m, @.g, @.quoted)]
       ELSE Finish(w)
    /\ UNCHANGED database

Activates(w) == job[w].status = "AWAITING_PAYMENT"

CasMatches_NoStatus(w) == Exists(job[w].m)
CasMatches(w) == member[job[w].m].status = job[w].status

\* The transaction opens with the compare-and-swap on the status that was read,
\* waiting for the row; a renewal of a plan without validity is refused.
\* validUntil counts from the read for a renewal (paidAt), from here for an
\* activation (activatedAt).
FinalizeCas(w) ==
    /\ At(w, PayOps, "cas") /\ ~Locked(job[w].m)
    /\ IF CasMatches(w) /\ (Activates(w) \/ HasValidity(job[w].plan))
       THEN job' = [job EXCEPT ![w].at = IF Activates(w) THEN "number" ELSE "receipt",
                               ![w].day = IF Activates(w) THEN today ELSE @]
       ELSE Finish(w)
    /\ UNCHANGED database

AllocateMembershipNumber(w) ==
    /\ At(w, PayOps, "number")
    /\ membershipSeq' = membershipSeq + 1
    /\ job' = [job EXCEPT ![w].number = membershipSeq + 1, ![w].at = "receipt"]
    /\ UNCHANGED <<member, trail, payments, order, receiptSeq, today, aborts>>

NextReceipt_Count == Cardinality(payments) + 1
NextReceipt == receiptSeq + 1

AllocateReceipt(w) ==
    /\ At(w, PayOps \cup {"upgrade"}, "receipt")
    /\ receiptSeq' = receiptSeq + 1
    /\ job' = [job EXCEPT ![w].receipt = NextReceipt, ![w].at = "commit"]
    /\ UNCHANGED <<member, trail, payments, order, membershipSeq, today, aborts>>

Payment(w) == [receipt |-> job[w].receipt, m |-> job[w].m, g |-> job[w].g, plan |-> job[w].quoted,
               kind |-> IF Activates(w) THEN "registration" ELSE "renewal"]

\* What activateMemberOnce with awardBatchRewardForTier, and a renewal, leave.
ActivatedRow(w) ==
    LET joining == IF job[w].joining = None THEN job[w].day ELSE job[w].joining IN
    [member[job[w].m] EXCEPT !.status = "ACTIVE", !.number = job[w].number, !.joining = joining,
                             !.until = EndOfValidity(job[w].plan, joining),
                             !.rewards = @ \cup TiersUpTo(job[w].plan)]
RenewedRow(w) ==
    [member[job[w].m] EXCEPT !.status = "ACTIVE", !.until = EndOfValidity(job[w].plan, job[w].day)]

PaymentIsNew_Always(g) == TRUE
PaymentIsNew(g) == g = None \/ ~Recorded(g)

HistoryFrom_Active(w) == "ACTIVE"
HistoryFrom(w) == job[w].status

\* payment.create, the history rows (RENEWED is passed through) and COMMIT.
FinalizeCommit(w) ==
    /\ At(w, PayOps, "commit") /\ PaymentIsNew(job[w].g)
    /\ payments' = payments \cup {Payment(w)}
    /\ member' = [member EXCEPT ![job[w].m] = IF Activates(w) THEN ActivatedRow(w) ELSE RenewedRow(w)]
    /\ MoveTrail(job[w].m, HistoryFrom(w), "ACTIVE")
    /\ IF Activates(w) THEN Goto(w, "award") ELSE Finish(w)
    /\ UNCHANGED <<order, membershipSeq, receiptSeq, today, aborts>>

FinalizeDuplicate_NoRollback(w) ==
    /\ At(w, PayOps, "commit") /\ ~PaymentIsNew(job[w].g)
    /\ member' = [member EXCEPT ![job[w].m] = RenewedRow(w)]
    /\ Finish(w)
    /\ UNCHANGED <<trail, payments, order, membershipSeq, receiptSeq, today, aborts>>

\* gatewayPaymentId is unique: P2002, everything is rolled back, and the
\* recorded payment is answered.
FinalizeDuplicate(w) ==
    /\ At(w, PayOps, "commit") /\ ~PaymentIsNew(job[w].g)
    /\ Finish(w)
    /\ UNCHANGED database

\* After the commit: awardPointsForApproval (the award itself is not modelled).
AwardPoints(w) ==
    /\ At(w, PayOps, "award")
    /\ member' = [member EXCEPT ![job[w].m].awards = IF Exists(job[w].m) THEN @ + 1 ELSE @]
    /\ Finish(w)
    /\ UNCHANGED <<trail, payments, order, membershipSeq, receiptSeq, today, aborts>>

-----------------------------------------------------------------------------
(* PaymentsService.upgradePlan.                                            *)

UpgradeRead(w, m, p) ==
    /\ "upgrade" \in Handlers /\ ReceiptLeft
    /\ member[m].status = "ACTIVE" /\ member[m].plan # None /\ IsUpgrade(member[m].plan, p)
    /\ Begin(w, [op |-> "upgrade", at |-> "cas", m |-> m, plan |-> member[m].plan, fee |-> EffectiveFee(m),
                 to |-> p, receipt |-> None])
    /\ UNCHANGED database

\* The compare-and-swap compares the status and the plan, not the fee.
UpgradeMatches_NoPlan(w) == member[job[w].m].status = "ACTIVE"
UpgradeMatches(w) == member[job[w].m].status = "ACTIVE" /\ member[job[w].m].plan = job[w].plan

UpgradeCas(w) ==
    /\ At(w, {"upgrade"}, "cas") /\ ~Locked(job[w].m)
    /\ IF UpgradeMatches(w)
       THEN Goto(w, IF Fee[job[w].to] > job[w].fee THEN "receipt" ELSE "commit")
       ELSE Finish(w)
    /\ UNCHANGED database

\* The history row is from ACTIVE to ACTIVE.
UpgradeCommit(w) ==
    /\ At(w, {"upgrade"}, "commit")
    /\ member' = [member EXCEPT ![job[w].m].plan = job[w].to, ![job[w].m].override = None,
                                ![job[w].m].rewards = @ \cup TiersUpTo(job[w].to)]
    /\ payments' = IF job[w].receipt = None THEN payments
                   ELSE payments \cup {[receipt |-> job[w].receipt, m |-> job[w].m, g |-> None,
                                        plan |-> job[w].to, kind |-> "upgrade"]}
    /\ Finish(w)
    /\ UNCHANGED <<trail, order, membershipSeq, receiptSeq, today, aborts>>

-----------------------------------------------------------------------------
(* MemberExpiryScheduler.expireOverdueMembers, daily, in one process.      *)

OverdueMembers_Yesterday == {m \in Members : IsOverdue(m) /\ member[m].until = today - 1}
OverdueMembers == {m \in Members : IsOverdue(m)}

SweepFind(w) ==
    /\ "sweep" \in Handlers
    /\ \A v \in Workers : job[v].op # "sweep"
    /\ OverdueMembers # {}
    /\ Begin(w, [op |-> "sweep", at |-> "expire", todo |-> OverdueMembers, m |-> None])
    /\ UNCHANGED database

\* The next member, or the end of the job.
Continue(w, todo) ==
    IF todo = {} THEN Finish(w)
    ELSE job' = [job EXCEPT ![w] = [op |-> "sweep", at |-> "expire", todo |-> todo, m |-> None]]

SweepExpire(w, m) ==
    /\ At(w, {"sweep"}, "expire") /\ m \in job[w].todo /\ ~Locked(m)
    /\ IF member[m].status = "ACTIVE"
       THEN /\ member' = [member EXCEPT ![m].status = "EXPIRED"]
            /\ job' = [job EXCEPT ![w].at = "history", ![w].m = m, ![w].todo = @ \ {m}]
       ELSE Continue(w, job[w].todo \ {m}) /\ UNCHANGED member
    /\ UNCHANGED <<trail, payments, order, membershipSeq, receiptSeq, today, aborts>>

\* Not in a transaction with the update; if the row is gone the job fails.
SweepHistory(w) ==
    /\ At(w, {"sweep"}, "history")
    /\ IF Exists(job[w].m)
       THEN MoveTrail(job[w].m, "ACTIVE", "EXPIRED") /\ Continue(w, job[w].todo)
       ELSE Finish(w) /\ UNCHANGED trail
    /\ UNCHANGED <<member, payments, order, membershipSeq, receiptSeq, today, aborts>>

-----------------------------------------------------------------------------
(* ApplicationsService: suspend and reactivate read the status that their  *)
(* compare-and-swap reads again; markDeceased keeps the one it read first. *)

Transition(m, from, to) ==
    /\ member[m].status = from /\ ~Locked(m)
    /\ member' = [member EXCEPT ![m].status = to]
    /\ MoveTrail(m, from, to)
    /\ UNCHANGED <<payments, order, membershipSeq, receiptSeq, job, today, aborts>>

Suspend(m) == "suspend" \in Handlers /\ Transition(m, "ACTIVE", "SUSPENDED")
Reactivate(m) == Transition(m, "SUSPENDED", "ACTIVE")

DeceasedRead(w, m) ==
    /\ "deceased" \in Handlers
    /\ member[m].status \in {"ACTIVE", "SUSPENDED"}
    /\ Begin(w, [op |-> "deceased", m |-> m, status |-> member[m].status])
    /\ UNCHANGED database

DeceasedCas(w) ==
    /\ job[w].op = "deceased" /\ ~Locked(job[w].m)
    /\ IF member[job[w].m].status \in {"ACTIVE", "SUSPENDED"}
       THEN /\ member' = [member EXCEPT ![job[w].m].status = "DECEASED"]
            /\ MoveTrail(job[w].m, job[w].status, "DECEASED")
       ELSE UNCHANGED <<member, trail>>
    /\ Finish(w)
    /\ UNCHANGED <<payments, order, membershipSeq, receiptSeq, today, aborts>>

NextDay ==
    /\ today < MaxDay
    /\ today' = today + 1
    /\ UNCHANGED <<member, trail, payments, order, membershipSeq, receiptSeq, job, aborts>>

-----------------------------------------------------------------------------
Start(w) ==
    \/ \E m \in Members, p \in Plans : SelectPlanRead(w, m, p) \/ UpgradeRead(w, m, p)
    \/ \E m \in Members, sets \in PlanColumns, p \in Plans \cup {None}, o \in Overrides \cup {None} :
          EditPlanRead(w, m, sets, p, o)
    \/ \E m \in Members :
          SubmitRead(w, m) \/ RemoveRead(w, m) \/ RecordPaymentRead(w, m) \/ DeceasedRead(w, m)
    \/ \E g \in Captures, op \in {"verify", "webhook"} : GatewayFind(w, op, g)
    \/ SweepFind(w)

Proceed(w) ==
    \/ PlanWrite(w) \/ SubmitCas(w) \/ SubmitHistory(w) \/ RemoveWrite(w)
    \/ GatewayReadMember(w) \/ FinalizeCas(w) \/ AllocateMembershipNumber(w) \/ AllocateReceipt(w)
    \/ FinalizeCommit(w) \/ FinalizeDuplicate(w) \/ AwardPoints(w)
    \/ UpgradeCas(w) \/ UpgradeCommit(w)
    \/ \E m \in Members : SweepExpire(w, m)
    \/ SweepHistory(w) \/ DeceasedCas(w)

Environment ==
    \/ \E m \in Members, g \in Captures : CreateOrder(m, g)
    \/ \E g \in Captures : Capture(g)
    \/ \E m \in Members : Suspend(m) \/ Reactivate(m)
    \/ NextDay

Next ==
    \/ \E w \in Workers : Start(w) \/ Proceed(w) \/ Abort(w)
    \/ Environment

Spec == Init /\ [][Next]_vars

\* A handler that runs goes on to its end, and the daily job runs again and
\* again (strong: a worker may be busy with something else now and then).
Fairness ==
    /\ \A w \in Workers : WF_vars(Proceed(w))
    /\ SF_vars(\E w \in Workers : SweepFind(w))

FairSpec == Spec /\ Fairness

-----------------------------------------------------------------------------
(* Types.                                                                  *)

MemberRow == [status : Status, plan : Plans \cup {None}, override : Nat \cup {None},
              joining : Nat \cup {None}, until : Nat \cup {None}, number : Nat \cup {None},
              rewards : SUBSET Nat, awards : Nat]
PaymentRow == [receipt : Nat, m : Members, g : Captures \cup {None}, plan : Plans,
               kind : {"registration", "renewal", "upgrade"}]
OrderRow == {NoOrder} \cup
    [state : {"created", "captured"}, m : Members, plan : Plans]
\* What finalizePayment works with, at first with a member not read yet.
PayJobs(ops, ats, gs, plans, statuses, numbers, receipts) ==
    [op : ops, at : ats, m : Members, g : gs, quoted : Plans, day : Nat, status : statuses,
     plan : plans, joining : Nat \cup {None}, until : Nat \cup {None},
     number : numbers, receipt : receipts]
Job ==
    [op : {"idle"}] \cup
    [op : {"plan"}, m : Members, sets : PlanColumns, plan : Plans \cup {None}, override : Nat \cup {None},
     joining : Nat \cup {None}] \cup
    [op : {"submit"}, at : {"cas", "history"}, m : Members] \cup
    [op : {"remove"} \cap Handlers, m : Members] \cup
    PayJobs({"verify", "webhook"}, {"member"}, Captures, Plans \cup {None}, Status, {None}, {None}) \cup
    PayJobs(PayOps, {"cas", "number"}, Captures \cup {None}, Plans, PayableStatuses, {None}, {None}) \cup
    PayJobs(PayOps, {"receipt"}, Captures \cup {None}, Plans, PayableStatuses, Nat \cup {None}, {None}) \cup
    PayJobs(PayOps, {"commit", "award"}, Captures \cup {None}, Plans, PayableStatuses, Nat \cup {None}, Nat) \cup
    [op : {"upgrade"}, at : {"cas", "receipt"}, m : Members, plan : Plans, fee : Nat, to : Plans,
     receipt : {None}] \cup
    [op : {"upgrade"}, at : {"commit"}, m : Members, plan : Plans, fee : Nat, to : Plans,
     receipt : Nat \cup {None}] \cup
    [op : {"sweep"}, at : {"expire"}, todo : SUBSET Members, m : {None}] \cup
    [op : {"sweep"}, at : {"history"}, todo : SUBSET Members, m : Members] \cup
    [op : {"deceased"} \cap Handlers, m : Members, status : {"ACTIVE", "SUSPENDED"}]

\* Every variable has its type.
TypeOK ==
    /\ member \in [Members -> MemberRow]
    /\ trail \in [Members -> [Status -> Int]]
    /\ payments \subseteq PaymentRow
    /\ order \in [Captures -> OrderRow]
    /\ membershipSeq \in Nat /\ receiptSeq \in Nat
    /\ job \in [Workers -> Job]
    /\ today \in Nat /\ aborts \in Nat

-----------------------------------------------------------------------------
(* Safety.                                                                 *)

PaymentsOf(m) == {p \in payments : p.m = m}
FeesOf(m) == {p \in PaymentsOf(m) : p.kind # "upgrade"}

\* However often verify and the webhook report a captured payment, at the same
\* time and again, it has one row; and no receipt or membership number is
\* given out twice (schema.prisma: gatewayPaymentId is the idempotency key).
RecordedOnce ==
    /\ \A p, q \in payments : p.receipt = q.receipt \/ (p.g = q.g /\ p.g # None) => p = q
    /\ \A m, n \in Members : member[m].number = member[n].number /\ member[m].number # None => m = n

\* A member is activated by one registration fee, whichever routes compete to
\* record it: it has a membership number exactly when that fee is recorded,
\* and the referral award is made once (referrals.service.ts: "both call sites
\* guarantee single-fire").
ActivatedOnce ==
    \A m \in Members :
        /\ Cardinality({p \in PaymentsOf(m) : p.kind = "registration"})
              = IF member[m].number = None THEN 0 ELSE 1
        /\ member[m].awards <= IF member[m].number = None THEN 0 ELSE 1

\* A lost race never burns a membership number (member-activation.util.ts):
\* without crashes and deletions every number taken from the sequence is on a
\* member or about to be.
Numbered == {m \in Members : member[m].number # None}
Holding == {w \in Workers : InTx(w) /\ job[w].op # "upgrade" /\ job[w].number # None}
MembershipSeriesDense == aborts = 0 => membershipSeq = Cardinality(Numbered) + Cardinality(Holding)

\* A member becomes ACTIVE from AWAITING_PAYMENT or EXPIRED only in a step that
\* records a fee of that member, and from SUSPENDED only by staff, never by a
\* fee whose handler read an earlier status; DECEASED is final.
StatusChanges ==
    [][\A m \in Members :
         LET from == member[m].status
             to == member'[m].status
             paid == \E p \in payments' \ payments : p.m = m
         IN  \/ from = to
             \/ from = "DRAFT" /\ to = "AWAITING_PAYMENT"
             \/ from \in {"AWAITING_PAYMENT", "EXPIRED"} /\ to = "ACTIVE" /\ paid
             \/ from = "SUSPENDED" /\ to = "ACTIVE" /\ ~paid
             \/ from = "ACTIVE" /\ to \in {"EXPIRED", "SUSPENDED", "DECEASED"}
             \/ from = "SUSPENDED" /\ to = "DECEASED"]_vars

\* The status history accounts for the status: without crashes, and once no
\* handler still owes its row, the rows lead from DRAFT to the member's status,
\* in whatever order sweep, renewals and staff interleaved.
Owed(m) == {w \in Workers : At(w, {"submit", "sweep"}, "history") /\ job[w].m = m}
TrailAccountsForStatus ==
    \A m \in Members :
        aborts = 0 /\ Exists(m) /\ Owed(m) = {} =>
            \A s \in Status :
                trail[m][s] = (IF s = member[m].status THEN 1 ELSE 0) - (IF s = "DRAFT" THEN 1 ELSE 0)

\* Of two upgrades of one member at the same time only one happens: an upgrade
\* changes the plan of an ACTIVE member only if the row, locked until the
\* commit, still has the plan whose tier and fee the upgrade went by.  It does
\* not follow that the amount is right: a feeOverride written since the read, by
\* an edit that found a draft, is not compared.
UpgradePricedFromPlan ==
    [][\A w \in Workers :
         At(w, {"upgrade"}, "commit") /\ member'[job[w].m].plan # member[job[w].m].plan =>
             member[job[w].m].plan = job[w].plan /\ member[job[w].m].status = "ACTIVE"]_vars

\* The fees of FeeCollection: a capture is taken once, a membership begins once
\* and its end moves only in a step that takes a fee.
Fees == INSTANCE FeeCollection WITH
    taken <- {g \in Captures : Recorded(g)},
    fees <- [m \in Members |-> Cardinality(FeesOf(m))],
    number <- [m \in Members |-> member[m].number],
    until <- [m \in Members |-> member[m].until]
FeesSpec == Fees!Spec

\* Liveness: a membership that has lapsed is expired, or has been renewed or
\* taken out of ACTIVE by staff (member-expiry.scheduler.ts: "a lapsed ACTIVE
\* member otherwise stays ACTIVE forever").
LapsedExpires == \A m \in Members : IsOverdue(m) ~> ~IsOverdue(m)

-----------------------------------------------------------------------------
(* What makes the safety properties inductive.                             *)

\* A member has a number from the activation on, and before it neither a
\* payment nor an award; the first payment is of the one registration fee.
ActivatedStatuses == {"ACTIVE", "EXPIRED", "SUSPENDED", "DECEASED"}
NumberedOnceActivated == \A m \in Members : member[m].number # None <=> member[m].status \in ActivatedStatuses
UnpaidUntilActivated == \A m \in Members : member[m].number = None => PaymentsOf(m) = {} /\ member[m].awards = 0
OneRegistration ==
    /\ \A m \in Members : member[m].number # None => \E p \in PaymentsOf(m) : p.kind = "registration"
    /\ \A p, q \in payments : p.m = q.m /\ p.kind = "registration" /\ q.kind = "registration" => p = q

\* While a transaction is open its member's row is what its compare-and-swap
\* found, and it is the only one of that member.
TransactionsHold ==
    \A w \in Workers : InTx(w) =>
        /\ IF job[w].op = "upgrade"
           THEN member[job[w].m].status = "ACTIVE" /\ member[job[w].m].plan = job[w].plan
           ELSE member[job[w].m].status = job[w].status
        /\ \A v \in Workers : InTx(v) /\ job[v].m = job[w].m => v = w

\* The numbers given out, on rows and in open transactions, are all different
\* and not ahead of their counters; an activation holds one once it is past
\* the counter.
Numbering(w) == InTx(w) /\ job[w].op \in PayOps /\ job[w].number # None
NumbersIssued ==
    /\ \A m \in Members : member[m].number # None => member[m].number <= membershipSeq
    /\ \A w \in Workers : Numbering(w) =>
          /\ job[w].number <= membershipSeq
          /\ \A m \in Members : member[m].number # job[w].number
          /\ \A v \in Workers : Numbering(v) /\ job[v].number = job[w].number => v = w
    /\ \A w \in Workers : InTx(w) /\ job[w].op \in PayOps =>
          (Activates(w) <=> job[w].at = "number" \/ job[w].number # None)

Receipting(w) == InTx(w) /\ job[w].receipt # None
ReceiptsIssued ==
    /\ \A p \in payments : p.receipt <= receiptSeq
    /\ \A w \in Workers : Receipting(w) =>
          /\ job[w].receipt <= receiptSeq
          /\ \A p \in payments : p.receipt # job[w].receipt
          /\ \A v \in Workers : Receipting(v) /\ job[v].receipt = job[w].receipt => v = w

\* The award of an activation is owed by one worker, which has yet to make it.
AwardsOwed ==
    \A w \in Workers : At(w, PayOps, "award") =>
        /\ member[job[w].m].awards = 0
        /\ Exists(job[w].m) => member[job[w].m].number # None
        /\ \A v \in Workers : At(v, PayOps, "award") /\ job[v].m = job[w].m => v = w

AwardedOnce == \A m \in Members : member[m].awards <= 1

MembershipInv ==
    /\ TypeOK /\ IsFiniteSet(payments) /\ RecordedOnce /\ AwardedOnce
    /\ NumberedOnceActivated /\ UnpaidUntilActivated /\ OneRegistration
    /\ TransactionsHold /\ NumbersIssued /\ ReceiptsIssued /\ AwardsOwed

\* A payment that came through Razorpay is of the member whose order was captured.
Captured(g, m) == g # None => order[g].state = "captured" /\ order[g].m = m
CapturesKept ==
    /\ \A p \in payments : Captured(p.g, p.m)
    /\ \A w \in Workers : job[w].op \in PayOps => Captured(job[w].g, job[w].m)

SeriesKept ==
    /\ CapturesKept
    /\ aborts = 0 => IsFiniteSet(Numbered) /\ IsFiniteSet(Holding)
    /\ MembershipSeriesDense

\* The history rows that are there and those still owed, of a submission and of
\* the daily job, lead from DRAFT to the status.  There is one of each at most.
Owes(w, op, m) == At(w, {op}, "history") /\ job[w].m = m
Moved(s, from, to) == (IF s = to THEN 1 ELSE 0) - (IF s = from THEN 1 ELSE 0)
OwedMove(op, m, s, from, to) == IF \E w \in Workers : Owes(w, op, m) THEN Moved(s, from, to) ELSE 0
TrailLeads(m) ==
    \A s \in Status :
        trail[m][s] + OwedMove("submit", m, s, "DRAFT", "AWAITING_PAYMENT") + OwedMove("sweep", m, s, "ACTIVE", "EXPIRED")
            = Moved(s, "DRAFT", member[m].status)
OneSweep == \A v, w \in Workers : job[v].op = "sweep" /\ job[w].op = "sweep" => v = w
TrailKept ==
    /\ OneSweep
    /\ \A v, w \in Workers, m \in Members : Owes(v, "submit", m) /\ Owes(w, "submit", m) => v = w
    /\ \A w \in Workers, m \in Members : Owes(w, "submit", m) => member[m].status # "DRAFT"
    /\ aborts = 0 => \A m \in Members : Exists(m) => TrailLeads(m)

=============================================================================
