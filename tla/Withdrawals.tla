---------------------------- MODULE Withdrawals ----------------------------
(***************************************************************************)
(* The points wallet and the withdrawal requests of NMMS: WithdrawalsService *)
(* and PayoutGatewayService over PostgreSQL at READ COMMITTED, and the      *)
(* RazorpayX service they transfer money with.                              *)
(*                                                                         *)
(* Every HTTP request (of a member, of staff, of RazorpayX's webhook) is    *)
(* run by one of Workers.  A worker takes one step per database statement   *)
(* or call whose result another worker's step may change; what it has read  *)
(* so far is in job[w].  An interactive transaction shows its writes in its *)
(* last step only; the one lock a transaction takes before that is          *)
(* settingsLock.                                                            *)
(*                                                                         *)
(* Abstractions: the organization's min/max amount and conversion ratio are *)
(* the set WithdrawablePoints, a request's netAmount is NetAmount[points],  *)
(* a payout destination (bank account or UPI id) is a member of Accounts.   *)
(***************************************************************************)
EXTENDS Integers, FiniteSets, Functions

CONSTANTS
    Members, Requests, Payouts, Workers, Accounts,
    None,                 \* a null column, an unset local
    WithdrawablePoints,   \* point counts whose gross amount is within min..max
    LegacyPoints,         \* those of requests older than the payout snapshot
    NetAmount,            \* point count -> amount paid out after the charge
    FrequencyDays,        \* withdrawalFrequencyDays, 0 for null
    IdentityOnFile,       \* members whose Aadhaar/PAN meets the org's KYC rules
    BankOrUpiRequired,    \* kycRequireBankOrUpi
    GatewayEnabled,       \* PAYMENT_GATEWAY_PAYOUTS is on and configured
    Reversals,            \* RazorpayX may reverse a payout it processed
    UpsertLocksRow,       \* orgSettings.upsert() updates, so locks, the row
    MaxBalance, MaxDay, MaxAborts       \* bounds of the model

ASSUME NoneAssumption ==
    None \notin Members \cup Requests \cup Payouts \cup Workers \cup Accounts \cup {"staff", "gateway"}
ASSUME AmountsAssumption ==
    /\ WithdrawablePoints \subseteq Nat \ {0}
    /\ NetAmount \in [WithdrawablePoints -> Nat]
    /\ LegacyPoints \subseteq WithdrawablePoints
ASSUME BoundsAssumption ==
    /\ FrequencyDays \in Nat
    /\ MaxBalance \in Nat /\ MaxDay \in Nat /\ MaxAborts \in Nat

VARIABLES
    member,        \* [Members -> the columns of Member a withdrawal touches]
    req,           \* [Requests -> WithdrawalRequest row], status NONE: no row
    debits,        \* requests with a WITHDRAWAL_CONVERTED ledger row
    payout,        \* [Payouts -> RazorpayX's own record of a transfer]
    job,           \* [Workers -> what the request handler is doing]
    settingsLock,  \* the worker whose transaction locks the OrgSettings row
    today,         \* days since the epoch of the model
    aborts         \* handlers that failed or crashed so far

vars == <<member, req, debits, payout, job, settingsLock, today, aborts>>

-----------------------------------------------------------------------------
(* Statuses and rows.  A definition named after another one with a suffix  *)
(* (LOCKED_STATUSES_NoApproved) is not part of the model: it is what that  *)
(* one would be with a plausible bug, see "mutants" in PROJECT.json.       *)

LOCKED_STATUSES_NoApproved == {"PENDING", "PAYOUT_PROCESSING"}
LOCKED_STATUSES == {"PENDING", "APPROVED", "PAYOUT_PROCESSING"}
PAYABLE_STATUSES == {"APPROVED", "PAYOUT_FAILED"}
BLOCKED_STATUSES == {"SUSPENDED", "DECEASED", "REJECTED"}

RequestStatus == {"NONE", "APPROVED", "PAYOUT_PROCESSING", "PAYOUT_FAILED", "PAID"}

NoRequest == [status |-> "NONE", member |-> None, points |-> 0, acct |-> None,
              day |-> 0, payoutId |-> None, paidBy |-> None]
NewRequest(m, n, acct) ==
    [status |-> "APPROVED", member |-> m, points |-> n, acct |-> acct,
     day |-> today, payoutId |-> None, paidBy |-> None]
\* A bank request approved before the account number was stored with it: the
\* migration that added the column left it null.
LegacyRequest(m, n) ==
    [status |-> "APPROVED", member |-> m, points |-> n, acct |-> None,
     day |-> 0, payoutId |-> None, paidBy |-> None]
LegacyRequests == {LegacyRequest(m, n) : m \in Members, n \in LegacyPoints}
NoPayout == [state |-> "none", req |-> None, acct |-> None]

Rows == {r \in Requests : req[r].status # "NONE"}
RequestsOf(m) == {r \in Rows : req[r].member = m}
SumPoints(S) == SumFunctionOnSet([r \in S |-> req[r].points], S)
SumPaidOut(S) == SumFunctionOnSet([r \in S |-> NetAmount[req[r].points]], S)
PaidOf(m) == {r \in RequestsOf(m) : req[r].status = "PAID"}
LockedOf(m) == {r \in RequestsOf(m) : req[r].status \in LOCKED_STATUSES}
LockedPoints(m) == SumPoints(LockedOf(m))

IsAmountAllowed(n) == n \in WithdrawablePoints
IsKycComplete(m, acct) == m \in IdentityOnFile /\ (BankOrUpiRequired => acct # None)
FrequencyAllows_DayEarly(m) == \A r \in RequestsOf(m) : today - req[r].day >= FrequencyDays - 1
FrequencyAllows(m) == \A r \in RequestsOf(m) : today - req[r].day >= FrequencyDays
IsPayoutEligible(m) == member[m].status \notin BLOCKED_STATUSES

LivePayouts(r) == {p \in Payouts : payout[p].req = r /\ payout[p].state \in {"processing", "processed"}}

DaysApart(r, q) == req[r].day - req[q].day >= FrequencyDays \/ req[q].day - req[r].day >= FrequencyDays

\* Finitely many requests of before the snapshot, made under the same frequency
\* rule, with points their members earned and payout details they saved.
Init ==
    /\ req \in [Requests -> {NoRequest} \cup LegacyRequests]
    /\ IsFiniteSet(Rows)
    /\ \A r, q \in Rows : r # q /\ req[r].member = req[q].member => DaysApart(r, q)
    /\ \E acct \in [Members -> Accounts \cup {None}] :
          /\ \A m \in Members : acct[m] = None <=> RequestsOf(m) = {}
          /\ member = [m \in Members |-> [status |-> "ACTIVE", balance |-> LockedPoints(m), converted |-> 0,
                                          withdrawn |-> 0, acct |-> acct[m]]]
    /\ debits = {}
    /\ payout = [p \in Payouts |-> NoPayout]
    /\ job = [w \in Workers |-> [op |-> "idle"]]
    /\ settingsLock = None
    /\ today = 0
    /\ aborts = 0

-----------------------------------------------------------------------------
(* Worker bookkeeping.                                                     *)

Idle(w) == job[w].op = "idle"
At(w, op, at) == job[w].op = op /\ job[w].at = at
Begin(w, j) == Idle(w) /\ job' = [job EXCEPT ![w] = j] /\ UNCHANGED settingsLock
Goto(w, at) == job' = [job EXCEPT ![w].at = at] /\ UNCHANGED settingsLock
\* The handler returns or throws; its transaction, and so its lock, ends.
Finish(w) ==
    /\ job' = [job EXCEPT ![w] = [op |-> "idle"]]
    /\ settingsLock' = IF settingsLock = w THEN None ELSE settingsLock

\* The handler dies before its next step: the process crashes, the transaction
\* times out, or RazorpayX's answer to a call it did carry out is lost.
Abort(w) ==
    /\ ~Idle(w) /\ aborts < MaxAborts
    /\ aborts' = aborts + 1
    /\ Finish(w)
    /\ UNCHANGED <<member, req, debits, payout, today>>

-----------------------------------------------------------------------------
(* createRequest: one transaction of four statements.                      *)

Creating == {w \in Workers : job[w].op = "create"}

\* MemberJwtStrategy lets the member in; the transaction reads the member row.
\* (Bound: there is a request id left for every request being created.)
CreateReadMember(w, m, n) ==
    /\ member[m].status \notin BLOCKED_STATUSES
    /\ Cardinality(Requests \ Rows) > Cardinality(Creating)
    /\ Begin(w, [op |-> "create", at |-> "settings", m |-> m, n |-> n,
                 unspent |-> member[m].balance - member[m].converted, acct |-> member[m].acct])
    /\ UNCHANGED <<member, req, debits, payout, today, aborts>>

\* getSettings, the KYC gates, min/max and the frequency rule.  kycStatus is
\* VERIFIED exactly when payout details were saved.
CreateReadSettings(w) ==
    /\ At(w, "create", "settings")
    /\ UpsertLocksRow => settingsLock = None
    /\ LET allowed == /\ job[w].acct # None
                      /\ IsKycComplete(job[w].m, job[w].acct)
                      /\ IsAmountAllowed(job[w].n)
                      /\ FrequencyAllows(job[w].m)
       IN  \/ /\ allowed
              /\ job' = [job EXCEPT ![w].at = "locked"]
              /\ settingsLock' = IF UpsertLocksRow THEN w ELSE settingsLock
           \/ ~allowed /\ Finish(w)
    /\ UNCHANGED <<member, req, debits, payout, today, aborts>>

\* getLockedPoints and the balance check, against the member row read earlier.
CreateCheckBalance(w) ==
    /\ At(w, "create", "locked")
    /\ \/ job[w].n <= job[w].unspent - LockedPoints(job[w].m) /\ Goto(w, "insert")
       \/ job[w].n > job[w].unspent - LockedPoints(job[w].m) /\ Finish(w)
    /\ UNCHANGED <<member, req, debits, payout, today, aborts>>

\* The row is inserted APPROVED, with the payout destination of the first read.
CreateInsert(w) ==
    /\ At(w, "create", "insert")
    /\ \E r \in Requests \ Rows :
          req' = [req EXCEPT ![r] = NewRequest(job[w].m, job[w].n, job[w].acct)]
    /\ Finish(w)
    /\ UNCHANGED <<member, debits, payout, today, aborts>>

-----------------------------------------------------------------------------
(* Settlement, and markPaid, the manual one.                               *)

\* The CAS to PAID and applyPaidSideEffects, in one transaction.  The ledger
\* row's unique key rolls all of it back if the request was debited before.
CanSettle_NoCas(r, from) == req[r].status # "NONE"
CanSettle(r, from) == req[r].status \in from /\ r \notin debits

ApplyPaidSideEffects_GrossAmount(r) ==
    /\ member' = [member EXCEPT ![req[r].member].converted = @ + req[r].points,
                                ![req[r].member].withdrawn = @ + NetAmount[req[r].points] + 1]
    /\ debits' = debits \cup {r}
ApplyPaidSideEffects(r) ==
    /\ member' = [member EXCEPT ![req[r].member].converted = @ + req[r].points,
                                ![req[r].member].withdrawn = @ + NetAmount[req[r].points]]
    /\ debits' = debits \cup {r}

Settle(w, r, from, by) ==
    /\ \/ /\ CanSettle(r, from)
          /\ req' = [req EXCEPT ![r].status = "PAID", ![r].paidBy = by]
          /\ ApplyPaidSideEffects(r)
       \/ ~CanSettle(r, from) /\ UNCHANGED <<req, member, debits>>
    /\ Finish(w)
    /\ UNCHANGED <<payout, today, aborts>>

\* assertMemberPayoutEligible, read outside any transaction.
ProceedIfEligible(w, at) ==
    /\ \/ IsPayoutEligible(req[job[w].r].member) /\ Goto(w, at)
       \/ ~IsPayoutEligible(req[job[w].r].member) /\ Finish(w)
    /\ UNCHANGED <<member, req, debits, payout, today, aborts>>

MarkPaidFind(w, r) ==
    /\ r \in Rows
    /\ Begin(w, [op |-> "markPaid", at |-> "eligible", r |-> r])
    /\ UNCHANGED <<member, req, debits, payout, today, aborts>>

MarkPaidCheckEligible(w) == At(w, "markPaid", "eligible") /\ ProceedIfEligible(w, "cas")

MarkPaidCas(w) == At(w, "markPaid", "cas") /\ Settle(w, job[w].r, PAYABLE_STATUSES, "staff")

-----------------------------------------------------------------------------
(* initiatePayout: the transfer is created first, the row is updated after. *)

\* The request is read with its member, and so with today's payout details.
InitiateRead(w, r) ==
    /\ GatewayEnabled /\ req[r].status \in PAYABLE_STATUSES
    /\ Begin(w, [op |-> "initiate", at |-> "eligible", r |-> r, p |-> None,
                 current |-> member[req[r].member].acct])
    /\ UNCHANGED <<member, req, debits, payout, today, aborts>>

InitiateCheckEligible(w) == At(w, "initiate", "eligible") /\ ProceedIfEligible(w, "transfer")

\* The destination stored when the request was created; the one read with the
\* member only if none was stored.  (Of such a bank request the code takes the
\* account number from the member and the IFSC code from the request.)
PayoutDestination_Current(r, current) == current
PayoutDestination(r, current) == IF req[r].acct # None THEN req[r].acct ELSE current

\* RazorpayX, external: reference_id is the request's id, and a live payout of
\* that reference is returned instead of a second one being made.
CreatePayout(r, acct, p) ==
    \/ p \in LivePayouts(r) /\ UNCHANGED payout
    \/ /\ LivePayouts(r) = {} /\ payout[p].state = "none"
       /\ payout' = [payout EXCEPT ![p] = [state |-> "processing", req |-> r, acct |-> acct]]

InitiateTransfer(w) ==
    /\ At(w, "initiate", "transfer")
    /\ LET acct == PayoutDestination(job[w].r, job[w].current)
       IN  /\ acct # None
           /\ \E p \in Payouts : /\ CreatePayout(job[w].r, acct, p)
                                 /\ job' = [job EXCEPT ![w].at = "recheck", ![w].p = p]
    /\ UNCHANGED <<member, req, debits, settingsLock, today, aborts>>

\* RazorpayX refuses the contact, the fund account or the payout.
InitiateRefused(w) ==
    /\ At(w, "initiate", "transfer")
    /\ Finish(w)
    /\ UNCHANGED <<member, req, debits, payout, today, aborts>>

\* markPayoutProcessing, first half: the member is checked a second time.
InitiateRecheckEligible(w) == At(w, "initiate", "recheck") /\ ProceedIfEligible(w, "cas")

\* markPayoutProcessing, second half: the CAS that records the payout's id,
\* a unique column.
CanInitiate_NoCas(r, p) == req[r].status # "NONE"
CanInitiate(r, p) ==
    /\ req[r].status \in PAYABLE_STATUSES
    /\ \A q \in Requests \ {r} : req[q].payoutId # p

InitiateCas(w) ==
    LET r == job[w].r IN
    /\ At(w, "initiate", "cas")
    /\ IF CanInitiate(r, job[w].p)
       THEN req' = [req EXCEPT ![r].status = "PAYOUT_PROCESSING", ![r].payoutId = job[w].p]
       ELSE UNCHANGED req
    /\ Finish(w)
    /\ UNCHANGED <<member, debits, payout, today, aborts>>

-----------------------------------------------------------------------------
(* Payout results: from the webhook, or from the manual status check.      *)

\* What RazorpayX has sent webhooks about: any of them may come late, twice,
\* out of order, or never.
Announced(p) ==
    CASE payout[p].state = "processed" -> {"processed"}
      [] payout[p].state = "failed"    -> {"failed"}
      [] payout[p].state = "reversed"  -> {"processed", "reversed"}
      [] OTHER -> {}

\* applyPayoutResult branches on the status it was given.
ApplyJob(p, s) == [op |-> "apply", at |-> IF s = "processed" THEN "find" ELSE "fail", p |-> p, r |-> None]

HandleWebhook(w, p) ==
    /\ GatewayEnabled
    /\ \E s \in Announced(p) : Begin(w, ApplyJob(p, s))
    /\ UNCHANGED <<member, req, debits, payout, today, aborts>>

CheckStatus(w, r) ==
    /\ GatewayEnabled /\ req[r].payoutId # None
    /\ Begin(w, [op |-> "check", at |-> "poll", p |-> req[r].payoutId])
    /\ UNCHANGED <<member, req, debits, payout, today, aborts>>

IsFinal_QueuedToo(s) == TRUE
IsFinal_NotFailed(s) == s = "processed"
IsFinal(s) == s \in {"processed", "failed", "reversed"}

CheckStatusPoll(w) ==
    LET s == payout[job[w].p].state IN
    /\ At(w, "check", "poll")
    /\ \/ ~IsFinal(s) /\ Finish(w)
       \/ /\ IsFinal(s)
          /\ job' = [job EXCEPT ![w] = ApplyJob(job[w].p, s)]
          /\ UNCHANGED settingsLock
    /\ UNCHANGED <<member, req, debits, payout, today, aborts>>

\* markPaidFromPayout looks the request up by the payout's id...
PaidFromPayoutFind(w) ==
    /\ At(w, "apply", "find")
    /\ \/ \E r \in Requests : /\ req[r].payoutId = job[w].p
                              /\ job' = [job EXCEPT ![w].at = "cas", ![w].r = r]
                              /\ UNCHANGED settingsLock
       \/ (\A r \in Requests : req[r].payoutId # job[w].p) /\ Finish(w)
    /\ UNCHANGED <<member, req, debits, payout, today, aborts>>

\* ...and then compares its status, not the payout id, in the transaction.
PaidFromPayoutCas(w) == At(w, "apply", "cas") /\ Settle(w, job[w].r, {"PAYOUT_PROCESSING"}, "gateway")

CanFail_NoCas(r, p) == req[r].payoutId = p
CanFail(r, p) == req[r].payoutId = p /\ req[r].status = "PAYOUT_PROCESSING"

MarkPayoutFailed(w) ==
    /\ At(w, "apply", "fail")
    /\ req' = [r \in Requests |->
                 IF CanFail(r, job[w].p)
                 THEN [req[r] EXCEPT !.status = "PAYOUT_FAILED"] ELSE req[r]]
    /\ Finish(w)
    /\ UNCHANGED <<member, debits, payout, today, aborts>>

-----------------------------------------------------------------------------
(* RazorpayX's own steps, and what other components do to the member.      *)

PayoutOutcome(p, from, to) ==
    /\ payout[p].state = from
    /\ payout' = [payout EXCEPT ![p].state = to]
    /\ UNCHANGED <<member, req, debits, job, settingsLock, today, aborts>>

PayoutSettles(p) == PayoutOutcome(p, "processing", "processed") \/ PayoutOutcome(p, "processing", "failed")
PayoutReversed(p) == Reversals /\ PayoutOutcome(p, "processed", "reversed")

SetMember(m, row) ==
    /\ member' = [member EXCEPT ![m] = row]
    /\ UNCHANGED <<req, debits, payout, job, settingsLock, today, aborts>>

\* ApplicationsService: suspend, reactivate, markDeceased.
Suspend(m) == member[m].status = "ACTIVE" /\ SetMember(m, [member[m] EXCEPT !.status = "SUSPENDED"])
Reactivate(m) == member[m].status = "SUSPENDED" /\ SetMember(m, [member[m] EXCEPT !.status = "ACTIVE"])
MarkDeceased(m) == /\ member[m].status \in {"ACTIVE", "SUSPENDED"}
                   /\ SetMember(m, [member[m] EXCEPT !.status = "DECEASED"])
\* KycService.payoutUpdateData: the destination is replaced and VERIFIED at once.
SaveKyc(m, a) == SetMember(m, [member[m] EXCEPT !.acct = a])
\* ReferralsService.creditPoints, bounded by MaxBalance.
CreditPoints(m) == /\ member[m].balance < MaxBalance
                   /\ SetMember(m, [member[m] EXCEPT !.balance = @ + 1])

NextDay ==
    /\ today < MaxDay
    /\ today' = today + 1
    /\ UNCHANGED <<member, req, debits, payout, job, settingsLock, aborts>>

-----------------------------------------------------------------------------
Start(w) ==
    \/ \E m \in Members, n \in 1..MaxBalance : CreateReadMember(w, m, n)
    \/ \E r \in Requests : MarkPaidFind(w, r)
    \/ \E r \in Requests : InitiateRead(w, r)
    \/ \E r \in Requests : CheckStatus(w, r)
    \/ \E p \in Payouts : HandleWebhook(w, p)

Proceed(w) ==
    \/ CreateReadSettings(w)    \/ CreateCheckBalance(w)      \/ CreateInsert(w)
    \/ MarkPaidCheckEligible(w) \/ MarkPaidCas(w)
    \/ InitiateCheckEligible(w) \/ InitiateTransfer(w)        \/ InitiateRefused(w)
    \/ InitiateRecheckEligible(w) \/ InitiateCas(w)
    \/ CheckStatusPoll(w)
    \/ PaidFromPayoutFind(w)    \/ PaidFromPayoutCas(w)       \/ MarkPayoutFailed(w)

Environment ==
    \/ \E p \in Payouts : PayoutSettles(p) \/ PayoutReversed(p)
    \/ \E m \in Members : Suspend(m) \/ Reactivate(m) \/ MarkDeceased(m) \/ CreditPoints(m)
    \/ \E m \in Members, a \in Accounts : SaveKyc(m, a)
    \/ NextDay

Next ==
    \/ \E w \in Workers : Start(w) \/ Proceed(w) \/ Abort(w)
    \/ Environment

Spec == Init /\ [][Next]_vars

\* A handler that runs goes on to its end; RazorpayX decides every payout; and
\* staff press "Check Status" for a request they see in PAYOUT_PROCESSING.
Fairness ==
    /\ \A w \in Workers : WF_vars(Proceed(w))
    /\ \A p \in Payouts : WF_vars(PayoutSettles(p))
    /\ \A r \in Requests : SF_vars(req[r].status = "PAYOUT_PROCESSING" /\ \E w \in Workers : CheckStatus(w, r))

FairSpec == Spec /\ Fairness

\* Behaviours in which no request of a member is settled while the member is
\* creating another one.
QuietNext ==
    /\ Next
    /\ Creating # {} => \A m \in Members : member'[m].converted = member[m].converted
QuietSpec == Init /\ [][QuietNext]_vars

-----------------------------------------------------------------------------
(* Types.                                                                  *)

MemberRow == [status : {"ACTIVE"} \cup BLOCKED_STATUSES, balance : Nat, converted : Nat,
              withdrawn : Nat, acct : Accounts \cup {None}]
InsertedRow ==
    [status : RequestStatus \ {"NONE"}, member : Members, points : WithdrawablePoints,
     acct : Accounts \cup {None}, day : Nat, payoutId : Payouts \cup {None}, paidBy : {None, "staff", "gateway"}]
RequestRow == {NoRequest} \cup InsertedRow
CreatedPayout ==
    [state : {"processing", "processed", "failed", "reversed"}, req : Requests, acct : Accounts]
PayoutRow == {NoPayout} \cup CreatedPayout
\* What a handler knows grows as it proceeds: the create transaction has a
\* destination after the KYC gate, a payout id comes with the transfer.
Job ==
    [op : {"idle"}] \cup
    [op : {"create"}, at : {"settings"}, m : Members, n : Nat, unspent : Int, acct : Accounts \cup {None}] \cup
    [op : {"create"}, at : {"locked", "insert"}, m : Members, n : WithdrawablePoints, unspent : Int,
     acct : Accounts] \cup
    [op : {"markPaid"}, at : {"eligible", "cas"}, r : Requests] \cup
    [op : {"initiate"}, at : {"eligible", "transfer"}, r : Requests, p : {None},
     current : Accounts \cup {None}] \cup
    [op : {"initiate"}, at : {"recheck", "cas"}, r : Requests, p : Payouts,
     current : Accounts \cup {None}] \cup
    [op : {"check"}, at : {"poll"}, p : Payouts] \cup
    [op : {"apply"}, at : {"find", "fail"}, p : Payouts, r : {None}] \cup
    [op : {"apply"}, at : {"cas"}, p : Payouts, r : Requests]

\* Every variable has its type.
TypeOK ==
    /\ member \in [Members -> MemberRow]
    /\ req \in [Requests -> RequestRow]
    /\ debits \subseteq Requests
    /\ payout \in [Payouts -> PayoutRow]
    /\ job \in [Workers -> Job]
    /\ settingsLock \in Workers \cup {None}
    /\ today \in Nat /\ aborts \in Nat

-----------------------------------------------------------------------------
(* Safety.                                                                 *)

\* A request is PAID exactly when the ledger holds its one debit row
\* (schema.prisma: "exactly one ledger row per paid withdrawal").
PaidIffDebited == \A r \in Requests : req[r].status = "PAID" <=> r \in debits

\* What the member row says was converted and withdrawn is the sum over the
\* member's PAID requests, whichever of the two routes settled each of them.
TotalsMatchPaid ==
    \A m \in Members :
        /\ member[m].converted = SumPoints(PaidOf(m))
        /\ member[m].withdrawn = SumPaidOut(PaidOf(m))

\* No request is ever PAID twice, un-paid or rewritten: once inserted its owner,
\* points and destination stay, and once PAID nothing of it changes.
RequestHistory ==
    [][\A r \in Rows :
         /\ req'[r].member = req[r].member /\ req'[r].points = req[r].points
         /\ req'[r].acct = req[r].acct /\ req'[r].day = req[r].day
         /\ req[r].status = "PAID" => req'[r] = req[r]]_vars

\* The outcome on record is the outcome at RazorpayX: a request in
\* PAYOUT_FAILED had its recorded payout fail or be reversed, one PAID by the
\* gateway had its recorded payout processed, and one in PAYOUT_PROCESSING is
\* backed by a payout made for this very request.
PayoutOnRecord(r) == payout[req[r].payoutId]
OutcomesAreTrue ==
    \A r \in Requests :
        /\ req[r].payoutId # None => PayoutOnRecord(r).req = r
        /\ req[r].status = "PAYOUT_PROCESSING" => req[r].payoutId # None
        /\ req[r].status = "PAYOUT_FAILED" =>
              req[r].payoutId # None /\ PayoutOnRecord(r).state \in {"failed", "reversed"}
        /\ req[r].paidBy = "gateway" =>
              req[r].payoutId # None /\ PayoutOnRecord(r).state \in {"processed", "reversed"}

\* However often a payout is initiated for a request, at the same time or again
\* after a lost answer, at most one transfer of it is live (RazorpayX refuses a
\* second one of the same reference), and every transfer of a request that
\* recorded its destination went there, not to the one the member has since
\* switched to.  A request of before the snapshot has none to follow: its
\* transfer goes where the member's payout details of the moment say.
TransfersFollowRequest ==
    \A r \in Rows :
        /\ Cardinality(LivePayouts(r)) <= 1
        /\ \A p \in Payouts : payout[p].req = r /\ req[r].acct # None => payout[p].acct = req[r].acct

\* Points are never promised or paid out twice: what a member has converted and
\* what is locked in open requests was earned.
NeverOverdrawn ==
    \A m \in Members : member[m].converted + LockedPoints(m) <= member[m].balance

\* Two requests of one member are at least FrequencyDays apart.
FrequencyRespected ==
    \A r, q \in Rows : r # q /\ req[r].member = req[q].member => DaysApart(r, q)

\* The same points are never spent twice: conversions never exceed what the
\* member earned (withdrawals.service.ts:19-21, spec:463).
NoDoubleSpend == \A m \in Members : member[m].converted <= member[m].balance

-----------------------------------------------------------------------------
(* What the proofs add to make the safety invariants inductive: what a      *)
(* handler has learned stays true while other handlers run.                 *)

HandledRowsExist ==
    \A w \in Workers : job[w].op \in {"markPaid", "initiate"} => job[w].r \in Rows

\* A payout was made for a row, and the handler that made it knows whose it is.
PayoutsHaveRows ==
    /\ \A p \in Payouts : payout[p].state # "none" => payout[p].req \in Rows
    /\ \A w \in Workers : job[w].op = "initiate" /\ job[w].at \in {"recheck", "cas"}
          => payout[job[w].p].req = job[w].r

\* A final result a handler carries is still the payout's, and a handler that
\* found the request of a processed payout finds it in flight on it, or PAID.
ResultsStayTrue ==
    \A w \in Workers :
        /\ job[w].op = "check" => payout[job[w].p].state # "none"
        /\ At(w, "apply", "find") => payout[job[w].p].state = "processed"
        /\ At(w, "apply", "fail") => payout[job[w].p].state \in {"failed", "reversed"}
        /\ At(w, "apply", "cas") => /\ payout[job[w].p].state = "processed"
                                   /\ req[job[w].r].payoutId = job[w].p
                                   /\ req[job[w].r].status \in {"PAYOUT_PROCESSING", "PAID"}

NothingReversed == \A p \in Payouts : payout[p].state # "reversed"

\* Only a PAID request says who paid it; an APPROVED one has had no payout.
StatusShape ==
    \A r \in Requests : /\ req[r].paidBy # None => req[r].status = "PAID"
                        /\ req[r].status = "APPROVED" => req[r].payoutId = None

OneLivePayout ==
    \A p, q \in Payouts : payout[p].req = payout[q].req /\ payout[p].state \in {"processing", "processed"}
                         /\ payout[q].state \in {"processing", "processed"} => p = q

SnapshotKept ==
    \A p \in Payouts : payout[p].state # "none" /\ req[payout[p].req].acct # None
        => payout[p].acct = req[payout[p].req].acct

\* The inductive invariants: of the books and the transfers, and on top of it,
\* for a gateway that does not reverse payouts, of the recorded outcomes.
BookInv ==
    /\ TypeOK /\ PaidIffDebited /\ OneLivePayout /\ SnapshotKept
    /\ HandledRowsExist /\ PayoutsHaveRows
OutcomeInv == OutcomesAreTrue /\ ResultsStayTrue /\ StatusShape /\ NothingReversed
SettlementInv == BookInv /\ OutcomeInv

\* The books balance over finitely many requests.
TotalsInv == TypeOK /\ HandledRowsExist /\ IsFiniteSet(Rows) /\ TotalsMatchPaid

\* From the frequency rule to the insert a create transaction holds the settings
\* row, if reading the settings locks it: no other request is inserted.
LockHeld ==
    \A w \in Creating : job[w].at \in {"locked", "insert"} => settingsLock = w /\ FrequencyAllows(job[w].m)
FrequencyInv == TypeOK /\ HandledRowsExist /\ LockHeld /\ FrequencyRespected

\* Without a gateway a request waits for staff, or is PAID.
SettledByHand ==
    /\ \A w \in Workers : job[w].op \notin {"initiate", "check", "apply"}
    /\ \A r \in Rows : req[r].status \in {"APPROVED", "PAID"}

\* The member row that a create transaction read may still be spent as read, and
\* once the balance was checked there is room for the request.
BalanceKnown ==
    \A w \in Creating :
        /\ job[w].unspent <= member[job[w].m].balance - member[job[w].m].converted
        /\ job[w].at = "insert" => job[w].n + LockedPoints(job[w].m) <= job[w].unspent
WalletInv == TotalsInv /\ FrequencyInv /\ SettledByHand /\ BalanceKnown /\ NeverOverdrawn

-----------------------------------------------------------------------------
(* Liveness, of FairSpec.                                                  *)

\* A request in flight does not stay there: it is PAID or its payout failed,
\* even when every webhook about it was lost or came before its id was stored.
PayoutResolves ==
    \A r \in Requests : req[r].status = "PAYOUT_PROCESSING" ~> req[r].status \in {"PAID", "PAYOUT_FAILED"}
-----------------------------------------------------------------------------
(* Refinement.                                                             *)

PhaseOf(r) == CASE req[r].status = "NONE" -> "none"
                [] req[r].status = "PAID" -> "paid"
                [] OTHER -> "open"

Spending == INSTANCE PointSpending WITH
    Claims <- Requests, Amounts <- WithdrawablePoints,
    claim <- [r \in Requests |-> [phase |-> PhaseOf(r), owner |-> req[r].member, points |-> req[r].points]],
    spent <- [m \in Members |-> member[m].converted]

\* Seen from outside, every request is a claim that is paid at most once, and
\* pointsConverted moves with it: handlers, retries, webhooks and failures
\* are invisible steps of PointSpending.
SpendingSpec == Spending!Spec
=============================================================================
