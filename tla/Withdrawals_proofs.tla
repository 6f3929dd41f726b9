------------------------- MODULE Withdrawals_proofs -------------------------
(***************************************************************************)
(* Proofs about Withdrawals, for any members, requests, payouts, handlers,  *)
(* amounts and bounds.                                                      *)
(***************************************************************************)
EXTENDS Withdrawals, SumTheorems

USE NoneAssumption, AmountsAssumption, BoundsAssumption

-----------------------------------------------------------------------------
(* Type correctness.                                                       *)

\* A row with a status was inserted, with everything an insert sets.
LEMMA RowType ==
    ASSUME NEW r \in Requests, TypeOK, req[r].status # "NONE"
    PROVE  req[r] \in InsertedRow
  BY DEF TypeOK, RequestRow, NoRequest

\* Ending a handler keeps the types of the two variables it touches.
LEMMA FinishType ==
    ASSUME NEW w \in Workers, TypeOK, Finish(w)
    PROVE  job' \in [Workers -> Job] /\ settingsLock' \in Workers \cup {None}
  BY DEF TypeOK, Finish, Job

\* A create transaction keeps the types.
LEMMA CreateType ==
    ASSUME NEW w \in Workers, TypeOK,
           \/ \E m \in Members, n \in 1..MaxBalance : CreateReadMember(w, m, n)
           \/ CreateReadSettings(w) \/ CreateCheckBalance(w) \/ CreateInsert(w)
    PROVE  TypeOK'
<1>1. CASE \E m \in Members, n \in 1..MaxBalance : CreateReadMember(w, m, n)
  <2>1. PICK m \in Members, n \in 1..MaxBalance : CreateReadMember(w, m, n)
    BY <1>1
  <2>2. member[m].balance - member[m].converted \in Int /\ member[m].acct \in Accounts \cup {None}
    BY DEF TypeOK, MemberRow
  <2>3. job' \in [Workers -> Job]
    BY <2>1, <2>2 DEF CreateReadMember, Begin, TypeOK, Job
  <2> QED BY <2>1, <2>3 DEF CreateReadMember, Begin, TypeOK
<1>2. CASE CreateReadSettings(w)
  <2>1. job' \in [Workers -> Job] /\ settingsLock' \in Workers \cup {None}
    BY <1>2, FinishType DEF CreateReadSettings, At, TypeOK, Job, IsAmountAllowed
  <2> QED BY <1>2, <2>1 DEF CreateReadSettings, TypeOK
<1>3. CASE CreateCheckBalance(w)
  <2>1. job' \in [Workers -> Job] /\ settingsLock' \in Workers \cup {None}
    BY <1>3, FinishType DEF CreateCheckBalance, At, Goto, TypeOK, Job
  <2> QED BY <1>3, <2>1 DEF CreateCheckBalance, TypeOK
<1>4. CASE CreateInsert(w)
  <2>1. job[w].m \in Members /\ job[w].n \in WithdrawablePoints /\ job[w].acct \in Accounts
    BY <1>4 DEF CreateInsert, At, TypeOK, Job
  <2> DEFINE row == NewRequest(job[w].m, job[w].n, job[w].acct)
  <2>2. row \in RequestRow
    BY <2>1 DEF TypeOK, RequestRow, InsertedRow, NewRequest, RequestStatus
  <2>3. PICK r \in Requests : req' = [req EXCEPT ![r] = row]
    BY <1>4 DEF CreateInsert, Rows
  <2>4. req' \in [Requests -> RequestRow]
    BY <2>2, <2>3 DEF TypeOK
  <2> QED BY <1>4, <2>4, FinishType DEF CreateInsert, TypeOK
<1> QED BY <1>1, <1>2, <1>3, <1>4

\* Settling a request, by either route, keeps the types.
LEMMA SettleType ==
    ASSUME NEW w \in Workers, NEW r \in Requests, NEW from \in SUBSET RequestStatus,
           NEW by \in {"staff", "gateway"}, "NONE" \notin from, TypeOK, Settle(w, r, from, by)
    PROVE  TypeOK'
<1>1. CASE CanSettle(r, from)
  <2> DEFINE m == req[r].member
  <2>1. req[r] \in InsertedRow
    BY <1>1, RowType DEF CanSettle
  <2>2. m \in Members /\ req[r].points \in WithdrawablePoints /\ req[r].points \in Nat
    BY <2>1 DEF InsertedRow
  <2>3. NetAmount[req[r].points] \in Nat
    BY <2>2
  <2>4. req' \in [Requests -> RequestRow]
    <3>1. [req[r] EXCEPT !.status = "PAID", !.paidBy = by] \in InsertedRow
      BY <2>1 DEF InsertedRow, RequestStatus
    <3> QED BY <1>1, <3>1 DEF Settle, TypeOK, RequestRow
  <2>5. member' \in [Members -> MemberRow]
    <3>1. [member[m] EXCEPT !.converted = @ + req[r].points, !.withdrawn = @ + NetAmount[req[r].points]]
            \in MemberRow
      <4>1. member[m] \in MemberRow
        BY <2>2 DEF TypeOK
      <4>2. member[m].converted + req[r].points \in Nat
        BY <4>1, <2>2 DEF MemberRow
      <4>3. member[m].withdrawn + NetAmount[req[r].points] \in Nat
        BY <4>1, <2>3 DEF MemberRow
      <4> QED BY <4>1, <4>2, <4>3 DEF MemberRow
    <3>2. member' = [member EXCEPT ![m] = [member[m] EXCEPT !.converted = @ + req[r].points,
                                             !.withdrawn = @ + NetAmount[req[r].points]]]
      BY <1>1, ZenonT(40) DEF Settle, ApplyPaidSideEffects, TypeOK, MemberRow
    <3> QED BY <2>2, <3>1, <3>2 DEF TypeOK
  <2> QED BY <1>1, <2>4, <2>5, FinishType DEF Settle, ApplyPaidSideEffects, TypeOK
<1>2. CASE ~CanSettle(r, from)
  BY <1>2, FinishType DEF Settle, TypeOK
<1> QED BY <1>1, <1>2

\* The manual settlement and the initiation of a payout keep the types.
LEMMA StaffType ==
    ASSUME NEW w \in Workers, TypeOK, HandledRowsExist,
           \/ \E r \in Requests : MarkPaidFind(w, r) \/ InitiateRead(w, r)
           \/ MarkPaidCheckEligible(w) \/ MarkPaidCas(w)
           \/ InitiateCheckEligible(w) \/ InitiateTransfer(w) \/ InitiateRefused(w)
           \/ InitiateRecheckEligible(w) \/ InitiateCas(w)
    PROVE  TypeOK'
<1>1. CASE \E r \in Requests : MarkPaidFind(w, r) \/ InitiateRead(w, r)
  <2>1. ASSUME NEW r \in Requests, InitiateRead(w, r) PROVE member[req[r].member].acct \in Accounts \cup {None}
    BY <2>1, RowType DEF InitiateRead, PAYABLE_STATUSES, InsertedRow, TypeOK, MemberRow
  <2> QED BY <1>1, <2>1 DEF MarkPaidFind, InitiateRead, Begin, TypeOK, Job
<1>2. CASE MarkPaidCheckEligible(w) \/ InitiateCheckEligible(w) \/ InitiateRecheckEligible(w)
  <2>1. job' \in [Workers -> Job] /\ settingsLock' \in Workers \cup {None}
    <3>1. CASE MarkPaidCheckEligible(w)
      BY <3>1, FinishType DEF MarkPaidCheckEligible, ProceedIfEligible, At, Goto, TypeOK, Job
    <3>2. CASE InitiateCheckEligible(w)
      BY <3>2, FinishType DEF InitiateCheckEligible, ProceedIfEligible, At, Goto, TypeOK, Job
    <3>3. CASE InitiateRecheckEligible(w)
      BY <3>3, FinishType DEF InitiateRecheckEligible, ProceedIfEligible, At, Goto, TypeOK, Job
    <3> QED BY <1>2, <3>1, <3>2, <3>3
  <2> QED BY <1>2, <2>1 DEF MarkPaidCheckEligible, InitiateCheckEligible, InitiateRecheckEligible,
                            ProceedIfEligible, TypeOK
<1>3. CASE MarkPaidCas(w)
  <2>1. job[w].r \in Requests
    BY <1>3 DEF MarkPaidCas, At, TypeOK, Job
  <2> QED BY <1>3, <2>1, SettleType DEF MarkPaidCas, PAYABLE_STATUSES, RequestStatus
<1>4. CASE InitiateTransfer(w)
  <2>1. job[w] \in Job /\ job[w].op = "initiate" /\ job[w].at = "transfer" /\ job[w].r \in Requests
    BY <1>4 DEF InitiateTransfer, At, TypeOK, Job
  <2> DEFINE acct == PayoutDestination(job[w].r, job[w].current)
  <2>2. PICK p \in Payouts : /\ acct # None /\ CreatePayout(job[w].r, acct, p)
                             /\ job' = [job EXCEPT ![w].at = "recheck", ![w].p = p]
    BY <1>4 DEF InitiateTransfer
  <2>3. job' \in [Workers -> Job]
    BY <2>1, <2>2 DEF TypeOK, Job
  <2>4. acct \in Accounts
    <3>1. req[job[w].r].acct \in Accounts \cup {None}
      BY <2>1, RowType DEF HandledRowsExist, Rows, InsertedRow
    <3>2. job[w].current \in Accounts \cup {None}
      BY <2>1 DEF Job
    <3> QED BY <2>2, <3>1, <3>2 DEF PayoutDestination
  <2> HIDE DEF acct
  <2>5. payout' \in [Payouts -> PayoutRow]
    BY <2>1, <2>2, <2>4 DEF CreatePayout, TypeOK, PayoutRow, CreatedPayout
  <2> QED BY <1>4, <2>3, <2>5 DEF InitiateTransfer, TypeOK
<1>5. CASE InitiateRefused(w)
  BY <1>5, FinishType DEF InitiateRefused, TypeOK
<1>6. CASE InitiateCas(w)
  <2> DEFINE r == job[w].r
  <2>1. r \in Requests /\ job[w].p \in Payouts
    BY <1>6 DEF InitiateCas, At, TypeOK, Job
  <2>2. req' \in [Requests -> RequestRow]
    <3>1. CASE CanInitiate(r, job[w].p)
      <4>1. req[r] \in InsertedRow
        BY <2>1, <3>1, RowType DEF CanInitiate, PAYABLE_STATUSES
      <4>2. [req[r] EXCEPT !.status = "PAYOUT_PROCESSING", !.payoutId = job[w].p] \in InsertedRow
        BY <2>1, <4>1 DEF InsertedRow, RequestStatus
      <4> QED BY <1>6, <2>1, <3>1, <4>2 DEF InitiateCas, TypeOK, RequestRow
    <3> QED BY <1>6, <3>1 DEF InitiateCas, TypeOK
  <2> QED BY <1>6, <2>2, FinishType DEF InitiateCas, TypeOK
<1> QED BY <1>1, <1>2, <1>3, <1>4, <1>5, <1>6

\* The handling of payout results keeps the types.
LEMMA ResultType ==
    ASSUME NEW w \in Workers, TypeOK,
           \/ \E r \in Requests : CheckStatus(w, r)
           \/ \E p \in Payouts : HandleWebhook(w, p)
           \/ CheckStatusPoll(w) \/ PaidFromPayoutFind(w) \/ PaidFromPayoutCas(w) \/ MarkPayoutFailed(w)
    PROVE  TypeOK'
<1>1. CASE \E r \in Requests : CheckStatus(w, r)
  <2>1. PICK r \in Requests : CheckStatus(w, r)
    BY <1>1
  <2>2. req[r].payoutId \in Payouts
    BY <2>1 DEF CheckStatus, TypeOK, RequestRow, InsertedRow, NoRequest
  <2> QED BY <2>1, <2>2 DEF CheckStatus, Begin, TypeOK, Job
<1>2. CASE \E p \in Payouts : HandleWebhook(w, p)
  BY <1>2 DEF HandleWebhook, Begin, ApplyJob, TypeOK, Job
<1>3. CASE CheckStatusPoll(w)
  <2>1. job[w].p \in Payouts
    BY <1>3 DEF CheckStatusPoll, At, TypeOK, Job
  <2>2. job' \in [Workers -> Job] /\ settingsLock' \in Workers \cup {None}
    BY <1>3, <2>1, FinishType DEF CheckStatusPoll, ApplyJob, TypeOK, Job
  <2> QED BY <1>3, <2>2 DEF CheckStatusPoll, TypeOK
<1>4. CASE PaidFromPayoutFind(w)
  <2>1. job' \in [Workers -> Job] /\ settingsLock' \in Workers \cup {None}
    BY <1>4, FinishType DEF PaidFromPayoutFind, At, TypeOK, Job
  <2> QED BY <1>4, <2>1 DEF PaidFromPayoutFind, TypeOK
<1>5. CASE PaidFromPayoutCas(w)
  <2>1. job[w].r \in Requests
    BY <1>5 DEF PaidFromPayoutCas, At, TypeOK, Job
  <2> QED BY <1>5, <2>1, SettleType DEF PaidFromPayoutCas, RequestStatus
<1>6. CASE MarkPayoutFailed(w)
  <2>1. ASSUME NEW r \in Requests, CanFail(r, job[w].p)
        PROVE  [req[r] EXCEPT !.status = "PAYOUT_FAILED"] \in InsertedRow
    BY <2>1, RowType DEF CanFail, InsertedRow, RequestStatus
  <2>2. req' \in [Requests -> RequestRow]
    BY <1>6, <2>1 DEF MarkPayoutFailed, TypeOK, RequestRow
  <2> QED BY <1>6, <2>2, FinishType DEF MarkPayoutFailed, TypeOK
<1> QED BY <1>1, <1>2, <1>3, <1>4, <1>5, <1>6

\* The steps of RazorpayX, of the member's other components and of time keep
\* the types.
LEMMA EnvironmentType ==
    ASSUME TypeOK, Environment
    PROVE  TypeOK'
<1>1. CASE \E p \in Payouts : PayoutSettles(p) \/ PayoutReversed(p)
  <2>1. PICK p \in Payouts, to \in {"processed", "failed", "reversed"} :
           /\ payout[p].state # "none"
           /\ payout' = [payout EXCEPT ![p].state = to]
           /\ UNCHANGED <<member, req, debits, job, settingsLock, today, aborts>>
    BY <1>1 DEF PayoutSettles, PayoutReversed, PayoutOutcome
  <2>2. payout[p] \in CreatedPayout
    BY <2>1 DEF TypeOK, PayoutRow, NoPayout
  <2>3. payout' \in [Payouts -> PayoutRow]
    BY <2>1, <2>2 DEF TypeOK, PayoutRow, CreatedPayout
  <2> QED BY <2>1, <2>3 DEF TypeOK
<1>2. CASE \E m \in Members : Suspend(m) \/ Reactivate(m) \/ MarkDeceased(m) \/ CreditPoints(m)
  <2>1. PICK m \in Members : Suspend(m) \/ Reactivate(m) \/ MarkDeceased(m) \/ CreditPoints(m)
    BY <1>2
  <2>2. member[m] \in MemberRow /\ member[m].balance + 1 \in Nat
    BY DEF TypeOK, MemberRow
  <2>3. PICK row \in MemberRow : SetMember(m, row)
    BY <2>1, <2>2 DEF Suspend, Reactivate, MarkDeceased, CreditPoints, MemberRow, BLOCKED_STATUSES
  <2> QED BY <2>3 DEF SetMember, TypeOK
<1>3. CASE \E m \in Members, a \in Accounts : SaveKyc(m, a)
  <2>1. PICK m \in Members, a \in Accounts : SaveKyc(m, a)
    BY <1>3
  <2>2. [member[m] EXCEPT !.acct = a] \in MemberRow
    BY DEF TypeOK, MemberRow
  <2> QED BY <2>1, <2>2 DEF SaveKyc, SetMember, TypeOK
<1>4. CASE NextDay
  BY <1>4 DEF NextDay, TypeOK
<1> QED BY <1>1, <1>2, <1>3, <1>4 DEF Environment

\* Nothing is running, transferred or debited where NMMS starts.
LEMMA NothingRuns ==
    ASSUME Init
    PROVE  /\ debits = {} /\ payout = [p \in Payouts |-> NoPayout] /\ settingsLock = None
           /\ job = [w \in Workers |-> [op |-> "idle"]] /\ today = 0 /\ aborts = 0
  BY Zenon DEF Init

\* The requests NMMS starts with, if any, are APPROVED, with no payout and no
\* destination of their own.
LEMMA LegacyRows ==
    ASSUME Init, NEW r \in Requests
    PROVE  /\ req[r] \in RequestRow /\ req[r].status \in {"NONE", "APPROVED"}
           /\ req[r].status = "NONE" => req[r] = NoRequest
           /\ req[r].payoutId = None /\ req[r].paidBy = None /\ req[r].acct = None
<1>1. \/ req[r] = NoRequest
      \/ \E m \in Members, n \in LegacyPoints : req[r] = LegacyRequest(m, n)
  <2>1. req \in [Requests -> {NoRequest} \cup LegacyRequests]
    BY DEF Init
  <2> QED BY <2>1 DEF LegacyRequests
<1>2. CASE req[r] = NoRequest
  BY <1>2 DEF NoRequest, RequestRow
<1>3. ASSUME NEW m \in Members, NEW n \in LegacyPoints, req[r] = LegacyRequest(m, n)
      PROVE  /\ req[r] \in InsertedRow /\ req[r].status = "APPROVED"
             /\ req[r].payoutId = None /\ req[r].paidBy = None /\ req[r].acct = None
  BY <1>3 DEF LegacyRequest, InsertedRow, RequestStatus
<1> QED BY <1>1, <1>2, <1>3 DEF RequestRow

\* Their points, those of a member together, are a number.
LEMMA LegacyLocked ==
    ASSUME Init, NEW m \in Members
    PROVE  LockedPoints(m) \in Nat
<1>1. IsFiniteSet(LockedOf(m)) /\ LockedOf(m) \subseteq Rows
  BY FS_Subset DEF Init, LockedOf, RequestsOf
<1>2. ASSUME NEW r \in LockedOf(m) PROVE req[r].points \in Nat
  <2>1. r \in Requests /\ req[r].status # "NONE"
    BY <1>1, <1>2 DEF Rows
  <2>2. req[r] \in InsertedRow
    BY <2>1, LegacyRows DEF RequestRow, NoRequest
  <2> QED BY <2>2 DEF InsertedRow
<1> DEFINE f == [r \in LockedOf(m) |-> req[r].points]
<1>3. \A r \in LockedOf(m) : f[r] \in Nat
  BY <1>2
<1> HIDE DEF f
<1>4. SumFunctionOnSet(f, LockedOf(m)) \in Nat
  BY <1>1, <1>3, SumType
<1> QED BY <1>4 DEF f, LockedPoints, SumPoints

\* Members start with what those requests promise, and nothing converted.
LEMMA MemberInit ==
    ASSUME Init
    PROVE  /\ member \in [Members -> MemberRow]
           /\ \A m \in Members : /\ member[m].converted = 0 /\ member[m].withdrawn = 0
                                 /\ member[m].balance = LockedPoints(m)
<1>1. PICK acct \in [Members -> Accounts \cup {None}] :
         member = [m \in Members |-> [status |-> "ACTIVE", balance |-> LockedPoints(m), converted |-> 0,
                                      withdrawn |-> 0, acct |-> acct[m]]]
  BY DEF Init
<1>2. \A m \in Members : acct[m] \in Accounts \cup {None}
  OBVIOUS
<1> QED BY <1>1, <1>2, LegacyLocked DEF MemberRow

\* The initial state is typed, and no handler runs in it.
LEMMA TypeInit == Init => TypeOK /\ HandledRowsExist
<1> SUFFICES ASSUME Init PROVE TypeOK /\ HandledRowsExist
  OBVIOUS
<1>1. req \in [Requests -> RequestRow]
  <2>1. req \in [Requests -> {NoRequest} \cup LegacyRequests]
    BY DEF Init
  <2> QED BY <2>1, LegacyRows
<1> QED BY <1>1, MemberInit, NothingRuns DEF TypeOK, PayoutRow, Job, HandledRowsExist

\* Every action, of a handler or of the environment, keeps the types.
LEMMA TypeStep == TypeOK /\ HandledRowsExist /\ [Next]_vars => TypeOK'
<1> SUFFICES ASSUME TypeOK, HandledRowsExist, [Next]_vars PROVE TypeOK'
  OBVIOUS
<1>1. ASSUME NEW w \in Workers, Start(w) \/ Proceed(w) PROVE TypeOK'
  BY <1>1, CreateType, StaffType, ResultType DEF Start, Proceed
<1>2. ASSUME NEW w \in Workers, Abort(w) PROVE TypeOK'
  BY <1>2, FinishType DEF Abort, TypeOK
<1>3. CASE UNCHANGED vars
  BY <1>3 DEF vars, TypeOK
<1> QED BY <1>1, <1>2, <1>3, EnvironmentType DEF Next

-----------------------------------------------------------------------------
(* The steps that write requests, seen without their handlers.             *)

Inserts(r) ==
    /\ r \in Requests \ Rows
    /\ \E m \in Members, n \in WithdrawablePoints, a \in Accounts :
          /\ req' = [req EXCEPT ![r] = NewRequest(m, n, a)]
          /\ \E w \in Workers : At(w, "create", "insert") /\ job[w].m = m /\ job[w].n = n /\ Finish(w)
    /\ UNCHANGED <<member, debits, payout, today>>
Settles(r, from, by) ==
    /\ CanSettle(r, from)
    /\ by = "gateway" => \E w \in Workers : At(w, "apply", "cas") /\ job[w].r = r
    /\ req' = [req EXCEPT ![r].status = "PAID", ![r].paidBy = by]
    /\ ApplyPaidSideEffects(r)
    /\ UNCHANGED payout
Records(r, p) ==
    /\ CanInitiate(r, p)
    /\ \E w \in Workers : At(w, "initiate", "cas") /\ job[w].r = r /\ job[w].p = p
    /\ req' = [req EXCEPT ![r].status = "PAYOUT_PROCESSING", ![r].payoutId = p]
    /\ UNCHANGED <<member, debits, payout>>
Fails(p) ==
    /\ \E w \in Workers : At(w, "apply", "fail") /\ job[w].p = p
    /\ req' = [r \in Requests |-> IF CanFail(r, p) THEN [req[r] EXCEPT !.status = "PAYOUT_FAILED"] ELSE req[r]]
    /\ UNCHANGED <<member, debits, payout>>

\* A member's totals stay, and points are only earned.
KeepsTotals(m) ==
    /\ member'[m].converted = member[m].converted /\ member'[m].withdrawn = member[m].withdrawn
    /\ member'[m].balance >= member[m].balance

\* A step either leaves the requests, the debits and what members have
\* converted alone, or is one of the four kinds of write above.
LEMMA RequestSteps ==
    ASSUME TypeOK, [Next]_vars
    PROVE  \/ UNCHANGED <<req, debits>> /\ \A m \in Members : KeepsTotals(m)
           \/ \E r \in Requests : Inserts(r)
           \/ \E r \in Requests : \/ Settles(r, PAYABLE_STATUSES, "staff")
                                \/ Settles(r, {"PAYOUT_PROCESSING"}, "gateway")
           \/ \E r \in Requests, p \in Payouts : Records(r, p)
           \/ \E p \in Payouts : Fails(p)
<1> USE DEF KeepsTotals
<1> DEFINE Still == UNCHANGED <<req, debits>> /\ \A m \in Members : KeepsTotals(m)
<1>0. \A m \in Members : member[m].balance \in Nat
  BY DEF TypeOK, MemberRow
<1>1. ASSUME NEW w \in Workers, Start(w) PROVE Still
  <2>1. UNCHANGED <<member, req, debits>>
    BY <1>1 DEF Start, CreateReadMember, MarkPaidFind, InitiateRead, CheckStatus, HandleWebhook
  <2> QED BY <1>0, <2>1
<1>2. ASSUME NEW w \in Workers, CreateInsert(w) PROVE \E r \in Requests : Inserts(r)
  <2>1. job[w].m \in Members /\ job[w].n \in WithdrawablePoints /\ job[w].acct \in Accounts
    BY <1>2 DEF CreateInsert, At, TypeOK, Job
  <2> QED BY <1>2, <2>1 DEF CreateInsert, Inserts
<1>3. ASSUME NEW w \in Workers, MarkPaidCas(w)
      PROVE  Still \/ \E r \in Requests : Settles(r, PAYABLE_STATUSES, "staff")
  <2>1. job[w].r \in Requests
    BY <1>3 DEF MarkPaidCas, At, TypeOK, Job
  <2> QED BY <1>0, <1>3, <2>1, SMTT(20) DEF MarkPaidCas, Settle, Settles
<1>4. ASSUME NEW w \in Workers, PaidFromPayoutCas(w)
      PROVE  Still \/ \E r \in Requests : Settles(r, {"PAYOUT_PROCESSING"}, "gateway")
  <2>1. job[w].r \in Requests
    BY <1>4 DEF PaidFromPayoutCas, At, TypeOK, Job
  <2> QED BY <1>0, <1>4, <2>1 DEF PaidFromPayoutCas, Settle, Settles
<1>5. ASSUME NEW w \in Workers, InitiateCas(w)
      PROVE  Still \/ \E r \in Requests, p \in Payouts : Records(r, p)
  <2>1. job[w].r \in Requests /\ job[w].p \in Payouts
    BY <1>5 DEF InitiateCas, At, TypeOK, Job
  <2> QED BY <1>0, <1>5, <2>1 DEF InitiateCas, Records
<1>6. ASSUME NEW w \in Workers, MarkPayoutFailed(w) PROVE \E p \in Payouts : Fails(p)
  <2>1. job[w].p \in Payouts
    BY <1>6 DEF MarkPayoutFailed, At, TypeOK, Job
  <2> QED BY <1>6, <2>1 DEF MarkPayoutFailed, Fails
<1>7. ASSUME NEW w \in Workers,
             \/ CreateReadSettings(w) \/ CreateCheckBalance(w) \/ MarkPaidCheckEligible(w)
             \/ InitiateCheckEligible(w) \/ InitiateTransfer(w) \/ InitiateRefused(w)
             \/ InitiateRecheckEligible(w) \/ CheckStatusPoll(w) \/ PaidFromPayoutFind(w) \/ Abort(w)
      PROVE  Still
  BY <1>0, <1>7 DEF CreateReadSettings, CreateCheckBalance, MarkPaidCheckEligible, InitiateCheckEligible,
      InitiateTransfer, InitiateRefused, InitiateRecheckEligible, ProceedIfEligible, CheckStatusPoll,
      PaidFromPayoutFind, Abort
<1>8. ASSUME Environment PROVE Still
  <2>1. CASE \E p \in Payouts : PayoutSettles(p) \/ PayoutReversed(p)
    BY <1>0, <2>1 DEF PayoutSettles, PayoutReversed, PayoutOutcome
  <2>2. ASSUME NEW m \in Members, NEW row, SetMember(m, row), row.converted = member[m].converted,
               row.withdrawn = member[m].withdrawn, row.balance >= member[m].balance
        PROVE  Still
    BY <2>2, <1>0 DEF SetMember, TypeOK
  <2>3. CASE \E m \in Members : Suspend(m) \/ Reactivate(m) \/ MarkDeceased(m) \/ CreditPoints(m)
    <3>1. PICK m \in Members : Suspend(m) \/ Reactivate(m) \/ MarkDeceased(m) \/ CreditPoints(m)
      BY <2>3
    <3>2. member[m] \in MemberRow
      BY DEF TypeOK
    <3> QED BY <2>2, <3>1, <3>2 DEF Suspend, Reactivate, MarkDeceased, CreditPoints, MemberRow
  <2>4. CASE \E m \in Members, a \in Accounts : SaveKyc(m, a)
    <3>1. PICK m \in Members, a \in Accounts : SaveKyc(m, a)
      BY <2>4
    <3>2. member[m] \in MemberRow
      BY DEF TypeOK
    <3> QED BY <2>2, <3>1, <3>2 DEF SaveKyc, MemberRow
  <2> QED BY <1>0, <1>8, <2>1, <2>3, <2>4 DEF Environment, NextDay
<1>9. ASSUME UNCHANGED vars PROVE Still
  BY <1>0, <1>9 DEF vars
<1> HIDE DEF Still
<1>10. ASSUME Next
       PROVE  \/ Environment
              \/ \E w \in Workers :
                   \/ Start(w) \/ CreateInsert(w) \/ MarkPaidCas(w) \/ PaidFromPayoutCas(w) \/ InitiateCas(w)
                   \/ MarkPayoutFailed(w)
                   \/ CreateReadSettings(w) \/ CreateCheckBalance(w) \/ MarkPaidCheckEligible(w)
                   \/ InitiateCheckEligible(w) \/ InitiateTransfer(w) \/ InitiateRefused(w)
                   \/ InitiateRecheckEligible(w) \/ CheckStatusPoll(w) \/ PaidFromPayoutFind(w) \/ Abort(w)
  BY <1>10 DEF Next, Proceed
<1> QED BY <1>1, <1>2, <1>3, <1>4, <1>5, <1>6, <1>7, <1>8, <1>9, <1>10 DEF Still

\* A row stays, with everything that names its points and their destination,
\* and a PAID one does not change at all.
LEMMA HistoryStep ==
    ASSUME TypeOK, [Next]_vars, NEW r \in Rows
    PROVE  /\ r \in Rows'
           /\ req'[r].member = req[r].member /\ req'[r].points = req[r].points
           /\ req'[r].acct = req[r].acct /\ req'[r].day = req[r].day
           /\ req[r].status = "PAID" => req'[r] = req[r]
<1> DEFINE Goal == /\ r \in Rows'
                   /\ req'[r].member = req[r].member /\ req'[r].points = req[r].points
                   /\ req'[r].acct = req[r].acct /\ req'[r].day = req[r].day
                   /\ req[r].status = "PAID" => req'[r] = req[r]
<1> SUFFICES Goal
  OBVIOUS
<1>1. r \in Requests /\ req[r] \in InsertedRow
  BY RowType DEF Rows
<1>2. CASE UNCHANGED req
  BY <1>2 DEF Rows
<1>3. ASSUME NEW q \in Requests, Inserts(q)
      PROVE  req'[r] = req[r]
  BY <1>1, <1>3 DEF Inserts, TypeOK
<1>4. ASSUME NEW q \in Requests, NEW from \in SUBSET {"APPROVED", "PAYOUT_FAILED", "PAYOUT_PROCESSING"}, NEW by,
             Settles(q, from, by)
      PROVE  \/ req'[r] = req[r]
             \/ req[r].status # "PAID" /\ req'[r] = [req[r] EXCEPT !.status = "PAID", !.paidBy = by]
  BY <1>1, <1>4 DEF Settles, CanSettle, TypeOK
<1>5. ASSUME NEW q \in Requests, NEW p \in Payouts, Records(q, p)
      PROVE  \/ req'[r] = req[r]
             \/ /\ req[r].status # "PAID"
                /\ req'[r] = [req[r] EXCEPT !.status = "PAYOUT_PROCESSING", !.payoutId = p]
  BY <1>1, <1>5 DEF Records, CanInitiate, PAYABLE_STATUSES, TypeOK
<1>6. ASSUME NEW p \in Payouts, Fails(p)
      PROVE  \/ req'[r] = req[r]
             \/ req[r].status # "PAID" /\ req'[r] = [req[r] EXCEPT !.status = "PAYOUT_FAILED"]
  BY <1>1, <1>6 DEF Fails, CanFail, TypeOK
<1>7. CASE req'[r] = req[r]
  BY <1>1, <1>7 DEF Rows
<1>8. CASE /\ req[r].status # "PAID"
           /\ \E by : req'[r] = [req[r] EXCEPT !.status = "PAID", !.paidBy = by]
  BY <1>1, <1>8 DEF Rows, InsertedRow
<1>9. CASE req[r].status # "PAID" /\ req'[r] = [req[r] EXCEPT !.status = "PAYOUT_FAILED"]
  BY <1>1, <1>9 DEF Rows, InsertedRow
<1>10. CASE /\ req[r].status # "PAID"
            /\ \E p \in Payouts : req'[r] = [req[r] EXCEPT !.status = "PAYOUT_PROCESSING", !.payoutId = p]
  BY <1>1, <1>10 DEF Rows, InsertedRow
<1> HIDE DEF Goal
<1>11. ASSUME NEW q \in Requests,
              Settles(q, PAYABLE_STATUSES, "staff") \/ Settles(q, {"PAYOUT_PROCESSING"}, "gateway")
       PROVE  Goal
  BY <1>4, <1>7, <1>8, <1>11 DEF PAYABLE_STATUSES
<1>12. ASSUME NEW q \in Requests, NEW p \in Payouts, Records(q, p) PROVE Goal
  BY <1>5, <1>7, <1>10, <1>12
<1>13. ASSUME NEW p \in Payouts, Fails(p) PROVE Goal
  BY <1>6, <1>7, <1>9, <1>13
<1> QED
  BY <1>2, <1>3, <1>7, <1>11, <1>12, <1>13, RequestSteps

\* RazorpayX's record of a payout: made once, by InitiateTransfer, and from
\* then on only its state moves.
LEMMA PayoutStep ==
    ASSUME TypeOK, [Next]_vars, NEW p \in Payouts
    PROVE  \/ payout'[p] = payout[p]
           \/ /\ payout[p] \in CreatedPayout /\ payout'[p] \in CreatedPayout
              /\ payout'[p].req = payout[p].req /\ payout'[p].acct = payout[p].acct
              /\ \/ payout[p].state = "processing" /\ payout'[p].state \in {"processed", "failed"}
                 \/ Reversals /\ payout[p].state = "processed" /\ payout'[p].state = "reversed"
           \/ \E w \in Workers : /\ InitiateTransfer(w) /\ payout[p].state = "none"
                                 /\ LivePayouts(job[w].r) = {}
                                 /\ payout' = [payout EXCEPT ![p] = [state |-> "processing", req |-> job[w].r,
                                                                     acct |-> PayoutDestination(job[w].r, job[w].current)]]
<1>1. CASE UNCHANGED payout
  BY <1>1
<1>2. ASSUME NEW w \in Workers, InitiateTransfer(w), payout'[p] # payout[p]
      PROVE  /\ payout[p].state = "none" /\ LivePayouts(job[w].r) = {}
             /\ payout' = [payout EXCEPT ![p] = [state |-> "processing", req |-> job[w].r,
                                                 acct |-> PayoutDestination(job[w].r, job[w].current)]]
  BY <1>2 DEF InitiateTransfer, CreatePayout, TypeOK
<1>3. ASSUME NEW q \in Payouts, PayoutSettles(q) \/ PayoutReversed(q), payout'[p] # payout[p]
      PROVE  /\ payout[p] \in CreatedPayout /\ payout'[p] \in CreatedPayout
             /\ payout'[p].req = payout[p].req /\ payout'[p].acct = payout[p].acct
             /\ \/ payout[p].state = "processing" /\ payout'[p].state \in {"processed", "failed"}
                \/ Reversals /\ payout[p].state = "processed" /\ payout'[p].state = "reversed"
  <2>1. p = q
    BY <1>3 DEF PayoutSettles, PayoutReversed, PayoutOutcome, TypeOK
  <2>2. payout[p] \in CreatedPayout
    BY <1>3, <2>1 DEF PayoutSettles, PayoutReversed, PayoutOutcome, TypeOK, PayoutRow, NoPayout
  <2>3. PICK to \in {"processed", "failed", "reversed"} :
           /\ payout'[p] = [payout[p] EXCEPT !.state = to]
           /\ \/ payout[p].state = "processing" /\ to \in {"processed", "failed"}
              \/ Reversals /\ payout[p].state = "processed" /\ to = "reversed"
    BY <1>3, <2>1 DEF PayoutSettles, PayoutReversed, PayoutOutcome, TypeOK
  <2> QED BY <2>2, <2>3 DEF CreatedPayout
<1>4. \/ UNCHANGED payout
      \/ \E w \in Workers : InitiateTransfer(w)
      \/ \E q \in Payouts : PayoutSettles(q) \/ PayoutReversed(q)
  <2>1. ASSUME NEW w \in Workers, Start(w) PROVE UNCHANGED payout
    BY <2>1 DEF Start, CreateReadMember, MarkPaidFind, InitiateRead, CheckStatus, HandleWebhook
  <2>2. ASSUME NEW w \in Workers, Proceed(w) PROVE UNCHANGED payout \/ InitiateTransfer(w)
    BY <2>2 DEF Proceed, CreateReadSettings, CreateCheckBalance, CreateInsert, MarkPaidCheckEligible,
        MarkPaidCas, InitiateCheckEligible, InitiateRefused, InitiateRecheckEligible, InitiateCas,
        ProceedIfEligible, Settle, CheckStatusPoll, PaidFromPayoutFind, PaidFromPayoutCas, MarkPayoutFailed
  <2>3. ASSUME Environment
        PROVE  UNCHANGED payout \/ \E q \in Payouts : PayoutSettles(q) \/ PayoutReversed(q)
    BY <2>3 DEF Environment, Suspend, Reactivate, MarkDeceased, CreditPoints, SaveKyc, SetMember, NextDay
  <2> QED BY <2>1, <2>2, <2>3 DEF Next, Abort, vars
<1> QED BY <1>1, <1>2, <1>3, <1>4

-----------------------------------------------------------------------------
(* The invariant of the books and the transfers.                           *)

\* A request turns PAID in the step that writes its debit row, and in no other.
LEMMA DebitStep == TypeOK /\ PaidIffDebited /\ [Next]_vars => PaidIffDebited'
<1> SUFFICES ASSUME TypeOK, PaidIffDebited, [Next]_vars PROVE PaidIffDebited'
  OBVIOUS
<1>1. CASE UNCHANGED <<req, debits>>
  BY <1>1 DEF PaidIffDebited
<1>2. ASSUME NEW r \in Requests, Inserts(r) PROVE PaidIffDebited'
  BY <1>2 DEF Inserts, NewRequest, Rows, PaidIffDebited, TypeOK
<1>3. ASSUME NEW r \in Requests, NEW from, NEW by, Settles(r, from, by) PROVE PaidIffDebited'
  BY <1>3 DEF Settles, CanSettle, ApplyPaidSideEffects, PaidIffDebited, TypeOK, RequestRow, InsertedRow, NoRequest
<1>4. ASSUME NEW r \in Requests, NEW p \in Payouts, Records(r, p) PROVE PaidIffDebited'
  BY <1>4 DEF Records, CanInitiate, PAYABLE_STATUSES, PaidIffDebited, TypeOK, RequestRow, InsertedRow, NoRequest
<1>5. ASSUME NEW p \in Payouts, Fails(p) PROVE PaidIffDebited'
  BY <1>5 DEF Fails, CanFail, PaidIffDebited, TypeOK, RequestRow, InsertedRow, NoRequest
<1> QED BY <1>1, <1>2, <1>3, <1>4, <1>5, RequestSteps

\* The request a handler works on is a row, and no step deletes a row.
LEMMA HandledRowsStep == TypeOK /\ HandledRowsExist /\ [Next]_vars => HandledRowsExist'
<1> SUFFICES ASSUME TypeOK, HandledRowsExist, [Next]_vars, NEW v \in Workers,
                    job'[v].op \in {"markPaid", "initiate"}
             PROVE  job'[v].r \in Rows'
  BY DEF HandledRowsExist
<1>1. Rows \subseteq Rows'
  BY HistoryStep
<1>2. job'[v].r \in Rows
  <2>1. CASE job'[v] = job[v]
    BY <2>1 DEF HandledRowsExist
  <2>2. ASSUME NEW w \in Workers, Start(w), job'[v] # job[v] PROVE job'[v].r \in Rows
    <3>1. CASE \E r \in Requests : MarkPaidFind(w, r) \/ InitiateRead(w, r)
      BY <2>2, <3>1 DEF MarkPaidFind, InitiateRead, PAYABLE_STATUSES, Begin, TypeOK, Rows
    <3>2. CASE \/ \E m \in Members, n \in 1..MaxBalance : CreateReadMember(w, m, n)
               \/ \E r \in Requests : CheckStatus(w, r)
               \/ \E p \in Payouts : HandleWebhook(w, p)
      BY <2>2, <3>2 DEF CreateReadMember, CheckStatus, HandleWebhook, ApplyJob, Begin, TypeOK
    <3> QED BY <2>2, <3>1, <3>2 DEF Start
  <2>3. ASSUME NEW w \in Workers, Proceed(w) \/ Abort(w), job'[v] # job[v] PROVE job'[v].r \in Rows
    <3>1. CASE Finish(w)
      BY <2>3, <3>1 DEF Finish, TypeOK
    <3>2. CASE CreateReadSettings(w) \/ CreateCheckBalance(w) \/ CheckStatusPoll(w) \/ PaidFromPayoutFind(w)
      BY <2>3, <3>1, <3>2 DEF CreateReadSettings, CreateCheckBalance, CheckStatusPoll, PaidFromPayoutFind,
          ApplyJob, At, Goto, TypeOK, Job
    <3>3. CASE MarkPaidCheckEligible(w) \/ InitiateCheckEligible(w) \/ InitiateRecheckEligible(w)
      BY <2>3, <3>1, <3>3 DEF MarkPaidCheckEligible, InitiateCheckEligible, InitiateRecheckEligible,
          ProceedIfEligible, At, Goto, TypeOK, Job, HandledRowsExist
    <3>4. CASE InitiateTransfer(w)
      BY <2>3, <3>4 DEF InitiateTransfer, At, TypeOK, Job, HandledRowsExist
    <3> QED BY <2>3, <3>1, <3>2, <3>3, <3>4 DEF Proceed, CreateInsert, MarkPaidCas, InitiateRefused,
            InitiateCas, PaidFromPayoutCas, Settle, MarkPayoutFailed, Abort
  <2>4. CASE Environment \/ UNCHANGED vars
    BY <2>1, <2>4 DEF Environment, PayoutSettles, PayoutReversed, PayoutOutcome, Suspend, Reactivate,
        MarkDeceased, CreditPoints, SaveKyc, SetMember, NextDay, vars
  <2> QED BY <2>1, <2>2, <2>3, <2>4 DEF Next
<1> QED BY <1>1, <1>2

\* The transfer being made is one for a row; no payout stands for None.
LEMMA TransferFacts ==
    ASSUME BookInv, NEW w \in Workers, InitiateTransfer(w)
    PROVE  /\ job[w].r \in Rows /\ job[w].r \in Requests
           /\ \E p \in Payouts : /\ p \in LivePayouts(job[w].r) \/ LivePayouts(job[w].r) = {}
                                 /\ payout'[p].req = job[w].r
                                 /\ job' = [job EXCEPT ![w].at = "recheck", ![w].p = p]
<1>1. job[w] \in Job /\ job[w].op = "initiate" /\ job[w].r \in Requests
  BY DEF InitiateTransfer, At, BookInv, TypeOK, Job
<1>2. job[w].r \in Rows
  BY <1>1 DEF BookInv, HandledRowsExist
<1>4. PICK p \in Payouts : /\ CreatePayout(job[w].r, PayoutDestination(job[w].r, job[w].current), p)
                         /\ job' = [job EXCEPT ![w].at = "recheck", ![w].p = p]
  BY DEF InitiateTransfer
<1>5. p \in LivePayouts(job[w].r) \/ LivePayouts(job[w].r) = {}
  BY <1>4 DEF CreatePayout
<1>6. payout'[p].req = job[w].r
  BY <1>4 DEF CreatePayout, LivePayouts, BookInv, TypeOK
<1> QED BY <1>1, <1>2, <1>4, <1>5, <1>6

\* Every transfer goes to the destination its request recorded, if it recorded
\* one, which no later step of the request or of the member changes.
LEMMA SnapshotStep ==
    BookInv /\ [Next]_vars
        => SnapshotKept' /\ \A p \in Payouts : payout'[p].state # "none" => payout'[p].req \in Rows'
<1> DEFINE Followed(p) ==
             /\ payout'[p].req \in Rows'
             /\ req'[payout'[p].req].acct # None => payout'[p].acct = req'[payout'[p].req].acct
<1> SUFFICES ASSUME BookInv, [Next]_vars, NEW p \in Payouts, payout'[p].state # "none"
             PROVE  Followed(p)
  BY DEF SnapshotKept
<1>0. TypeOK
  BY DEF BookInv
<1>1. ASSUME payout[p].state # "none", payout'[p].req = payout[p].req, payout'[p].acct = payout[p].acct
      PROVE  Followed(p)
  <2>1. /\ payout[p].req \in Rows
        /\ req[payout[p].req].acct # None => payout[p].acct = req[payout[p].req].acct
    BY <1>1 DEF BookInv, PayoutsHaveRows, SnapshotKept
  <2> QED BY <1>0, <1>1, <2>1, HistoryStep
<1>2. ASSUME NEW w \in Workers, InitiateTransfer(w),
             payout' = [payout EXCEPT ![p] = [state |-> "processing", req |-> job[w].r,
                                              acct |-> PayoutDestination(job[w].r, job[w].current)]]
      PROVE  Followed(p)
  <2>1. /\ payout'[p].req = job[w].r
        /\ req[job[w].r].acct # None => payout'[p].acct = req[job[w].r].acct
    BY <1>0, <1>2 DEF TypeOK, PayoutDestination
  <2>2. job[w].r \in Rows
    BY <1>2, TransferFacts
  <2> QED BY <1>0, <2>1, <2>2, HistoryStep
<1>3. CASE payout'[p] = payout[p]
  BY <1>1, <1>3
<1>4. payout[p] \in CreatedPayout => payout[p].state # "none"
  BY DEF CreatedPayout
<1> QED BY <1>0, <1>1, <1>2, <1>3, <1>4, PayoutStep

\* A transfer is made only where no live one of its request exists: RazorpayX's
\* reference id keeps two initiations from paying the same request.
LEMMA OneLiveStep == BookInv /\ [Next]_vars => OneLivePayout'
<1> SUFFICES ASSUME BookInv, [Next]_vars, NEW p \in Payouts, NEW q \in Payouts,
                    payout'[p].req = payout'[q].req,
                    payout'[p].state \in {"processing", "processed"},
                    payout'[q].state \in {"processing", "processed"}
             PROVE  p = q
  BY DEF OneLivePayout
<1>0. TypeOK
  BY DEF BookInv
<1> DEFINE New(x) == \E w \in Workers :
                        /\ InitiateTransfer(w) /\ payout[x].state = "none" /\ LivePayouts(job[w].r) = {}
                        /\ payout' = [payout EXCEPT ![x] = [state |-> "processing", req |-> job[w].r,
                                                            acct |-> PayoutDestination(job[w].r, job[w].current)]]
<1>1. ASSUME NEW x \in Payouts, payout'[x].state \in {"processing", "processed"}
      PROVE  \/ New(x)
             \/ payout[x].state \in {"processing", "processed"} /\ payout'[x].req = payout[x].req
  BY <1>0, <1>1, PayoutStep
<1>2. ASSUME NEW x \in Payouts, NEW y \in Payouts, New(x), y # x,
             payout'[y].state \in {"processing", "processed"}, payout'[y].req = payout'[x].req
      PROVE  FALSE
  BY <1>0, <1>2 DEF TypeOK, LivePayouts
<1>3. CASE New(p) \/ New(q)
  BY <1>2, <1>3
<1>4. CASE ~New(p) /\ ~New(q)
  <2> HIDE DEF New
  <2> QED BY <1>1, <1>4 DEF BookInv, OneLivePayout
<1> QED BY <1>3, <1>4

\* The handler that made a payout keeps knowing whose it is.
LEMMA InitiatorStep ==
    ASSUME BookInv, [Next]_vars, NEW v \in Workers,
           job'[v].op = "initiate", job'[v].at \in {"recheck", "cas"}
    PROVE  payout'[job'[v].p].req = job'[v].r
<1>0. TypeOK
  BY DEF BookInv
<1>1. ASSUME job[v].op = "initiate", job[v].at \in {"recheck", "cas"},
             job'[v].p = job[v].p, job'[v].r = job[v].r
      PROVE  payout'[job'[v].p].req = job'[v].r
  <2>1. job[v].p \in Payouts /\ job[v].r \in Requests
    BY <1>0, <1>1 DEF TypeOK, Job
  <2>2. payout[job[v].p].req = job[v].r
    BY <1>1 DEF BookInv, PayoutsHaveRows
  <2>3. payout[job[v].p].state # "none"
    BY <1>0, <2>1, <2>2 DEF TypeOK, PayoutRow, NoPayout, CreatedPayout
  <2> QED BY <1>0, <1>1, <2>1, <2>2, <2>3, PayoutStep
<1>2. CASE job'[v] = job[v]
  BY <1>1, <1>2
<1>3. ASSUME NEW w \in Workers, Start(w), job'[v] # job[v] PROVE FALSE
  BY <1>0, <1>3 DEF Start, CreateReadMember, MarkPaidFind, InitiateRead, CheckStatus, HandleWebhook,
      ApplyJob, Begin, TypeOK
<1>4. ASSUME NEW w \in Workers, InitiateTransfer(w), job'[v] # job[v]
      PROVE  payout'[job'[v].p].req = job'[v].r
  <2>1. v = w
    BY <1>0, <1>4 DEF InitiateTransfer, TypeOK
  <2>2. PICK p \in Payouts : payout'[p].req = job[w].r /\ job' = [job EXCEPT ![w].at = "recheck", ![w].p = p]
    BY <1>4, TransferFacts
  <2>3. job[w].op = "initiate" /\ job[w] \in Job
    BY <1>0, <1>4 DEF InitiateTransfer, At, TypeOK
  <2>4. job'[w].p = p /\ job'[w].r = job[w].r
    BY <1>0, <2>2, <2>3 DEF TypeOK, Job
  <2> QED BY <2>1, <2>2, <2>4
<1>5. ASSUME NEW w \in Workers, InitiateRecheckEligible(w), job'[v] # job[v]
      PROVE  payout'[job'[v].p].req = job'[v].r
  BY <1>0, <1>1, <1>5 DEF InitiateRecheckEligible, ProceedIfEligible, At, Goto, Finish, TypeOK, Job
<1>6. ASSUME NEW w \in Workers, Proceed(w) \/ Abort(w), ~InitiateTransfer(w), ~InitiateRecheckEligible(w),
             job'[v] # job[v]
      PROVE  FALSE
  <2>1. CASE Finish(w)
    BY <1>0, <1>6, <2>1 DEF Finish, TypeOK
  <2>2. CASE CreateReadSettings(w) \/ CreateCheckBalance(w) \/ CheckStatusPoll(w) \/ PaidFromPayoutFind(w)
    BY <1>0, <1>6, <2>1, <2>2 DEF CreateReadSettings, CreateCheckBalance, CheckStatusPoll, PaidFromPayoutFind,
        ApplyJob, At, Goto, TypeOK, Job
  <2>3. CASE MarkPaidCheckEligible(w) \/ InitiateCheckEligible(w)
    BY <1>0, <1>6, <2>1, <2>3 DEF MarkPaidCheckEligible, InitiateCheckEligible, ProceedIfEligible, At, Goto,
        TypeOK, Job
  <2> QED BY <1>6, <2>1, <2>2, <2>3 DEF Proceed, CreateInsert, MarkPaidCas, InitiateRefused,
          InitiateCas, PaidFromPayoutCas, Settle, MarkPayoutFailed, Abort
<1>7. CASE Environment \/ UNCHANGED vars
  BY <1>2, <1>7 DEF Environment, PayoutSettles, PayoutReversed, PayoutOutcome, Suspend, Reactivate,
      MarkDeceased, CreditPoints, SaveKyc, SetMember, NextDay, vars
<1> QED BY <1>2, <1>3, <1>4, <1>5, <1>6, <1>7 DEF Next

\* The invariant of the books holds where NMMS starts.
LEMMA BookInit == Init => BookInv
<1> SUFFICES ASSUME Init PROVE BookInv
  OBVIOUS
<1>1. PaidIffDebited
  BY LegacyRows, NothingRuns DEF PaidIffDebited
<1> QED BY <1>1, TypeInit, NothingRuns DEF BookInv, OneLivePayout, SnapshotKept, PayoutsHaveRows, NoPayout

\* No step breaks the invariant of the books.
LEMMA BookStep == BookInv /\ [Next]_vars => BookInv'
<1> SUFFICES ASSUME BookInv, [Next]_vars PROVE BookInv'
  OBVIOUS
<1>1. TypeOK /\ HandledRowsExist /\ PaidIffDebited
  BY DEF BookInv
<1>2. PayoutsHaveRows'
  BY SnapshotStep, InitiatorStep DEF PayoutsHaveRows
<1> QED BY <1>1, <1>2, TypeStep, DebitStep, HandledRowsStep, SnapshotStep, OneLiveStep DEF BookInv

-----------------------------------------------------------------------------
(* Theorems.                                                               *)

\* The invariant of the books always holds.
LEMMA BookAlways == Spec => []BookInv
  BY BookInit, BookStep, PTL DEF Spec

\* Every variable keeps its type, whatever handlers, members and RazorpayX do.
THEOREM TypeCorrect == Spec => []TypeOK
<1>1. BookInv => TypeOK
  BY DEF BookInv
<1> QED BY <1>1, BookAlways, PTL

\* A request is PAID exactly when the ledger holds its one debit row: manual
\* and gateway settlement, retries and repeated webhooks never settle twice.
THEOREM PaidExactlyOnce == Spec => []PaidIffDebited
<1>1. BookInv => PaidIffDebited
  BY DEF BookInv
<1> QED BY <1>1, BookAlways, PTL

\* At most one transfer of a request is live, and all those of a request that
\* recorded a destination go there, whatever the member saves in between.
THEOREM TransfersFaithful == Spec => []TransfersFollowRequest
<1>1. BookInv => TransfersFollowRequest
  <2> SUFFICES ASSUME BookInv, NEW r \in Rows
               PROVE  /\ Cardinality(LivePayouts(r)) <= 1
                      /\ \A p \in Payouts : payout[p].req = r /\ req[r].acct # None => payout[p].acct = req[r].acct
    BY DEF TransfersFollowRequest
  <2>1. Cardinality(LivePayouts(r)) <= 1
    <3>1. CASE LivePayouts(r) = {}
      BY <3>1, FS_EmptySet
    <3>2. ASSUME NEW p \in LivePayouts(r) PROVE Cardinality(LivePayouts(r)) <= 1
      <4>1. LivePayouts(r) = {p}
        BY <3>2 DEF LivePayouts, BookInv, OneLivePayout
      <4>2. Cardinality({p}) = 1
        BY FS_Singleton
      <4> QED BY <4>1, <4>2
    <3> QED BY <3>1, <3>2
  <2>2. ASSUME NEW p \in Payouts, payout[p].req = r, req[r].acct # None PROVE payout[p].acct = req[r].acct
    <3>1. r \in Requests
      BY DEF Rows
    <3>2. payout[p].state # "none"
      BY <2>2, <3>1 DEF BookInv, TypeOK, PayoutRow, NoPayout, CreatedPayout
    <3> QED BY <2>2, <3>2 DEF BookInv, SnapshotKept
  <2> QED BY <2>1, <2>2
<1> QED BY <1>1, BookAlways, PTL

\* No step rewrites what a request promised, and none touches a PAID one.
THEOREM HistoryKept == Spec => RequestHistory
<1>1. BookInv /\ [Next]_vars
        => [\A r \in Rows :
              /\ req'[r].member = req[r].member /\ req'[r].points = req[r].points
              /\ req'[r].acct = req[r].acct /\ req'[r].day = req[r].day
              /\ req[r].status = "PAID" => req'[r] = req[r]]_vars
  BY HistoryStep DEF BookInv
<1> QED BY <1>1, BookAlways, PTL DEF Spec, RequestHistory

-----------------------------------------------------------------------------
(* The recorded outcomes, for a gateway that does not reverse payouts.     *)

\* A payout that was made stays one for the same request, and its final state
\* stays.
LEMMA FinalStays ==
    ASSUME ~Reversals, TypeOK, [Next]_vars, NEW p \in Payouts, payout[p].state # "none"
    PROVE  /\ payout'[p].req = payout[p].req
           /\ payout'[p].state # "none"
           /\ payout[p].state # "processing" => payout'[p].state = payout[p].state
  BY PayoutStep DEF CreatedPayout

\* What an action makes of one request, with what its handler knows.
LEMMA OneRequestStep ==
    ASSUME SettlementInv, [Next]_vars, NEW r \in Requests
    PROVE  \/ req'[r] = req[r]
           \/ /\ req'[r].status = "APPROVED" /\ req'[r].payoutId = None /\ req'[r].paidBy = None
              /\ req[r].status = "NONE"
           \/ /\ req[r].status \in PAYABLE_STATUSES /\ req'[r].status = "PAID" /\ req'[r].paidBy = "staff"
              /\ req'[r].payoutId = req[r].payoutId
           \/ /\ req[r].status = "PAYOUT_PROCESSING" /\ req'[r].status = "PAID" /\ req'[r].paidBy = "gateway"
              /\ req'[r].payoutId = req[r].payoutId
              /\ \E w \in Workers : At(w, "apply", "cas") /\ job[w].r = r
           \/ /\ req[r].status \in PAYABLE_STATUSES /\ req'[r].status = "PAYOUT_PROCESSING"
              /\ req'[r].paidBy = req[r].paidBy
              /\ req'[r].payoutId \in Payouts /\ payout[req'[r].payoutId].req = r
           \/ /\ req[r].status = "PAYOUT_PROCESSING" /\ req'[r].status = "PAYOUT_FAILED"
              /\ req'[r].paidBy = req[r].paidBy /\ req'[r].payoutId = req[r].payoutId
              /\ payout[req[r].payoutId].state \in {"failed", "reversed"}
<1>0. TypeOK
  BY DEF SettlementInv, BookInv
<1>1. ASSUME NEW q \in Requests, Inserts(q)
      PROVE  \/ req'[r] = req[r]
             \/ /\ req'[r].status = "APPROVED" /\ req'[r].payoutId = None /\ req'[r].paidBy = None
                /\ req[r].status = "NONE"
  BY <1>0, <1>1 DEF Inserts, NewRequest, Rows, TypeOK
<1>2. ASSUME NEW q \in Requests, Settles(q, PAYABLE_STATUSES, "staff"), req'[r] # req[r]
      PROVE  /\ req[r].status \in PAYABLE_STATUSES /\ req'[r].status = "PAID" /\ req'[r].paidBy = "staff"
             /\ req'[r].payoutId = req[r].payoutId
  <2>1. q = r
    BY <1>0, <1>2 DEF Settles, TypeOK
  <2>2. req[r] \in InsertedRow /\ req[r].status \in PAYABLE_STATUSES
    BY <1>0, <1>2, <2>1, RowType DEF Settles, CanSettle, PAYABLE_STATUSES
  <2> QED BY <1>0, <1>2, <2>1, <2>2 DEF Settles, TypeOK, InsertedRow
<1>3. ASSUME NEW q \in Requests, Settles(q, {"PAYOUT_PROCESSING"}, "gateway"), req'[r] # req[r]
      PROVE  /\ req[r].status = "PAYOUT_PROCESSING" /\ req'[r].status = "PAID" /\ req'[r].paidBy = "gateway"
             /\ req'[r].payoutId = req[r].payoutId
             /\ \E w \in Workers : At(w, "apply", "cas") /\ job[w].r = r
  <2>1. q = r
    BY <1>0, <1>3 DEF Settles, TypeOK
  <2>2. req[r] \in InsertedRow /\ req[r].status = "PAYOUT_PROCESSING"
    BY <1>0, <1>3, <2>1, RowType DEF Settles, CanSettle
  <2> QED BY <1>0, <1>3, <2>1, <2>2 DEF Settles, TypeOK, InsertedRow
<1>4. ASSUME NEW q \in Requests, NEW p \in Payouts, Records(q, p), req'[r] # req[r]
      PROVE  /\ req[r].status \in PAYABLE_STATUSES /\ req'[r].status = "PAYOUT_PROCESSING"
             /\ req'[r].paidBy = req[r].paidBy
             /\ req'[r].payoutId \in Payouts /\ payout[req'[r].payoutId].req = r
  <2>1. q = r
    BY <1>0, <1>4 DEF Records, TypeOK
  <2>2. req[r] \in InsertedRow /\ req[r].status \in PAYABLE_STATUSES
    BY <1>0, <1>4, <2>1, RowType DEF Records, CanInitiate, PAYABLE_STATUSES
  <2>3. payout[p].req = r
    BY <1>4, <2>1 DEF Records, At, SettlementInv, BookInv, PayoutsHaveRows
  <2> QED BY <1>0, <1>4, <2>1, <2>2, <2>3 DEF Records, TypeOK, InsertedRow
<1>5. ASSUME NEW p \in Payouts, Fails(p), req'[r] # req[r]
      PROVE  /\ req[r].status = "PAYOUT_PROCESSING" /\ req'[r].status = "PAYOUT_FAILED"
             /\ req'[r].paidBy = req[r].paidBy /\ req'[r].payoutId = req[r].payoutId
             /\ payout[req[r].payoutId].state \in {"failed", "reversed"}
  <2>1. CanFail(r, p)
    BY <1>0, <1>5 DEF Fails, TypeOK
  <2>2. req[r] \in InsertedRow
    BY <1>0, <2>1, RowType DEF CanFail
  <2>3. payout[p].state \in {"failed", "reversed"}
    BY <1>5 DEF Fails, SettlementInv, OutcomeInv, ResultsStayTrue
  <2> QED BY <1>0, <1>5, <2>1, <2>2, <2>3 DEF Fails, CanFail, TypeOK, InsertedRow
<1>6. CASE UNCHANGED req
  BY <1>6
<1> QED BY <1>0, <1>1, <1>2, <1>3, <1>4, <1>5, <1>6, RequestSteps

\* The columns of a request stay in step with its status.
LEMMA ShapeStep == SettlementInv /\ [Next]_vars => StatusShape'
<1> SUFFICES ASSUME SettlementInv, [Next]_vars, NEW r \in Requests
             PROVE  /\ req'[r].paidBy # None => req'[r].status = "PAID"
                    /\ req'[r].status = "APPROVED" => req'[r].payoutId = None
  BY DEF StatusShape
<1>1. /\ req[r].paidBy # None => req[r].status = "PAID"
      /\ req[r].status = "APPROVED" => req[r].payoutId = None
  BY DEF SettlementInv, OutcomeInv, StatusShape
<1> QED BY <1>1, OneRequestStep DEF PAYABLE_STATUSES

\* No step records an outcome that the payout on record did not have.
LEMMA OutcomeStep == ~Reversals /\ SettlementInv /\ [Next]_vars => OutcomesAreTrue'
<1> SUFFICES ASSUME ~Reversals, SettlementInv, [Next]_vars, NEW r \in Requests
             PROVE  /\ req'[r].payoutId # None => payout'[req'[r].payoutId].req = r
                    /\ req'[r].status = "PAYOUT_PROCESSING" => req'[r].payoutId # None
                    /\ req'[r].status = "PAYOUT_FAILED" =>
                          req'[r].payoutId # None /\ payout'[req'[r].payoutId].state \in {"failed", "reversed"}
                    /\ req'[r].paidBy = "gateway" =>
                          req'[r].payoutId # None /\ payout'[req'[r].payoutId].state \in {"processed", "reversed"}
  BY DEF OutcomesAreTrue, PayoutOnRecord
<1>0. TypeOK
  BY DEF SettlementInv, BookInv
<1>1. /\ req[r].payoutId # None => payout[req[r].payoutId].req = r
      /\ req[r].status = "PAYOUT_PROCESSING" => req[r].payoutId # None
      /\ req[r].status = "PAYOUT_FAILED" =>
            req[r].payoutId # None /\ payout[req[r].payoutId].state \in {"failed", "reversed"}
      /\ req[r].paidBy = "gateway" =>
            req[r].payoutId # None /\ payout[req[r].payoutId].state \in {"processed", "reversed"}
  BY DEF SettlementInv, OutcomeInv, OutcomesAreTrue, PayoutOnRecord
<1>2. req[r].payoutId \in Payouts \cup {None}
  BY <1>0 DEF TypeOK, RequestRow, InsertedRow, NoRequest
<1>3. ASSUME NEW p \in Payouts, payout[p].req = r
      PROVE  /\ payout'[p].req = r
             /\ payout[p].state # "processing" => payout'[p].state = payout[p].state
  <2>1. payout[p].state # "none"
    BY <1>0, <1>3 DEF TypeOK, PayoutRow, NoPayout, CreatedPayout
  <2> QED BY <1>0, <1>3, <2>1, FinalStays
<1>4. ASSUME NEW w \in Workers, At(w, "apply", "cas"), job[w].r = r
      PROVE  payout[req[r].payoutId].state = "processed"
  BY <1>4 DEF SettlementInv, OutcomeInv, ResultsStayTrue
<1> DEFINE Kept == req'[r] = req[r]
            Made == /\ req'[r].status = "APPROVED" /\ req'[r].payoutId = None /\ req'[r].paidBy = None
            ByStaff == /\ req'[r].status = "PAID" /\ req'[r].paidBy = "staff"
                       /\ req'[r].payoutId = req[r].payoutId
            ByGateway == /\ req'[r].status = "PAID" /\ req[r].status = "PAYOUT_PROCESSING"
                         /\ req'[r].payoutId = req[r].payoutId
                         /\ \E w \in Workers : At(w, "apply", "cas") /\ job[w].r = r
            Sent == /\ req'[r].status = "PAYOUT_PROCESSING" /\ req'[r].paidBy = req[r].paidBy
                    /\ req[r].status \in PAYABLE_STATUSES
                    /\ req'[r].payoutId \in Payouts /\ payout[req'[r].payoutId].req = r
            Failed == /\ req'[r].status = "PAYOUT_FAILED" /\ req[r].status = "PAYOUT_PROCESSING"
                      /\ req'[r].paidBy = req[r].paidBy /\ req'[r].payoutId = req[r].payoutId
                      /\ payout[req[r].payoutId].state \in {"failed", "reversed"}
<1>5. Kept \/ Made \/ ByStaff \/ ByGateway \/ Sent \/ Failed
  BY OneRequestStep
<1>6. req[r].paidBy # None => req[r].status = "PAID"
  BY DEF SettlementInv, OutcomeInv, StatusShape
<1>7. None \notin Payouts
  BY NoneAssumption
<1>a. CASE Kept
  BY <1>a, <1>1, <1>2, <1>3
<1>b. CASE Made
  BY <1>b, NoneAssumption
<1>c. CASE ByStaff
  BY <1>c, <1>1, <1>2, <1>3
<1>d. CASE ByGateway
  BY <1>d, <1>1, <1>2, <1>3, <1>4
<1>e. CASE Sent
  BY <1>e, <1>3, <1>6, <1>7, NoneAssumption DEF PAYABLE_STATUSES
<1>f. CASE Failed
  BY <1>f, <1>1, <1>2, <1>3, <1>6, <1>7, NoneAssumption
<1> QED BY <1>5, <1>a, <1>b, <1>c, <1>d, <1>e, <1>f

\* What a worker that carries a payout's result, or polls for one, did in this
\* step: nothing, or it just learned what it carries.
LEMMA CarrierStep ==
    ASSUME TypeOK, [Next]_vars, NEW v \in Workers, job'[v].op \in {"check", "apply"}
    PROVE  \/ job'[v] = job[v]
           \/ \E r \in Requests : /\ req[r].payoutId # None
                                  /\ job'[v] = [op |-> "check", at |-> "poll", p |-> req[r].payoutId]
                                  /\ UNCHANGED <<req, payout>>
           \/ \E p \in Payouts, s \in {"processed", "failed", "reversed"} :
                 /\ s = payout[p].state \/ payout[p].state = "reversed"
                 /\ job'[v] = ApplyJob(p, s)
                 /\ UNCHANGED <<req, payout>>
           \/ \E r \in Requests : /\ At(v, "apply", "find") /\ req[r].payoutId = job[v].p
                                  /\ job'[v].op = "apply" /\ job'[v].at = "cas"
                                  /\ job'[v].p = job[v].p /\ job'[v].r = r
                                  /\ UNCHANGED <<req, payout>>
<1> DEFINE Same == job'[v] = job[v]
           Polls == \E r \in Requests : /\ req[r].payoutId # None
                                        /\ job'[v] = [op |-> "check", at |-> "poll", p |-> req[r].payoutId]
                                        /\ UNCHANGED <<req, payout>>
           Learns == \E p \in Payouts, s \in {"processed", "failed", "reversed"} :
                        /\ s = payout[p].state \/ payout[p].state = "reversed"
                        /\ job'[v] = ApplyJob(p, s)
                        /\ UNCHANGED <<req, payout>>
           Found == \E r \in Requests : /\ At(v, "apply", "find") /\ req[r].payoutId = job[v].p
                                        /\ job'[v].op = "apply" /\ job'[v].at = "cas"
                                        /\ job'[v].p = job[v].p /\ job'[v].r = r
                                        /\ UNCHANGED <<req, payout>>
<1>1. ASSUME NEW w \in Workers, Start(w), ~Same PROVE Polls \/ Learns
  <2>1. CASE \/ \E m \in Members, n \in 1..MaxBalance : CreateReadMember(w, m, n)
             \/ \E r \in Requests : MarkPaidFind(w, r) \/ InitiateRead(w, r)
    BY <1>1, <2>1 DEF CreateReadMember, MarkPaidFind, InitiateRead, Begin, TypeOK
  <2>2. CASE \E r \in Requests : CheckStatus(w, r)
    BY <1>1, <2>2 DEF CheckStatus, Begin, TypeOK
  <2>3. ASSUME NEW p \in Payouts, HandleWebhook(w, p) PROVE Learns
    <3>1. PICK s \in Announced(p) : Begin(w, ApplyJob(p, s))
      BY <2>3 DEF HandleWebhook
    <3>2. /\ s \in {"processed", "failed", "reversed"}
          /\ s = payout[p].state \/ payout[p].state = "reversed"
      BY <3>1 DEF Announced
    <3>3. job'[v] = ApplyJob(p, s)
      BY <1>1, <3>1 DEF Begin, TypeOK
    <3> QED BY <2>3, <3>2, <3>3 DEF HandleWebhook
  <2> QED BY <1>1, <2>1, <2>2, <2>3 DEF Start
<1>2. ASSUME NEW w \in Workers, CheckStatusPoll(w), ~Same PROVE Learns
  <2>1. job[w].p \in Payouts
    BY <1>2 DEF CheckStatusPoll, At, TypeOK, Job
  <2>2. ~Finish(w)
    BY <1>2 DEF Finish, TypeOK
  <2>3. IsFinal(payout[job[w].p].state) /\ job' = [job EXCEPT ![w] = ApplyJob(job[w].p, payout[job[w].p].state)]
    BY <1>2, <2>2 DEF CheckStatusPoll
  <2> QED BY <1>2, <2>1, <2>3 DEF CheckStatusPoll, IsFinal, TypeOK
<1>3. ASSUME NEW w \in Workers, PaidFromPayoutFind(w), ~Same PROVE Found
  <2>1. ~Finish(w)
    BY <1>3 DEF Finish, TypeOK
  <2>2. PICK r \in Requests : /\ req[r].payoutId = job[w].p
                              /\ job' = [job EXCEPT ![w].at = "cas", ![w].r = r]
    BY <1>3, <2>1 DEF PaidFromPayoutFind
  <2>3. v = w
    BY <1>3, <2>2 DEF TypeOK
  <2>4. job[v] \in Job /\ job[v].op = "apply" /\ job[v].at = "find"
    BY <1>3, <2>3 DEF PaidFromPayoutFind, At, TypeOK
  <2>5. job'[v] = [job[v] EXCEPT !.at = "cas", !.r = r]
    BY <2>2, <2>3 DEF TypeOK
  <2>6. job'[v].op = "apply" /\ job'[v].at = "cas" /\ job'[v].p = job[v].p /\ job'[v].r = r
    BY <2>4, <2>5 DEF Job
  <2> QED BY <1>3, <2>2, <2>3, <2>6 DEF PaidFromPayoutFind
<1>4. ASSUME NEW w \in Workers, Proceed(w) \/ Abort(w), ~CheckStatusPoll(w), ~PaidFromPayoutFind(w), ~Same
      PROVE  FALSE
  <2>1. CASE Finish(w)
    BY <1>4, <2>1 DEF Finish, TypeOK
  <2>2. CASE CreateReadSettings(w) \/ CreateCheckBalance(w)
    BY <1>4, <2>1, <2>2 DEF CreateReadSettings, CreateCheckBalance, At, Goto, TypeOK, Job
  <2>3. CASE MarkPaidCheckEligible(w) \/ InitiateCheckEligible(w) \/ InitiateRecheckEligible(w)
    BY <1>4, <2>1, <2>3 DEF MarkPaidCheckEligible, InitiateCheckEligible, InitiateRecheckEligible,
        ProceedIfEligible, At, Goto, TypeOK, Job
  <2>4. CASE InitiateTransfer(w)
    BY <1>4, <2>4 DEF InitiateTransfer, At, TypeOK, Job
  <2> QED BY <1>4, <2>1, <2>2, <2>3, <2>4 DEF Proceed, CreateInsert, MarkPaidCas, InitiateRefused,
          InitiateCas, PaidFromPayoutCas, Settle, MarkPayoutFailed, Abort
<1>5. ASSUME Environment \/ UNCHANGED vars PROVE Same
  BY <1>5 DEF Environment, PayoutSettles, PayoutReversed, PayoutOutcome, Suspend, Reactivate,
      MarkDeceased, CreditPoints, SaveKyc, SetMember, NextDay, vars
<1> HIDE DEF Same, Polls, Learns, Found
<1>6. Same \/ Polls \/ Learns \/ Found
  BY <1>1, <1>2, <1>3, <1>4, <1>5 DEF Next
<1> QED BY <1>6 DEF Same, Polls, Learns, Found

\* What handlers know about payouts and requests stays true.
LEMMA ResultsStep == ~Reversals /\ SettlementInv /\ [Next]_vars => ResultsStayTrue' /\ NothingReversed'
<1> SUFFICES ASSUME ~Reversals, SettlementInv, [Next]_vars PROVE ResultsStayTrue' /\ NothingReversed'
  OBVIOUS
<1>0. TypeOK /\ TypeOK'
  BY TypeStep DEF SettlementInv, BookInv
<1>1. NothingReversed'
  BY <1>0, PayoutStep DEF SettlementInv, OutcomeInv, NothingReversed, TypeOK
<1>2. ASSUME NEW p \in Payouts, payout[p].state # "none"
      PROVE  /\ payout'[p].state # "none"
             /\ payout[p].state # "processing" => payout'[p].state = payout[p].state
  BY <1>0, <1>2, FinalStays
<1>3. ASSUME NEW v \in Workers, At(v, "apply", "cas")
      PROVE  /\ job[v].p \in Payouts /\ payout[job[v].p].state = "processed"
             /\ req'[job[v].r].payoutId = job[v].p
             /\ req'[job[v].r].status \in {"PAYOUT_PROCESSING", "PAID"}
  <2>1. job[v].p \in Payouts /\ job[v].r \in Requests
    BY <1>0, <1>3 DEF At, TypeOK, Job
  <2>2. /\ payout[job[v].p].state = "processed" /\ req[job[v].r].payoutId = job[v].p
        /\ req[job[v].r].status \in {"PAYOUT_PROCESSING", "PAID"}
    BY <1>3 DEF SettlementInv, OutcomeInv, ResultsStayTrue
  <2>3. \/ req'[job[v].r] = req[job[v].r]
        \/ req'[job[v].r].status = "PAID" /\ req'[job[v].r].payoutId = job[v].p
    BY <2>1, <2>2, OneRequestStep DEF PAYABLE_STATUSES
  <2> QED BY <2>1, <2>2, <2>3
<1>4. ASSUME NEW v \in Workers, job'[v].op \in {"check", "apply"}
      PROVE  /\ job'[v].op = "check" => payout'[job'[v].p].state # "none"
             /\ job'[v].op = "apply" /\ job'[v].at = "find" => payout'[job'[v].p].state = "processed"
             /\ job'[v].op = "apply" /\ job'[v].at = "fail" =>
                   payout'[job'[v].p].state \in {"failed", "reversed"}
             /\ job'[v].op = "apply" /\ job'[v].at = "cas" =>
                   /\ payout'[job'[v].p].state = "processed"
                   /\ req'[job'[v].r].payoutId = job'[v].p
                   /\ req'[job'[v].r].status \in {"PAYOUT_PROCESSING", "PAID"}
  <2>1. CASE job'[v] = job[v]
    <3>1. job[v].p \in Payouts
      BY <1>0, <1>4, <2>1 DEF TypeOK, Job
    <3>2. /\ job[v].op = "check" => payout[job[v].p].state # "none"
          /\ At(v, "apply", "find") => payout[job[v].p].state = "processed"
          /\ At(v, "apply", "fail") => payout[job[v].p].state \in {"failed", "reversed"}
      BY DEF SettlementInv, OutcomeInv, ResultsStayTrue
    <3> QED BY <1>2, <1>3, <2>1, <3>1, <3>2 DEF At
  <2>2. ASSUME NEW r \in Requests, req[r].payoutId # None, UNCHANGED <<req, payout>>,
               job'[v] = [op |-> "check", at |-> "poll", p |-> req[r].payoutId]
        PROVE  job'[v].op = "check" /\ payout'[job'[v].p].state # "none"
    <3>1. req[r].payoutId \in Payouts /\ payout[req[r].payoutId].req = r
      BY <1>0, <2>2 DEF SettlementInv, OutcomeInv, OutcomesAreTrue, PayoutOnRecord, TypeOK,
          RequestRow, InsertedRow, NoRequest
    <3>2. payout[req[r].payoutId].state # "none"
      BY <1>0, <3>1, NoneAssumption DEF TypeOK, PayoutRow, NoPayout, CreatedPayout
    <3> QED BY <2>2, <3>2
  <2>3. ASSUME NEW p \in Payouts, NEW s \in {"processed", "failed", "reversed"}, UNCHANGED <<req, payout>>,
               s = payout[p].state \/ payout[p].state = "reversed", job'[v] = ApplyJob(p, s)
        PROVE  /\ job'[v].op = "apply" /\ job'[v].at \in {"find", "fail"}
               /\ job'[v].at = "find" => payout'[job'[v].p].state = "processed"
               /\ job'[v].at = "fail" => payout'[job'[v].p].state \in {"failed", "reversed"}
    BY <2>3 DEF ApplyJob, SettlementInv, OutcomeInv, NothingReversed
  <2>4. ASSUME NEW r \in Requests, At(v, "apply", "find"), req[r].payoutId = job[v].p, job'[v].op = "apply",
               job'[v].at = "cas", job'[v].p = job[v].p, job'[v].r = r, UNCHANGED <<req, payout>>
        PROVE  /\ payout'[job'[v].p].state = "processed"
               /\ req'[job'[v].r].payoutId = job'[v].p
               /\ req'[job'[v].r].status \in {"PAYOUT_PROCESSING", "PAID"}
    <3>1. payout[job[v].p].state = "processed" /\ job[v].p \in Payouts
      BY <1>0, <2>4 DEF SettlementInv, OutcomeInv, ResultsStayTrue, At, TypeOK, Job
    <3>2. req[r] \in RequestRow /\ job[v].p # None
      BY <1>0, <3>1, NoneAssumption DEF TypeOK
    <3>3. req[r] \in InsertedRow
      BY <2>4, <3>2 DEF RequestRow, NoRequest
    <3>4. req[r].status # "APPROVED" /\ req[r].status # "PAYOUT_FAILED"
      BY <2>4, <3>1, <3>2 DEF SettlementInv, OutcomeInv, OutcomesAreTrue, PayoutOnRecord, StatusShape
    <3>5. req[r].status \in {"PAYOUT_PROCESSING", "PAID"}
      BY <3>3, <3>4 DEF InsertedRow, RequestStatus
    <3> QED BY <2>4, <3>1, <3>5
  <2> QED BY <1>0, <1>4, <2>1, <2>2, <2>3, <2>4, CarrierStep
<1> QED BY <1>1, <1>4 DEF ResultsStayTrue, At

\* SettlementInv is inductive while RazorpayX takes no payout back.
LEMMA SettlementStep == ~Reversals /\ SettlementInv /\ [Next]_vars => SettlementInv'
  BY BookStep, OutcomeStep, ResultsStep, ShapeStep DEF SettlementInv, OutcomeInv

\* Where NMMS starts, no outcome is recorded and none is carried.
LEMMA SettlementInit == Init => SettlementInv
<1> SUFFICES ASSUME Init PROVE OutcomeInv
  BY BookInit DEF SettlementInv
<1>1. OutcomesAreTrue /\ StatusShape
  BY LegacyRows DEF OutcomesAreTrue, StatusShape
<1>2. ResultsStayTrue /\ NothingReversed
  BY NothingRuns DEF NoPayout, ResultsStayTrue, NothingReversed, At
<1> QED BY <1>1, <1>2 DEF OutcomeInv

\* The invariant that carries the proof, itself checked by TLC.
THEOREM SettlementHolds == ~Reversals /\ Spec => []SettlementInv
<1>1. CASE ~Reversals
  <2>1. SettlementInv /\ [Next]_vars => SettlementInv'
    BY <1>1, SettlementStep
  <2> QED BY <2>1, SettlementInit, PTL DEF Spec
<1>2. CASE Reversals
  BY <1>2
<1> QED BY <1>1, <1>2

\* If RazorpayX takes no payout back, what a request's row says of its payout
\* is what happened to it: late, repeated and reordered webhooks, polls, crashes
\* and concurrent staff never record an outcome that the transfer did not have.
THEOREM OutcomesTrue == ~Reversals /\ Spec => []OutcomesAreTrue
<1>1. SettlementInv => OutcomesAreTrue
  BY DEF SettlementInv, OutcomeInv
<1> QED BY <1>1, SettlementHolds, PTL

-----------------------------------------------------------------------------
(* The refinement of PointSpending.                                        *)

ClaimBar == [r \in Requests |-> [phase |-> PhaseOf(r), owner |-> req[r].member, points |-> req[r].points]]
SpentBar == [m \in Members |-> member[m].converted]

\* Handlers that write no request and convert no points are invisible.
LEMMA InvisibleStep ==
    ASSUME UNCHANGED req, \A m \in Members : member'[m].converted = member[m].converted
    PROVE  ClaimBar' = ClaimBar /\ SpentBar' = SpentBar
  BY DEF ClaimBar, SpentBar, PhaseOf

\* An inserted request is a claim made.
LEMMA InsertMakes ==
    ASSUME TypeOK, NEW r \in Requests, Inserts(r)
    PROVE  \E m \in Members, n \in WithdrawablePoints : Spending!Make(r, m, n)
<1>1. PICK m \in Members, n \in WithdrawablePoints, a \in Accounts :
         req' = [req EXCEPT ![r] = NewRequest(m, n, a)]
  BY DEF Inserts
<1>2. req[r].status = "NONE" /\ member' = member
  BY DEF Inserts, Rows
<1>3. ClaimBar[r].phase = "none"
  BY <1>2 DEF ClaimBar, PhaseOf
<1>4. ASSUME NEW q \in Requests
      PROVE  ClaimBar'[q] = IF q = r THEN [phase |-> "open", owner |-> m, points |-> n] ELSE ClaimBar[q]
  BY <1>1 DEF ClaimBar, PhaseOf, NewRequest, TypeOK
<1>5. ClaimBar' = [ClaimBar EXCEPT ![r] = [phase |-> "open", owner |-> m, points |-> n]]
  BY <1>4 DEF ClaimBar
<1>6. SpentBar' = SpentBar
  BY <1>2 DEF SpentBar
<1> QED BY <1>3, <1>5, <1>6 DEF Spending!Make, ClaimBar, SpentBar

\* A settlement, by either route, pays the claim and spends its points.
LEMMA SettlementPays ==
    ASSUME TypeOK, NEW r \in Requests, NEW from \in SUBSET {"APPROVED", "PAYOUT_FAILED", "PAYOUT_PROCESSING"},
           NEW by, Settles(r, from, by)
    PROVE  Spending!Pay(r)
<1>1. req[r].status \in from /\ req[r] \in InsertedRow
  BY RowType DEF Settles, CanSettle
<1>2. ClaimBar[r].phase = "open"
  BY <1>1 DEF ClaimBar, PhaseOf
<1>3. req' = [req EXCEPT ![r].status = "PAID", ![r].paidBy = by]
  BY DEF Settles
<1>4. req'[r] = [req[r] EXCEPT !.status = "PAID", !.paidBy = by]
  BY <1>3 DEF TypeOK
<1>5. req'[r].status = "PAID" /\ req'[r].member = req[r].member /\ req'[r].points = req[r].points
  BY <1>1, <1>4 DEF InsertedRow
<1>6. \A q \in Requests \ {r} : req'[q] = req[q]
  BY <1>3 DEF TypeOK
<1>7. \A q \in Requests : ClaimBar'[q] = IF q = r THEN [ClaimBar[r] EXCEPT !.phase = "paid"] ELSE ClaimBar[q]
  BY <1>5, <1>6 DEF ClaimBar, PhaseOf
<1>8. ClaimBar' = [ClaimBar EXCEPT ![r].phase = "paid"]
  BY <1>7 DEF ClaimBar
<1>9. \A m \in Members : member'[m].converted =
         IF m = req[r].member THEN member[m].converted + req[r].points ELSE member[m].converted
  BY <1>1 DEF Settles, ApplyPaidSideEffects, TypeOK, MemberRow, InsertedRow
<1>10. SpentBar' = [SpentBar EXCEPT ![ClaimBar[r].owner] = @ + ClaimBar[r].points]
  BY <1>1, <1>9 DEF SpentBar, ClaimBar, InsertedRow
<1> QED BY <1>2, <1>8, <1>10 DEF Spending!Pay, ClaimBar, SpentBar

\* Recording a payout, or its failure, leaves the claim open.
LEMMA PayoutInvisible ==
    ASSUME TypeOK, \/ \E r \in Requests, p \in Payouts : Records(r, p)
                   \/ \E p \in Payouts : Fails(p)
    PROVE  ClaimBar' = ClaimBar /\ SpentBar' = SpentBar
<1>1. SpentBar' = SpentBar
  BY DEF Records, Fails, SpentBar
<1>2. ASSUME NEW q \in Requests, req'[q] # req[q]
      PROVE  /\ req[q] \in InsertedRow /\ req[q].status \in {"APPROVED", "PAYOUT_FAILED", "PAYOUT_PROCESSING"}
             /\ req'[q].status \in {"PAYOUT_FAILED", "PAYOUT_PROCESSING"}
             /\ req'[q].member = req[q].member /\ req'[q].points = req[q].points
  <2>1. /\ req[q].status \in {"APPROVED", "PAYOUT_FAILED", "PAYOUT_PROCESSING"}
        /\ \/ req'[q] = [req[q] EXCEPT !.status = "PAYOUT_FAILED"]
           \/ \E p \in Payouts : req'[q] = [req[q] EXCEPT !.status = "PAYOUT_PROCESSING", !.payoutId = p]
    BY <1>2 DEF Records, Fails, CanInitiate, CanFail, PAYABLE_STATUSES, TypeOK
  <2>2. req[q] \in InsertedRow
    BY <2>1, RowType
  <2> QED BY <2>1, <2>2 DEF InsertedRow
<1>3. ASSUME NEW q \in Requests PROVE ClaimBar'[q] = ClaimBar[q]
  <2>1. CASE req'[q] = req[q]
    BY <2>1 DEF ClaimBar, PhaseOf
  <2>2. CASE req'[q] # req[q]
    BY <1>2, <2>2 DEF ClaimBar, PhaseOf
  <2> QED BY <2>1, <2>2
<1>4. ClaimBar' = ClaimBar
  BY <1>3 DEF ClaimBar
<1> QED BY <1>1, <1>4

\* WithdrawalsService and PayoutGatewayService implement PointSpending: with all
\* their handlers, retries, webhooks and failures, a claim on points is paid at
\* most once, and the points leave the balance in the step that pays it.
THEOREM SpendingImplemented == Spec => SpendingSpec
<1>1. Init => Spending!Init
  <2> SUFFICES ASSUME Init PROVE Spending!Init
    OBVIOUS
  <2>1. SpentBar = [m \in Members |-> 0]
    BY MemberInit DEF SpentBar
  <2>2. ASSUME NEW r \in Requests PROVE ClaimBar[r] \in {Spending!Unmade} \cup Spending!OpenClaims
    <3>1. CASE req[r] = NoRequest
      BY <3>1 DEF ClaimBar, PhaseOf, NoRequest, Spending!Unmade
    <3>2. CASE req[r].status = "APPROVED"
      BY <3>2, LegacyRows DEF ClaimBar, PhaseOf, RequestRow, NoRequest, InsertedRow, Spending!OpenClaims
    <3> QED BY <3>1, <3>2, LegacyRows
  <2>3. ClaimBar \in [Requests -> {Spending!Unmade} \cup Spending!OpenClaims]
    BY <2>2 DEF ClaimBar
  <2> QED BY <2>1, <2>3 DEF Spending!Init, ClaimBar, SpentBar
<1>2. TypeOK /\ [Next]_vars => [Spending!Next]_<<ClaimBar, SpentBar>>
  <2> SUFFICES ASSUME TypeOK, [Next]_vars PROVE Spending!Next \/ UNCHANGED <<ClaimBar, SpentBar>>
    OBVIOUS
  <2>1. ASSUME NEW r \in Requests, Inserts(r) PROVE Spending!Next
    BY <2>1, InsertMakes DEF Spending!Next
  <2>2. ASSUME NEW r \in Requests,
               Settles(r, PAYABLE_STATUSES, "staff") \/ Settles(r, {"PAYOUT_PROCESSING"}, "gateway")
        PROVE  Spending!Next
    <3>1. Spending!Pay(r)
      BY <2>2, SettlementPays DEF PAYABLE_STATUSES
    <3> QED BY <3>1 DEF Spending!Next
  <2>3. CASE \/ \E r \in Requests, p \in Payouts : Records(r, p)
             \/ \E p \in Payouts : Fails(p)
    BY <2>3, PayoutInvisible
  <2>4. CASE UNCHANGED <<req, debits>> /\ \A m \in Members : KeepsTotals(m)
    BY <2>4, InvisibleStep DEF KeepsTotals
  <2> QED BY <2>1, <2>2, <2>3, <2>4, RequestSteps
<1> QED BY <1>1, <1>2, TypeCorrect, PTL DEF Spec, SpendingSpec, Spending!Spec, ClaimBar, SpentBar

-----------------------------------------------------------------------------
(* The books: totals and promised points as sums over requests.            *)

\* A request's points and its net amount are numbers.
LEMMA RowAmounts ==
    ASSUME TypeOK, NEW r \in Rows
    PROVE  /\ r \in Requests /\ req[r].points \in WithdrawablePoints /\ req[r].points \in Nat /\ req[r].points > 0
           /\ NetAmount[req[r].points] \in Nat /\ req[r].member \in Members
<1>1. r \in Requests /\ req[r].points \in WithdrawablePoints /\ req[r].member \in Members
  BY RowType DEF Rows, InsertedRow
<1>2. \A n \in WithdrawablePoints : n \in Nat /\ n > 0 /\ NetAmount[n] \in Nat
  OBVIOUS
<1> QED BY <1>1, <1>2

\* What a settlement does.
LEMMA SettledRow ==
    ASSUME TypeOK, NEW r \in Requests, NEW from \in SUBSET {"APPROVED", "PAYOUT_FAILED", "PAYOUT_PROCESSING"},
           NEW by, Settles(r, from, by)
    PROVE  /\ r \in Rows /\ Rows' = Rows /\ req[r].status \in from /\ req'[r].status = "PAID"
           /\ req'[r].points = req[r].points /\ req'[r].member = req[r].member /\ req'[r].day = req[r].day
           /\ \A q \in Requests : q # r => req'[q] = req[q]
           /\ \A m \in Members :
                 /\ member'[m].converted = member[m].converted + (IF m = req[r].member THEN req[r].points ELSE 0)
                 /\ member'[m].withdrawn = member[m].withdrawn + (IF m = req[r].member THEN NetAmount[req[r].points] ELSE 0)
                 /\ member'[m].balance = member[m].balance
<1>1. req[r].status \in from /\ req[r] \in InsertedRow /\ r \in Rows
  BY RowType DEF Settles, CanSettle, Rows
<1>2. /\ req' = [req EXCEPT ![r].status = "PAID", ![r].paidBy = by]
      /\ member' = [member EXCEPT ![req[r].member].converted = @ + req[r].points,
                                  ![req[r].member].withdrawn = @ + NetAmount[req[r].points]]
  BY DEF Settles, ApplyPaidSideEffects
<1>3. req'[r] = [req[r] EXCEPT !.status = "PAID", !.paidBy = by] /\ \A q \in Requests : q # r => req'[q] = req[q]
  BY <1>2 DEF TypeOK
<1>4. req'[r].status = "PAID" /\ req'[r].points = req[r].points /\ req'[r].member = req[r].member /\ req'[r].day = req[r].day
  BY <1>1, <1>3 DEF InsertedRow
<1>5. Rows' = Rows
  BY <1>1, <1>3, <1>4 DEF Rows
<1> DEFINE k == req[r].member
           row == [member[k] EXCEPT !.converted = @ + req[r].points, !.withdrawn = @ + NetAmount[req[r].points]]
<1>6. k \in Members /\ member[k] \in MemberRow
  BY <1>1 DEF TypeOK, InsertedRow
<1>7. member' = [member EXCEPT ![k] = row]
  BY <1>2, <1>6 DEF TypeOK
<1>8. /\ row.converted = member[k].converted + req[r].points
      /\ row.withdrawn = member[k].withdrawn + NetAmount[req[r].points]
      /\ row.balance = member[k].balance
  BY <1>6 DEF MemberRow
<1>9. \A m \in Members : member[m].converted \in Nat /\ member[m].withdrawn \in Nat
  BY DEF TypeOK, MemberRow
<1> HIDE DEF row
<1>10. ASSUME NEW m \in Members
       PROVE  /\ member'[m].converted = member[m].converted + (IF m = k THEN req[r].points ELSE 0)
              /\ member'[m].withdrawn = member[m].withdrawn + (IF m = k THEN NetAmount[req[r].points] ELSE 0)
              /\ member'[m].balance = member[m].balance
  BY <1>6, <1>7, <1>8, <1>9 DEF TypeOK
<1> QED BY <1>1, <1>3, <1>4, <1>5, <1>10

\* What an insert does.
LEMMA InsertedRowStep ==
    ASSUME TypeOK, NEW r \in Requests, Inserts(r)
    PROVE  /\ r \notin Rows /\ Rows' = Rows \cup {r} /\ req'[r].status = "APPROVED"
           /\ req'[r].points \in WithdrawablePoints /\ req'[r].member \in Members
           /\ \A q \in Requests : q # r => req'[q] = req[q]
           /\ UNCHANGED member
<1>1. PICK m \in Members, n \in WithdrawablePoints, a \in Accounts : req' = [req EXCEPT ![r] = NewRequest(m, n, a)]
  BY DEF Inserts
<1>2. req'[r] = NewRequest(m, n, a) /\ \A q \in Requests : q # r => req'[q] = req[q]
  BY <1>1 DEF TypeOK
<1>3. req'[r].status = "APPROVED" /\ req'[r].points = n /\ req'[r].member = m
  BY <1>2 DEF NewRequest
<1> QED BY <1>2, <1>3 DEF Rows, Inserts

\* What recording a payout, or its failure, does.
LEMMA PayoutRowStep ==
    ASSUME TypeOK, \/ \E r \in Requests, p \in Payouts : Records(r, p)
                   \/ \E p \in Payouts : Fails(p)
    PROVE  /\ Rows' = Rows /\ UNCHANGED member
           /\ \A q \in Requests : \/ req'[q] = req[q]
                                  \/ /\ req[q].status \notin {"NONE", "PAID"} /\ req'[q].status \notin {"NONE", "PAID"}
                                     /\ req'[q].member = req[q].member /\ req'[q].points = req[q].points
<1>1. UNCHANGED member
  BY DEF Records, Fails
<1>2. ASSUME NEW q \in Requests, req'[q] # req[q]
      PROVE  /\ req[q].status \notin {"NONE", "PAID"} /\ req'[q].status \notin {"NONE", "PAID"}
             /\ req'[q].member = req[q].member /\ req'[q].points = req[q].points
  <2>1. /\ req[q].status \in {"APPROVED", "PAYOUT_FAILED", "PAYOUT_PROCESSING"}
        /\ \/ req'[q] = [req[q] EXCEPT !.status = "PAYOUT_FAILED"]
           \/ \E p \in Payouts : req'[q] = [req[q] EXCEPT !.status = "PAYOUT_PROCESSING", !.payoutId = p]
    BY <1>2 DEF Records, Fails, CanInitiate, CanFail, PAYABLE_STATUSES, TypeOK
  <2>2. req[q] \in InsertedRow
    BY <2>1, RowType
  <2> QED BY <2>1, <2>2 DEF InsertedRow
<1>3. Rows' = Rows
  BY <1>2 DEF Rows
<1> QED BY <1>1, <1>2, <1>3

\* Totals of a member whose PAID requests stay the same.
LEMMA TotalsStay ==
    ASSUME TotalsInv, NEW m \in Members, PaidOf(m)' = PaidOf(m),
           \A r \in PaidOf(m) : req'[r].points = req[r].points,
           member'[m].converted = member[m].converted, member'[m].withdrawn = member[m].withdrawn
    PROVE  member'[m].converted = SumPoints(PaidOf(m))' /\ member'[m].withdrawn = SumPaidOut(PaidOf(m))'
<1> DEFINE S == PaidOf(m)
<1>0. IsFiniteSet(S)
  BY FS_Subset DEF TotalsInv, PaidOf, RequestsOf
<1>1. SumFunctionOnSet([r \in PaidOf(m)' |-> req'[r].points], PaidOf(m)') = SumFunctionOnSet([r \in S |-> req[r].points], S)
  <2> DEFINE f == [r \in S |-> req[r].points]
             T == PaidOf(m)'
             e == [r \in T |-> req'[r].points]
  <2>1. T = S /\ \A x \in S : e[x] = f[x]
    OBVIOUS
  <2> HIDE DEF e, f, S, T
  <2>2. SumFunctionOnSet(e, S) = SumFunctionOnSet(f, S)
    BY <1>0, <2>1, SumEqual
  <2> QED BY <2>1, <2>2 DEF e, f, T
<1>2. SumFunctionOnSet([r \in PaidOf(m)' |-> NetAmount[req'[r].points]], PaidOf(m)')
        = SumFunctionOnSet([r \in S |-> NetAmount[req[r].points]], S)
  <2> DEFINE f == [r \in S |-> NetAmount[req[r].points]]
             T == PaidOf(m)'
             e == [r \in T |-> NetAmount[req'[r].points]]
  <2>1. T = S /\ \A x \in S : e[x] = f[x]
    OBVIOUS
  <2> HIDE DEF e, f, S, T
  <2>2. SumFunctionOnSet(e, S) = SumFunctionOnSet(f, S)
    BY <1>0, <2>1, SumEqual
  <2> QED BY <2>1, <2>2 DEF e, f, T
<1> QED BY <1>1, <1>2 DEF TotalsInv, TotalsMatchPaid, SumPoints, SumPaidOut

\* Totals of the member whose request is settled.
LEMMA TotalsAdd ==
    ASSUME TotalsInv, NEW m \in Members, NEW q \in Rows \ PaidOf(m), PaidOf(m)' = PaidOf(m) \cup {q},
           \A r \in Rows : req'[r].points = req[r].points,
           member'[m].converted = member[m].converted + req[q].points,
           member'[m].withdrawn = member[m].withdrawn + NetAmount[req[q].points]
    PROVE  member'[m].converted = SumPoints(PaidOf(m))' /\ member'[m].withdrawn = SumPaidOut(PaidOf(m))'
<1> DEFINE S == PaidOf(m)
           T == PaidOf(m)'
<1>0. IsFiniteSet(S) /\ S \subseteq Rows /\ T = S \cup {q} /\ q \notin S
  BY FS_Subset DEF TotalsInv, PaidOf, RequestsOf
<1>1. \A r \in Rows : req[r].points \in Nat /\ NetAmount[req[r].points] \in Nat
  BY RowAmounts DEF TotalsInv
<1>2. SumFunctionOnSet([r \in T |-> req'[r].points], T) = SumFunctionOnSet([r \in S |-> req[r].points], S) + req[q].points
  <2> DEFINE f == [r \in S |-> req[r].points]
             e == [r \in T |-> req'[r].points]
  <2> HIDE DEF S, T
  <2>1. /\ \A x \in S : f[x] \in Int /\ e[x] = f[x]
        /\ e[q] = req[q].points /\ e[q] \in Int
    BY <1>0, <1>1
  <2> HIDE DEF e, f
  <2>2. SumFunctionOnSet(e, S \cup {q}) = SumFunctionOnSet(f, S) + e[q]
    <3>1. SumFunctionOnSet(e, S) = SumFunctionOnSet(f, S)
      BY <1>0, <2>1, SumEqual
    <3>2. IsFiniteSet(S) /\ q \notin S /\ e[q] \in Int /\ \A x \in S : e[x] \in Int
      BY <1>0, <2>1
    <3>3. SumFunctionOnSet(e, S \cup {q}) = SumFunctionOnSet(e, S) + e[q]
      BY <3>2, SumAdd
    <3> QED BY <3>1, <3>3
  <2> QED BY <1>0, <2>1, <2>2 DEF e, f
<1>3. SumFunctionOnSet([r \in T |-> NetAmount[req'[r].points]], T)
        = SumFunctionOnSet([r \in S |-> NetAmount[req[r].points]], S) + NetAmount[req[q].points]
  <2> DEFINE f == [r \in S |-> NetAmount[req[r].points]]
             e == [r \in T |-> NetAmount[req'[r].points]]
  <2> HIDE DEF S, T
  <2>1. /\ \A x \in S : f[x] \in Int /\ e[x] = f[x]
        /\ e[q] = NetAmount[req[q].points] /\ e[q] \in Int
    BY <1>0, <1>1
  <2> HIDE DEF e, f
  <2>2. SumFunctionOnSet(e, S \cup {q}) = SumFunctionOnSet(f, S) + e[q]
    <3>1. SumFunctionOnSet(e, S) = SumFunctionOnSet(f, S)
      BY <1>0, <2>1, SumEqual
    <3>2. IsFiniteSet(S) /\ q \notin S /\ e[q] \in Int /\ \A x \in S : e[x] \in Int
      BY <1>0, <2>1
    <3>3. SumFunctionOnSet(e, S \cup {q}) = SumFunctionOnSet(e, S) + e[q]
      BY <3>2, SumAdd
    <3> QED BY <3>1, <3>3
  <2> QED BY <1>0, <2>1, <2>2 DEF e, f
<1> QED BY <1>2, <1>3 DEF TotalsInv, TotalsMatchPaid, SumPoints, SumPaidOut

\* A request that is inserted, or whose payout is recorded, is not a PAID one.
LEMMA UnpaidStep ==
    ASSUME TypeOK, \/ UNCHANGED req
                   \/ \E r \in Requests : Inserts(r)
                   \/ \E r \in Requests, p \in Payouts : Records(r, p)
                   \/ \E p \in Payouts : Fails(p),
           NEW m \in Members
    PROVE  PaidOf(m)' = PaidOf(m) /\ \A r \in PaidOf(m) : req'[r].points = req[r].points
<1>1. CASE UNCHANGED req
  BY <1>1 DEF PaidOf, RequestsOf, Rows
<1>2. ASSUME NEW r \in Requests, Inserts(r)
      PROVE  PaidOf(m)' = PaidOf(m) /\ \A q \in PaidOf(m) : req'[q].points = req[q].points
  BY <1>2, InsertedRowStep DEF PaidOf, RequestsOf, Rows
<1>3. CASE \/ \E r \in Requests, p \in Payouts : Records(r, p)
           \/ \E p \in Payouts : Fails(p)
  BY <1>3, PayoutRowStep DEF PaidOf, RequestsOf, Rows
<1> QED BY <1>1, <1>2, <1>3

\* The rows remain finitely many.
LEMMA RowsFinite == TypeOK /\ IsFiniteSet(Rows) /\ [Next]_vars => IsFiniteSet(Rows')
<1> SUFFICES ASSUME TypeOK, IsFiniteSet(Rows), [Next]_vars PROVE IsFiniteSet(Rows')
  OBVIOUS
<1>1. CASE UNCHANGED req
  BY <1>1 DEF Rows
<1>2. ASSUME NEW r \in Requests, Inserts(r) PROVE IsFiniteSet(Rows')
  BY <1>2, InsertedRowStep, FS_AddElement
<1>3. ASSUME NEW r \in Requests,
             Settles(r, PAYABLE_STATUSES, "staff") \/ Settles(r, {"PAYOUT_PROCESSING"}, "gateway")
      PROVE  IsFiniteSet(Rows')
  BY <1>3, SettledRow DEF PAYABLE_STATUSES
<1>4. CASE \/ \E r \in Requests, p \in Payouts : Records(r, p)
           \/ \E p \in Payouts : Fails(p)
  BY <1>4, PayoutRowStep
<1> QED BY <1>1, <1>2, <1>3, <1>4, RequestSteps

\* Settling a request adds it to the PAID ones of its member and to no others.
LEMMA SettledTotals ==
    ASSUME TotalsInv, NEW r \in Requests, NEW from \in SUBSET {"APPROVED", "PAYOUT_FAILED", "PAYOUT_PROCESSING"},
           NEW by, Settles(r, from, by), NEW m \in Members
    PROVE  member'[m].converted = SumPoints(PaidOf(m))' /\ member'[m].withdrawn = SumPaidOut(PaidOf(m))'
<1>0. TypeOK
  BY DEF TotalsInv
<1>1. /\ r \in Rows /\ Rows' = Rows /\ req[r].status \in from /\ req'[r].status = "PAID"
      /\ req'[r].points = req[r].points /\ req'[r].member = req[r].member
      /\ \A q \in Requests : q # r => req'[q] = req[q]
      /\ member'[m].converted = member[m].converted + (IF m = req[r].member THEN req[r].points ELSE 0)
      /\ member'[m].withdrawn = member[m].withdrawn + (IF m = req[r].member THEN NetAmount[req[r].points] ELSE 0)
  BY <1>0, SettledRow, ZenonT(40)
<1>2. \A q \in Rows : q \in Requests /\ req'[q].points = req[q].points /\ req'[q].member = req[q].member
  BY <1>1 DEF Rows
<1>3. CASE m = req[r].member
  <2>1. r \in Rows \ PaidOf(m) /\ PaidOf(m)' = PaidOf(m) \cup {r}
    BY <1>1, <1>2, <1>3 DEF PaidOf, RequestsOf
  <2>2. /\ member'[m].converted = member[m].converted + req[r].points
        /\ member'[m].withdrawn = member[m].withdrawn + NetAmount[req[r].points]
    BY <1>1, <1>3
  <2> QED BY <1>2, <2>1, <2>2, TotalsAdd
<1>4. CASE m # req[r].member
  <2>1. PaidOf(m)' = PaidOf(m) /\ \A q \in PaidOf(m) : req'[q].points = req[q].points
    BY <1>1, <1>2, <1>4 DEF PaidOf, RequestsOf
  <2>2. member[m].converted \in Nat /\ member[m].withdrawn \in Nat
    BY <1>0 DEF TypeOK, MemberRow
  <2>3. member'[m].converted = member[m].converted /\ member'[m].withdrawn = member[m].withdrawn
    BY <1>1, <1>4, <2>2
  <2> QED BY <2>1, <2>3, TotalsStay
<1> QED BY <1>3, <1>4

\* Every step keeps the books balanced.
LEMMA TotalsStep == TotalsInv /\ [Next]_vars => TotalsInv'
<1> SUFFICES ASSUME TotalsInv, [Next]_vars PROVE TotalsInv'
  OBVIOUS
<1>0. TypeOK /\ HandledRowsExist /\ IsFiniteSet(Rows)
  BY DEF TotalsInv
<1>1. TypeOK' /\ HandledRowsExist' /\ IsFiniteSet(Rows')
  BY <1>0, TypeStep, HandledRowsStep, RowsFinite
<1>2. ASSUME NEW m \in Members
      PROVE  member'[m].converted = SumPoints(PaidOf(m))' /\ member'[m].withdrawn = SumPaidOut(PaidOf(m))'
  <2>1. ASSUME NEW r \in Requests,
               Settles(r, PAYABLE_STATUSES, "staff") \/ Settles(r, {"PAYOUT_PROCESSING"}, "gateway")
        PROVE  member'[m].converted = SumPoints(PaidOf(m))' /\ member'[m].withdrawn = SumPaidOut(PaidOf(m))'
    BY <2>1, SettledTotals DEF PAYABLE_STATUSES
  <2>2. CASE UNCHANGED req /\ KeepsTotals(m)
    BY <1>0, <2>2, UnpaidStep, TotalsStay DEF KeepsTotals
  <2>3. CASE \/ \E r \in Requests : Inserts(r)
             \/ \E r \in Requests, p \in Payouts : Records(r, p)
             \/ \E p \in Payouts : Fails(p)
    <3>1. UNCHANGED member
      BY <2>3 DEF Inserts, Records, Fails
    <3> QED BY <1>0, <2>3, <3>1, UnpaidStep, TotalsStay
  <2> QED BY <1>0, <2>1, <2>2, <2>3, RequestSteps
<1> QED BY <1>1, <1>2 DEF TotalsInv, TotalsMatchPaid

\* Nothing was converted when the system started.
LEMMA TotalsInit == Init => TotalsInv
<1> SUFFICES ASSUME Init PROVE TotalsInv
  OBVIOUS
<1>1. TypeOK /\ HandledRowsExist
  BY TypeInit
<1>2. IsFiniteSet(Rows)
  BY DEF Init
<1>3. \A m \in Members : PaidOf(m) = {} /\ member[m].converted = 0 /\ member[m].withdrawn = 0
  BY MemberInit, LegacyRows DEF PaidOf, RequestsOf, Rows
<1>4. SumPoints({}) = 0 /\ SumPaidOut({}) = 0
  BY SumEmpty DEF SumPoints, SumPaidOut
<1> QED BY <1>1, <1>2, <1>3, <1>4 DEF TotalsInv, TotalsMatchPaid

\* TotalsMatchPaid: whichever routes settled a member's requests, and whatever
\* failed in between, pointsConverted and the amount withdrawn are the sums over
\* the requests that are PAID.
THEOREM TotalsMatch == Spec => []TotalsMatchPaid
<1>1. TotalsInv => TotalsMatchPaid
  BY DEF TotalsInv
<1> QED BY <1>1, TotalsInit, TotalsStep, PTL DEF Spec

-----------------------------------------------------------------------------
(* The frequency rule, when reading the settings locks their row.          *)

\* Days pass and do not come back.
LEMMA TodayGrows == TypeOK /\ [Next]_vars => today' \in Nat /\ today' >= today
<1> SUFFICES ASSUME TypeOK, [Next]_vars PROVE today' \in Nat /\ today' >= today
  OBVIOUS
<1>0. today \in Nat
  BY DEF TypeOK
<1>1. ASSUME NEW w \in Workers, Start(w) \/ Proceed(w) \/ Abort(w) PROVE UNCHANGED today
  BY <1>1 DEF Start, CreateReadMember, MarkPaidFind, InitiateRead, CheckStatus, HandleWebhook, Proceed,
     CreateReadSettings, CreateCheckBalance, CreateInsert, MarkPaidCheckEligible, MarkPaidCas, Settle,
     InitiateCheckEligible, InitiateTransfer, InitiateRefused, InitiateRecheckEligible, ProceedIfEligible,
     InitiateCas, CheckStatusPoll, PaidFromPayoutFind, PaidFromPayoutCas, MarkPayoutFailed, Abort
<1>2. ASSUME Environment PROVE UNCHANGED today \/ today' = today + 1
  BY <1>2 DEF Environment, PayoutSettles, PayoutReversed, PayoutOutcome, Suspend, Reactivate, MarkDeceased,
     CreditPoints, SaveKyc, SetMember, NextDay
<1>3. CASE UNCHANGED vars
  BY <1>0, <1>3 DEF vars
<1> QED BY <1>0, <1>1, <1>2, <1>3 DEF Next

\* How a create transaction comes to be where it is.
Started(w) ==
    /\ job'[w].at = "settings"
    /\ job'[w].unspent = member[job'[w].m].balance - member[job'[w].m].converted
    /\ UNCHANGED <<member, req>>
PassedRules(w) ==
    /\ At(w, "create", "settings") /\ FrequencyAllows(job[w].m)
    /\ job' = [job EXCEPT ![w].at = "locked"]
    /\ UpsertLocksRow => settingsLock' = w
    /\ UNCHANGED <<member, req, today>>
PassedBalance(w) ==
    /\ At(w, "create", "locked") /\ job[w].n <= job[w].unspent - LockedPoints(job[w].m)
    /\ job' = [job EXCEPT ![w].at = "insert"]
    /\ UNCHANGED <<member, req, today, settingsLock>>

LEMMA CreatorStep ==
    ASSUME TypeOK, [Next]_vars, NEW w \in Workers, job'[w].op = "create"
    PROVE  job'[w] = job[w] \/ Started(w) \/ PassedRules(w) \/ PassedBalance(w)
<1>0. job \in [Workers -> Job]
  BY DEF TypeOK
<1>1. ASSUME NEW v \in Workers, Finish(v) PROVE job'[w] = job[w]
  BY <1>0, <1>1 DEF Finish
<1>2. ASSUME NEW v \in Workers, v # w, Start(v) \/ Proceed(v) PROVE job'[w] = job[w]
  BY <1>0, <1>1, <1>2 DEF Start, CreateReadMember, MarkPaidFind, InitiateRead, CheckStatus, HandleWebhook, Proceed,
     CreateReadSettings, CreateCheckBalance, CreateInsert, MarkPaidCheckEligible, MarkPaidCas, Settle,
     InitiateCheckEligible, InitiateTransfer, InitiateRefused, InitiateRecheckEligible, ProceedIfEligible,
     InitiateCas, CheckStatusPoll, PaidFromPayoutFind, PaidFromPayoutCas, MarkPayoutFailed, Begin, Goto
<1>3. CASE Start(w)
  <2>1. ASSUME NEW m \in Members, NEW n \in 1..MaxBalance, CreateReadMember(w, m, n) PROVE Started(w)
    BY <1>0, <2>1 DEF CreateReadMember, Begin, Started
  <2>2. CASE \/ \E r \in Requests : MarkPaidFind(w, r) \/ InitiateRead(w, r) \/ CheckStatus(w, r)
             \/ \E p \in Payouts : HandleWebhook(w, p)
    BY <1>0, <2>2 DEF MarkPaidFind, InitiateRead, CheckStatus, HandleWebhook, Begin, ApplyJob
  <2> QED BY <1>3, <2>1, <2>2 DEF Start
<1>4. CASE CreateReadSettings(w)
  BY <1>1, <1>4 DEF CreateReadSettings, PassedRules
<1>5. CASE CreateCheckBalance(w)
  BY <1>1, <1>5 DEF CreateCheckBalance, PassedBalance, Goto
<1>6. CASE \/ CreateInsert(w) \/ MarkPaidCas(w) \/ InitiateRefused(w) \/ InitiateCas(w) \/ PaidFromPayoutCas(w)
           \/ MarkPayoutFailed(w)
  BY <1>1, <1>6 DEF CreateInsert, MarkPaidCas, Settle, InitiateRefused, InitiateCas, PaidFromPayoutCas,
     MarkPayoutFailed
<1>7. CASE \/ MarkPaidCheckEligible(w) \/ InitiateCheckEligible(w) \/ InitiateTransfer(w)
           \/ InitiateRecheckEligible(w) \/ CheckStatusPoll(w) \/ PaidFromPayoutFind(w)
  <2>1. job[w].op \in {"markPaid", "initiate", "check", "apply"}
    BY <1>7 DEF MarkPaidCheckEligible, InitiateCheckEligible, InitiateTransfer, InitiateRecheckEligible,
       CheckStatusPoll, PaidFromPayoutFind, At
  <2>2. \/ job'[w].op = job[w].op
        \/ job'[w].op \in {"idle", "apply"}
    BY <1>0, <1>7, <2>1 DEF MarkPaidCheckEligible, InitiateCheckEligible, InitiateTransfer, InitiateRecheckEligible,
       ProceedIfEligible, CheckStatusPoll, PaidFromPayoutFind, Goto, Finish, ApplyJob, Job
  <2> QED BY <2>1, <2>2
<1>8. ASSUME NEW v \in Workers, Abort(v) PROVE job'[w] = job[w]
  BY <1>1, <1>8 DEF Abort
<1>9. CASE Environment \/ UNCHANGED vars
  BY <1>9 DEF Environment, PayoutSettles, PayoutReversed, PayoutOutcome, Suspend, Reactivate, MarkDeceased,
     CreditPoints, SaveKyc, SetMember, NextDay, vars
<1> QED BY <1>2, <1>3, <1>4, <1>5, <1>6, <1>7, <1>8, <1>9 DEF Next, Proceed

\* Only its holder lets the settings lock go, when its handler ends.
LEMMA LockStays ==
    ASSUME TypeOK, [Next]_vars, UpsertLocksRow, NEW w \in Workers, settingsLock = w
    PROVE  settingsLock' = w \/ job'[w].op = "idle"
<1>0. job \in [Workers -> Job] /\ w # None
  BY DEF TypeOK
<1>1. ASSUME NEW v \in Workers, Finish(v) PROVE settingsLock' = w \/ job'[w].op = "idle"
  BY <1>0, <1>1 DEF Finish
<1>2. ASSUME NEW v \in Workers, Start(v) \/ Proceed(v) \/ Abort(v)
      PROVE  settingsLock' = settingsLock \/ Finish(v)
  BY <1>0, <1>2 DEF Start, CreateReadMember, MarkPaidFind, InitiateRead, CheckStatus, HandleWebhook, Proceed,
     CreateReadSettings, CreateCheckBalance, CreateInsert, MarkPaidCheckEligible, MarkPaidCas, Settle,
     InitiateCheckEligible, InitiateTransfer, InitiateRefused, InitiateRecheckEligible, ProceedIfEligible,
     InitiateCas, CheckStatusPoll, PaidFromPayoutFind, PaidFromPayoutCas, MarkPayoutFailed, Begin, Goto, Abort
<1>3. CASE Environment \/ UNCHANGED vars
  BY <1>3 DEF Environment, PayoutSettles, PayoutReversed, PayoutOutcome, Suspend, Reactivate, MarkDeceased,
     CreditPoints, SaveKyc, SetMember, NextDay, vars
<1> QED BY <1>1, <1>2, <1>3 DEF Next

\* While one create transaction holds the lock, no other inserts: an inserted
\* request is the lock holder's, who ends with it.
LEMMA InserterLocks ==
    ASSUME TypeOK, LockHeld, NEW r \in Requests, Inserts(r)
    PROVE  \E v \in Workers :
              /\ At(v, "create", "insert") /\ settingsLock = v /\ FrequencyAllows(job[v].m)
              /\ job[v].m \in Members /\ job[v].n \in WithdrawablePoints
              /\ req'[r].member = job[v].m /\ req'[r].points = job[v].n /\ req'[r].day = today
              /\ today' = today /\ job'[v].op = "idle"
<1>1. PICK m \in Members, n \in WithdrawablePoints, a \in Accounts, v \in Workers :
         /\ req' = [req EXCEPT ![r] = NewRequest(m, n, a)]
         /\ At(v, "create", "insert") /\ job[v].m = m /\ job[v].n = n /\ Finish(v)
  BY DEF Inserts
<1>2. settingsLock = v /\ FrequencyAllows(job[v].m)
  BY <1>1 DEF LockHeld, Creating, At
<1>3. req'[r].member = m /\ req'[r].points = n /\ req'[r].day = today
  BY <1>1 DEF TypeOK, NewRequest
<1>4. job'[v].op = "idle"
  BY <1>1 DEF Finish, TypeOK
<1> QED BY <1>1, <1>2, <1>3, <1>4 DEF Inserts

\* Requests that are there go on being as far apart from a later one.
LEMMA FrequencyStays ==
    ASSUME TypeOK, [Next]_vars, Rows' = Rows, NEW m, FrequencyAllows(m)
    PROVE  FrequencyAllows(m)'
<1>1. ASSUME NEW r \in Rows, req'[r].member = m PROVE today' - req'[r].day >= FrequencyDays
  <2>1. req'[r].member = req[r].member /\ req'[r].day = req[r].day
    BY HistoryStep
  <2>2. req[r].day \in Nat /\ today \in Nat
    BY RowType DEF Rows, InsertedRow, TypeOK
  <2>3. today - req[r].day >= FrequencyDays
    BY <1>1, <2>1 DEF FrequencyAllows, RequestsOf
  <2> QED BY <2>1, <2>2, <2>3, TodayGrows
<1> QED BY <1>1 DEF FrequencyAllows, RequestsOf

\* Between the frequency rule and the insert nobody else inserts a request.
LEMMA AloneStep ==
    ASSUME TypeOK, LockHeld, [Next]_vars, NEW w \in Workers, job[w].op = "create",
           job[w].at \in {"locked", "insert"}, job'[w].op = "create"
    PROVE  Rows' = Rows /\ \A r \in Requests : ~Inserts(r)
<1>1. settingsLock = w
  BY DEF LockHeld, Creating
<1>2. ASSUME NEW r \in Requests, Inserts(r) PROVE FALSE
  BY <1>1, <1>2, InserterLocks
<1>3. ASSUME NEW r \in Requests,
             Settles(r, PAYABLE_STATUSES, "staff") \/ Settles(r, {"PAYOUT_PROCESSING"}, "gateway")
      PROVE  Rows' = Rows
  BY <1>3, SettledRow DEF PAYABLE_STATUSES
<1>4. ASSUME UNCHANGED req PROVE Rows' = Rows
  BY <1>4 DEF Rows
<1>5. ASSUME \/ \E r \in Requests, p \in Payouts : Records(r, p)
             \/ \E p \in Payouts : Fails(p)
      PROVE  Rows' = Rows
  BY <1>5, PayoutRowStep
<1>6. \A r \in Requests : ~Inserts(r)
  BY <1>2
<1> QED BY <1>3, <1>4, <1>5, <1>6, RequestSteps

LEMMA LockStep == UpsertLocksRow /\ TypeOK /\ LockHeld /\ [Next]_vars => LockHeld'
<1> SUFFICES ASSUME UpsertLocksRow, TypeOK, LockHeld, [Next]_vars, NEW w \in Workers,
                    job'[w].op = "create", job'[w].at \in {"locked", "insert"}
             PROVE  settingsLock' = w /\ FrequencyAllows(job[w].m)'
  BY DEF LockHeld, Creating
<1>1. CASE job'[w] = job[w]
  <2>1. settingsLock = w /\ FrequencyAllows(job[w].m)
    BY <1>1 DEF LockHeld, Creating
  <2>2. settingsLock' = w
    BY <2>1, LockStays
  <2>3. Rows' = Rows
    BY <1>1, AloneStep
  <2>4. PICK m : m = job[w].m
    OBVIOUS
  <2>5. FrequencyAllows(m)'
    BY <2>1, <2>3, <2>4, FrequencyStays
  <2> QED BY <1>1, <2>2, <2>4, <2>5 DEF FrequencyAllows, RequestsOf, Rows
<1>2. CASE Started(w)
  BY <1>2 DEF Started
<1>3. CASE PassedRules(w)
  <2>1. job'[w].m = job[w].m
    BY <1>3 DEF PassedRules, TypeOK, Job, At
  <2>2. settingsLock' = w /\ FrequencyAllows(job[w].m) /\ req' = req /\ today' = today
    BY <1>3 DEF PassedRules
  <2> QED BY <2>1, <2>2 DEF FrequencyAllows, RequestsOf, Rows
<1>4. CASE PassedBalance(w)
  <2>1. job'[w].m = job[w].m
    BY <1>4 DEF PassedBalance, TypeOK, Job, At
  <2>2. settingsLock = w /\ FrequencyAllows(job[w].m)
    BY <1>4 DEF PassedBalance, LockHeld, Creating, At
  <2>3. settingsLock' = settingsLock /\ req' = req /\ today' = today
    BY <1>4 DEF PassedBalance
  <2> QED BY <2>1, <2>2, <2>3 DEF FrequencyAllows, RequestsOf, Rows
<1> QED BY <1>1, <1>2, <1>3, <1>4, CreatorStep

\* A request that is inserted comes after the others of its member by as many
\* days as the rule asks, and the others stay as far apart as they were.
LEMMA FrequencyStep == UpsertLocksRow /\ FrequencyInv /\ [Next]_vars => FrequencyInv'
<1> SUFFICES ASSUME UpsertLocksRow, FrequencyInv, [Next]_vars PROVE FrequencyInv'
  OBVIOUS
<1>0. TypeOK /\ HandledRowsExist /\ LockHeld /\ FrequencyRespected
  BY DEF FrequencyInv
<1>1. TypeOK' /\ HandledRowsExist' /\ LockHeld'
  BY <1>0, TypeStep, HandledRowsStep, LockStep
<1>2. \A r \in Rows : r \in Rows' /\ req'[r].member = req[r].member /\ req'[r].day = req[r].day
  BY <1>0, HistoryStep
<1> DEFINE Apart(r, q) == \/ req'[r].day - req'[q].day >= FrequencyDays
                          \/ req'[q].day - req'[r].day >= FrequencyDays
<1>3. ASSUME NEW r \in Rows, NEW q \in Rows, r # q, req'[r].member = req'[q].member PROVE Apart(r, q)
  BY <1>0, <1>2, <1>3 DEF FrequencyRespected, DaysApart
<1>4. CASE Rows' = Rows
  BY <1>1, <1>3, <1>4 DEF FrequencyInv, FrequencyRespected, DaysApart
<1>5. ASSUME NEW r \in Requests, Inserts(r) PROVE FrequencyInv'
  <2>1. Rows' = Rows \cup {r}
    BY <1>0, <1>5, InsertedRowStep
  <2>2. ASSUME NEW q \in Rows, req'[r].member = req'[q].member PROVE Apart(r, q) /\ Apart(q, r)
    <3>1. PICK v \in Workers : /\ FrequencyAllows(job[v].m)
                               /\ req'[r].member = job[v].m /\ req'[r].day = today
      BY <1>0, <1>5, InserterLocks
    <3>2. today - req[q].day >= FrequencyDays
      BY <1>2, <2>2, <3>1 DEF FrequencyAllows, RequestsOf
    <3> QED BY <1>2, <3>1, <3>2
  <2> HIDE DEF Apart
  <2>3. \A x, y \in Rows' : x # y /\ req'[x].member = req'[y].member => Apart(x, y)
    BY <1>3, <2>1, <2>2
  <2> QED BY <1>1, <2>3 DEF FrequencyInv, FrequencyRespected, DaysApart, Apart
<1>6. Rows' = Rows \/ \E r \in Requests : Inserts(r)
  <2>1. ASSUME NEW r \in Requests,
               Settles(r, PAYABLE_STATUSES, "staff") \/ Settles(r, {"PAYOUT_PROCESSING"}, "gateway")
        PROVE  Rows' = Rows
    BY <1>0, <2>1, SettledRow DEF PAYABLE_STATUSES
  <2>2. CASE UNCHANGED req
    BY <2>2 DEF Rows
  <2> QED BY <1>0, <2>1, <2>2, PayoutRowStep, RequestSteps
<1> QED BY <1>4, <1>5, <1>6

LEMMA FrequencyInit == Init => FrequencyInv
<1> SUFFICES ASSUME Init PROVE FrequencyInv
  OBVIOUS
<1>1. Creating = {}
  BY NothingRuns DEF Creating
<1>2. FrequencyRespected
  BY DEF Init, FrequencyRespected
<1> QED BY <1>1, <1>2, TypeInit DEF FrequencyInv, LockHeld

\* FrequencyRespected: if reading the organization's settings locks their row, as
\* Prisma's upsert with an update does, two requests of a member are never closer
\* than withdrawalFrequencyDays, however many are being created at once.
THEOREM FrequencyKept == UpsertLocksRow => (Spec => []FrequencyRespected)
<1>1. FrequencyInv => FrequencyRespected
  BY DEF FrequencyInv
<1>2. CASE UpsertLocksRow
  <2>1. FrequencyInv /\ [Next]_vars => FrequencyInv'
    BY <1>2, FrequencyStep
  <2> QED BY <1>1, <2>1, FrequencyInit, PTL DEF Spec
<1> QED BY <1>2

-----------------------------------------------------------------------------
(* The wallet, without a gateway and with quiet settlements.               *)

\* Without a gateway only creations and manual settlements run.
LEMMA ByHandStep ==
    ASSUME ~GatewayEnabled, TypeOK, SettledByHand, [Next]_vars
    PROVE  SettledByHand'
<1>0. job \in [Workers -> Job]
  BY DEF TypeOK
<1>1. ASSUME NEW w \in Workers PROVE job'[w].op \notin {"initiate", "check", "apply"}
  <2>0. job[w].op \notin {"initiate", "check", "apply"}
    BY DEF SettledByHand
  <2>1. ASSUME NEW v \in Workers, Finish(v) PROVE job'[w].op \notin {"initiate", "check", "apply"}
    BY <1>0, <2>0, <2>1 DEF Finish
  <2>2. ASSUME NEW v \in Workers, Start(v) PROVE job'[w].op \notin {"initiate", "check", "apply"}
    BY <1>0, <2>0, <2>2 DEF Start, CreateReadMember, MarkPaidFind, InitiateRead, CheckStatus, HandleWebhook, Begin
  <2>3. ASSUME NEW v \in Workers, Proceed(v) PROVE job'[w].op \notin {"initiate", "check", "apply"}
    <3>0. job[v].op \notin {"initiate", "check", "apply"}
      BY DEF SettledByHand
    <3>1. CASE MarkPaidCheckEligible(v)
      BY <1>0, <2>0, <2>1, <3>1 DEF MarkPaidCheckEligible, ProceedIfEligible, Goto, At, Job
    <3>2. CASE CreateReadSettings(v) \/ CreateCheckBalance(v)
      BY <1>0, <2>0, <2>1, <3>2 DEF CreateReadSettings, CreateCheckBalance, Goto, At, Job
    <3>3. CASE CreateInsert(v) \/ MarkPaidCas(v)
      BY <2>1, <3>3 DEF CreateInsert, MarkPaidCas, Settle
    <3> QED BY <2>3, <3>0, <3>1, <3>2, <3>3 DEF Proceed, InitiateCheckEligible, InitiateTransfer, InitiateRefused,
            InitiateRecheckEligible, InitiateCas, CheckStatusPoll, PaidFromPayoutFind, PaidFromPayoutCas,
            MarkPayoutFailed, At
  <2>4. ASSUME NEW v \in Workers, Abort(v) PROVE job'[w].op \notin {"initiate", "check", "apply"}
    BY <2>1, <2>4 DEF Abort
  <2>5. CASE Environment \/ UNCHANGED vars
    BY <2>0, <2>5 DEF Environment, PayoutSettles, PayoutReversed, PayoutOutcome, Suspend, Reactivate, MarkDeceased,
       CreditPoints, SaveKyc, SetMember, NextDay, vars
  <2> QED BY <2>2, <2>3, <2>4, <2>5 DEF Next
<1>2. \A r \in Rows : r \in Requests /\ req[r].status \in {"APPROVED", "PAID"}
  BY DEF SettledByHand, Rows
<1>3. ASSUME NEW r \in Rows' PROVE req'[r].status \in {"APPROVED", "PAID"}
  <2>1. ASSUME NEW q \in Requests, Inserts(q) PROVE req'[r].status \in {"APPROVED", "PAID"}
    BY <1>2, <1>3, <2>1, InsertedRowStep DEF Rows
  <2>2. ASSUME NEW q \in Requests, Settles(q, PAYABLE_STATUSES, "staff")
        PROVE  req'[r].status \in {"APPROVED", "PAID"}
    BY <1>2, <1>3, <2>2, SettledRow DEF Rows, PAYABLE_STATUSES
  <2>3. CASE UNCHANGED req
    BY <1>2, <1>3, <2>3 DEF Rows
  <2> QED BY <2>1, <2>2, <2>3, RequestSteps DEF SettledByHand, Settles, Records, Fails, At
<1> QED BY <1>1, <1>3 DEF SettledByHand

\* What is locked is a number, and stays while the requests do.
LEMMA LockedType ==
    ASSUME TypeOK, IsFiniteSet(Rows), NEW m
    PROVE  LockedPoints(m) \in Nat /\ IsFiniteSet(LockedOf(m)) /\ LockedOf(m) \subseteq Rows
<1> DEFINE S == LockedOf(m)
           f == [r \in S |-> req[r].points]
<1>1. S \subseteq Rows /\ IsFiniteSet(S)
  BY FS_Subset DEF LockedOf, RequestsOf
<1>2. \A x \in S : f[x] \in Nat
  BY <1>1, RowAmounts
<1> HIDE DEF S, f
<1>3. SumFunctionOnSet(f, S) \in Nat
  BY <1>1, <1>2, SumType
<1> QED BY <1>1, <1>3 DEF S, f, LockedPoints, SumPoints

\* The sum over the locked requests of a member, when one comes or goes.
LEMMA LockedStays ==
    ASSUME TypeOK, IsFiniteSet(Rows), NEW m, LockedOf(m)' = LockedOf(m),
           \A r \in LockedOf(m) : req'[r].points = req[r].points
    PROVE  LockedPoints(m)' = LockedPoints(m)
<1> DEFINE S == LockedOf(m)
           f == [r \in S |-> req[r].points]
           T == LockedOf(m)'
           e == [r \in T |-> req'[r].points]
<1>1. T = S /\ \A x \in S : e[x] = f[x]
  OBVIOUS
<1>2. IsFiniteSet(S)
  BY LockedType
<1> HIDE DEF S, f, T, e
<1>3. SumFunctionOnSet(e, S) = SumFunctionOnSet(f, S)
  BY <1>1, <1>2, SumEqual
<1> QED BY <1>1, <1>3 DEF S, f, T, e, LockedPoints, SumPoints

LEMMA LockedAdd ==
    ASSUME TypeOK, IsFiniteSet(Rows), NEW m, NEW q \in Requests \ Rows, LockedOf(m)' = LockedOf(m) \cup {q},
           \A r \in LockedOf(m) : req'[r].points = req[r].points, req'[q].points \in Nat
    PROVE  LockedPoints(m)' = LockedPoints(m) + req'[q].points
<1> DEFINE S == LockedOf(m)
           f == [r \in S |-> req[r].points]
           T == LockedOf(m)'
           e == [r \in T |-> req'[r].points]
<1>1. IsFiniteSet(S) /\ S \subseteq Rows
  BY LockedType
<1>2. T = S \cup {q} /\ q \notin S /\ \A x \in S : e[x] = f[x]
  BY <1>1
<1>3. \A x \in S : f[x] \in Int
  BY <1>1, RowAmounts
<1>4. e[q] = req'[q].points /\ e[q] \in Int
  BY <1>2
<1> HIDE DEF S, f, T, e
<1>5. SumFunctionOnSet(e, S) = SumFunctionOnSet(f, S)
  BY <1>1, <1>2, SumEqual
<1>6. SumFunctionOnSet(e, S \cup {q}) = SumFunctionOnSet(e, S) + e[q]
  <2>1. \A x \in S : e[x] \in Int
    BY <1>2, <1>3
  <2> QED BY <1>1, <1>2, <1>4, <2>1, SumAdd
<1>7. SumFunctionOnSet(e, T) = SumFunctionOnSet(f, S) + req'[q].points
  BY <1>2, <1>4, <1>5, <1>6
<1> QED BY <1>7 DEF S, f, T, e, LockedPoints, SumPoints

LEMMA LockedRemove ==
    ASSUME TypeOK, IsFiniteSet(Rows), NEW m, NEW q \in LockedOf(m), LockedOf(m)' = LockedOf(m) \ {q},
           \A r \in LockedOf(m) : req'[r].points = req[r].points
    PROVE  LockedPoints(m) = req[q].points + LockedPoints(m)' /\ LockedPoints(m)' \in Nat
<1> DEFINE S == LockedOf(m)
           f == [r \in S |-> req[r].points]
           T == LockedOf(m)'
           e == [r \in T |-> req'[r].points]
<1>1. IsFiniteSet(S) /\ S \subseteq Rows
  BY LockedType
<1>2. T = S \ {q} /\ q \in S /\ \A x \in T : e[x] = f[x]
  OBVIOUS
<1>3. \A x \in S : f[x] \in Nat
  BY <1>1, RowAmounts
<1>4. f[q] = req[q].points
  OBVIOUS
<1> HIDE DEF S, f, T, e
<1>5. SumFunctionOnSet(e, T) = SumFunctionOnSet(f, T) /\ SumFunctionOnSet(e, T) \in Nat
  <2>1. IsFiniteSet(T) /\ \A x \in T : e[x] \in Nat
    BY <1>1, <1>2, <1>3, FS_RemoveElement
  <2> QED BY <1>2, <2>1, SumEqual, SumType
<1>6. SumFunctionOnSet(f, S) = f[q] + SumFunctionOnSet(f, S \ {q})
  <2>1. \A x \in S : f[x] \in Int
    BY <1>3
  <2> QED BY <1>1, <1>2, <2>1, SumRemove
<1>7. SumFunctionOnSet(f, S) = req[q].points + SumFunctionOnSet(e, T)
  BY <1>2, <1>4, <1>5, <1>6
<1> QED BY <1>5, <1>7 DEF S, f, T, e, LockedPoints, SumPoints

\* While a member creates a request, no row changes and nothing is converted,
\* unless another one inserts.
LEMMA CreatingStep ==
    ASSUME TypeOK, SettledByHand, [QuietNext]_vars, Creating # {}, NEW m \in Members
    PROVE  /\ member'[m].converted = member[m].converted /\ member'[m].balance >= member[m].balance
           /\ UNCHANGED req \/ \E r \in Requests : Inserts(r)
<1>0. [Next]_vars /\ member'[m].converted = member[m].converted
  BY DEF QuietNext, vars
<1>1. member[m].balance \in Nat
  BY DEF TypeOK, MemberRow
<1>2. ASSUME NEW r \in Requests, Settles(r, PAYABLE_STATUSES, "staff") PROVE FALSE
  <2>1. r \in Rows /\ \A n \in Members :
          member'[n].converted = member[n].converted + (IF n = req[r].member THEN req[r].points ELSE 0)
    BY <1>2, SettledRow DEF PAYABLE_STATUSES
  <2>2. req[r].member \in Members /\ req[r].points \in Nat /\ req[r].points > 0
    BY <2>1, RowAmounts
  <2>3. PICK k \in Members : k = req[r].member
    BY <2>2
  <2>4. member[k].converted \in Nat /\ member'[k].converted = member[k].converted
    BY DEF TypeOK, MemberRow, QuietNext, vars
  <2> QED BY <2>1, <2>2, <2>3, <2>4
<1>3. ~(\E r \in Requests : Settles(r, {"PAYOUT_PROCESSING"}, "gateway"))
  BY DEF SettledByHand, Settles, At
<1>4. ~(\E r \in Requests, p \in Payouts : Records(r, p)) /\ ~(\E p \in Payouts : Fails(p))
  BY DEF SettledByHand, Records, Fails, At
<1>5. ASSUME NEW r \in Requests, Inserts(r) PROVE member'[m].balance >= member[m].balance
  BY <1>1, <1>5 DEF Inserts
<1> QED BY <1>0, <1>2, <1>3, <1>4, <1>5, RequestSteps DEF KeepsTotals

\* The wallet as a create transaction knows it stays good enough for it.
LEMMA KnownStep ==
    ASSUME UpsertLocksRow, WalletInv, [QuietNext]_vars
    PROVE  BalanceKnown'
<1>0. TypeOK /\ IsFiniteSet(Rows) /\ LockHeld /\ SettledByHand /\ BalanceKnown /\ [Next]_vars
  BY DEF WalletInv, TotalsInv, FrequencyInv, QuietNext, vars
<1> SUFFICES ASSUME NEW w \in Workers, job'[w].op = "create"
             PROVE  /\ job'[w].unspent <= member'[job'[w].m].balance - member'[job'[w].m].converted
                    /\ job'[w].at = "insert" => job'[w].n + LockedPoints(job[w].m)' <= job'[w].unspent
  BY DEF BalanceKnown, Creating
<1>1. TypeOK' /\ job'[w] \in Job /\ job'[w].m \in Members /\ job'[w].unspent \in Int /\ job'[w].n \in Nat
  <2>1. TypeOK'
    BY <1>0, TypeStep DEF WalletInv, TotalsInv
  <2> QED BY <2>1 DEF TypeOK, Job
<1>2. \A m \in Members : /\ member[m].balance \in Nat /\ member[m].converted \in Nat
                         /\ member'[m].balance \in Nat /\ member'[m].converted \in Nat
  BY <1>0, <1>1 DEF TypeOK, MemberRow
<1>3. PICK m \in Members : m = job'[w].m
  BY <1>1
<1>4. CASE Started(w)
  BY <1>1, <1>2, <1>3, <1>4 DEF Started
<1>5. ASSUME w \in Creating, job'[w].m = job[w].m, job'[w].unspent = job[w].unspent
      PROVE  job'[w].unspent <= member'[m].balance - member'[m].converted
  <2>1. member'[m].converted = member[m].converted /\ member'[m].balance >= member[m].balance
    BY <1>0, <1>5, CreatingStep
  <2>2. job[w].unspent <= member[m].balance - member[m].converted
    BY <1>0, <1>3, <1>5 DEF BalanceKnown
  <2> QED BY <1>1, <1>2, <1>5, <2>1, <2>2
<1>6. CASE job'[w] = job[w]
  <2>1. w \in Creating
    BY <1>6 DEF Creating
  <2>2. ASSUME job'[w].at = "insert" PROVE job'[w].n + LockedPoints(job[w].m)' <= job'[w].unspent
    <3>1. \A r \in Requests : ~Inserts(r)
      BY <1>0, <1>6, <2>2, AloneStep
    <3>2. UNCHANGED req
      BY <1>0, <1>3, <2>1, <3>1, CreatingStep
    <3>3. LockedOf(m)' = LockedOf(m) /\ \A r \in LockedOf(m) : req'[r].points = req[r].points
      BY <3>2 DEF LockedOf, RequestsOf, Rows
    <3>4. LockedPoints(m)' = LockedPoints(m)
      BY <1>0, <3>3, LockedStays
    <3>5. job[w].n + LockedPoints(job[w].m) <= job[w].unspent
      BY <1>0, <1>6, <2>1, <2>2 DEF BalanceKnown
    <3> QED BY <1>3, <1>6, <3>4, <3>5 DEF LockedPoints, LockedOf, RequestsOf, Rows, SumPoints
  <2> QED BY <1>3, <1>5, <1>6, <2>1, <2>2
<1>7. CASE PassedRules(w) \/ PassedBalance(w)
  <2>1. w \in Creating /\ UNCHANGED req
    BY <1>7 DEF PassedRules, PassedBalance, At, Creating
  <2>2. job'[w].m = job[w].m /\ job'[w].unspent = job[w].unspent /\ job'[w].n = job[w].n
    BY <1>0, <1>7 DEF PassedRules, PassedBalance, TypeOK, Job, At
  <2>3. ASSUME job'[w].at = "insert" PROVE job'[w].n + LockedPoints(job[w].m)' <= job'[w].unspent
    <3>1. job[w].n <= job[w].unspent - LockedPoints(job[w].m)
      BY <1>0, <1>7, <2>3 DEF PassedRules, PassedBalance, TypeOK, Job, At
    <3>2. LockedOf(m)' = LockedOf(m) /\ \A r \in LockedOf(m) : req'[r].points = req[r].points
      BY <2>1 DEF LockedOf, RequestsOf, Rows
    <3>3. LockedPoints(m)' = LockedPoints(m) /\ LockedPoints(m) \in Nat
      BY <1>0, <3>2, LockedStays, LockedType
    <3>4. job'[w].n + LockedPoints(m)' <= job'[w].unspent
      BY <1>1, <1>3, <2>2, <3>1, <3>3
    <3> QED BY <1>3, <2>2, <3>4 DEF LockedPoints, LockedOf, RequestsOf, Rows, SumPoints
  <2> QED BY <1>3, <1>5, <2>1, <2>2, <2>3
<1> QED BY <1>0, <1>4, <1>6, <1>7, CreatorStep

\* What is converted and promised stays within what was earned.
LEMMA OverdrawnStep ==
    ASSUME UpsertLocksRow, WalletInv, [QuietNext]_vars, NEW m \in Members
    PROVE  member'[m].converted + LockedPoints(m)' <= member'[m].balance
<1>0. TypeOK /\ IsFiniteSet(Rows) /\ LockHeld /\ SettledByHand /\ BalanceKnown /\ [Next]_vars
  BY DEF WalletInv, TotalsInv, FrequencyInv, QuietNext, vars
<1>1. member[m].converted + LockedPoints(m) <= member[m].balance
  BY DEF WalletInv, NeverOverdrawn
<1>2. /\ LockedPoints(m) \in Nat /\ member[m].converted \in Nat /\ member[m].balance \in Nat
      /\ member'[m].balance \in Nat
  <2>1. TypeOK'
    BY <1>0, TypeStep DEF WalletInv, TotalsInv
  <2> QED BY <1>0, <2>1, LockedType DEF TypeOK, MemberRow
<1>3. CASE UNCHANGED req /\ KeepsTotals(m)
  <2>1. LockedOf(m)' = LockedOf(m) /\ \A r \in LockedOf(m) : req'[r].points = req[r].points
    BY <1>3 DEF LockedOf, RequestsOf, Rows
  <2>2. LockedPoints(m)' = LockedPoints(m)
    BY <1>0, <2>1, LockedStays
  <2> QED BY <1>1, <1>2, <1>3, <2>2 DEF KeepsTotals
<1>4. ASSUME NEW r \in Requests, Inserts(r)
      PROVE  member'[m].converted + LockedPoints(m)' <= member'[m].balance
  <2>1. PICK v \in Workers : /\ At(v, "create", "insert") /\ req'[r].member = job[v].m /\ req'[r].points = job[v].n
                             /\ job[v].n \in WithdrawablePoints
    BY <1>0, <1>4, InserterLocks
  <2>2. /\ r \in Requests \ Rows /\ Rows' = Rows \cup {r} /\ req'[r].status = "APPROVED"
        /\ \A q \in Requests : q # r => req'[q] = req[q]
        /\ UNCHANGED member
    BY <1>0, <1>4, InsertedRowStep
  <2>3. \A q \in LockedOf(m) : q \in Requests /\ q # r /\ req'[q] = req[q]
    BY <2>2 DEF LockedOf, RequestsOf, Rows
  <2>4. CASE job[v].m = m
    <3>1. LockedOf(m)' = LockedOf(m) \cup {r}
      BY <2>1, <2>2, <2>3, <2>4 DEF LockedOf, RequestsOf, Rows, LOCKED_STATUSES
    <3>2. req'[r].points \in Nat
      BY <2>1
    <3>3. LockedPoints(m)' = LockedPoints(m) + req'[r].points
      BY <1>0, <2>2, <2>3, <3>1, <3>2, LockedAdd
    <3>4. job[v].n + LockedPoints(m) <= job[v].unspent /\ job[v].unspent <= member[m].balance - member[m].converted
      BY <1>0, <2>1, <2>4 DEF BalanceKnown, Creating, At
    <3>5. job[v].unspent \in Int /\ job[v].n \in Nat
      BY <1>0, <2>1 DEF TypeOK, Job, At
    <3> QED BY <1>2, <2>1, <2>2, <3>3, <3>4, <3>5
  <2>5. CASE job[v].m # m
    <3>1. LockedOf(m)' = LockedOf(m)
      BY <2>1, <2>2, <2>3, <2>5 DEF LockedOf, RequestsOf, Rows
    <3>2. LockedPoints(m)' = LockedPoints(m)
      BY <1>0, <2>3, <3>1, LockedStays
    <3> QED BY <1>1, <2>2, <3>2
  <2> QED BY <2>4, <2>5
<1>5. ASSUME NEW r \in Requests, Settles(r, PAYABLE_STATUSES, "staff")
      PROVE  member'[m].converted + LockedPoints(m)' <= member'[m].balance
  <2>1. /\ r \in Rows /\ Rows' = Rows /\ req[r].status \in PAYABLE_STATUSES /\ req'[r].status = "PAID"
        /\ req'[r].points = req[r].points /\ req'[r].member = req[r].member
        /\ \A q \in Requests : q # r => req'[q] = req[q]
        /\ member'[m].converted = member[m].converted + (IF m = req[r].member THEN req[r].points ELSE 0)
        /\ member'[m].balance = member[m].balance
    BY <1>0, <1>5, SettledRow DEF PAYABLE_STATUSES
  <2>2. req[r].status = "APPROVED" /\ req[r].points \in Nat
    BY <1>0, <2>1, RowAmounts DEF SettledByHand, PAYABLE_STATUSES
  <2>3. \A q \in Rows : q \in Requests /\ req'[q].points = req[q].points /\ req'[q].member = req[q].member
    BY <2>1 DEF Rows
  <2>4. \A q \in LockedOf(m) : req'[q].points = req[q].points
    BY <2>3 DEF LockedOf, RequestsOf
  <2>5. CASE m = req[r].member
    <3>1. r \in LockedOf(m) /\ LockedOf(m)' = LockedOf(m) \ {r}
      BY <2>1, <2>2, <2>3, <2>5 DEF LockedOf, RequestsOf, LOCKED_STATUSES
    <3>2. LockedPoints(m) = req[r].points + LockedPoints(m)' /\ LockedPoints(m)' \in Nat
      BY <1>0, <2>4, <3>1, LockedRemove
    <3>3. member'[m].converted = member[m].converted + req[r].points
      BY <2>1, <2>5
    <3> QED BY <1>1, <1>2, <2>1, <2>2, <3>2, <3>3
  <2>6. CASE m # req[r].member
    <3>1. LockedOf(m)' = LockedOf(m)
      BY <2>1, <2>3, <2>6 DEF LockedOf, RequestsOf
    <3>2. LockedPoints(m)' = LockedPoints(m) /\ member'[m].converted = member[m].converted
      BY <1>0, <1>2, <2>1, <2>4, <2>6, <3>1, LockedStays
    <3> QED BY <1>1, <2>1, <3>2
  <2> QED BY <2>5, <2>6
<1>6. ~(\E r \in Requests : Settles(r, {"PAYOUT_PROCESSING"}, "gateway"))
  BY <1>0 DEF SettledByHand, Settles, At
<1>7. ~(\E r \in Requests, p \in Payouts : Records(r, p)) /\ ~(\E p \in Payouts : Fails(p))
  BY <1>0 DEF SettledByHand, Records, Fails, At
<1> QED BY <1>0, <1>3, <1>4, <1>5, <1>6, <1>7, RequestSteps

LEMMA WalletStep ==
    ASSUME UpsertLocksRow, ~GatewayEnabled, WalletInv, [QuietNext]_vars
    PROVE  WalletInv'
<1>1. TotalsInv /\ FrequencyInv /\ SettledByHand /\ TypeOK /\ [Next]_vars
  BY DEF WalletInv, TotalsInv, QuietNext, vars
<1>2. TotalsInv' /\ FrequencyInv' /\ SettledByHand'
  BY <1>1, TotalsStep, FrequencyStep, ByHandStep
<1>3. BalanceKnown'
  BY KnownStep
<1>4. NeverOverdrawn'
  BY OverdrawnStep DEF NeverOverdrawn
<1> QED BY <1>2, <1>3, <1>4 DEF WalletInv

LEMMA WalletInit == Init => WalletInv
<1> SUFFICES ASSUME Init PROVE WalletInv
  OBVIOUS
<1>1. TotalsInv /\ FrequencyInv
  BY TotalsInit, FrequencyInit
<1>2. SettledByHand /\ BalanceKnown
  BY LegacyRows, NothingRuns DEF SettledByHand, BalanceKnown, Creating, Rows
<1>3. NeverOverdrawn
  BY MemberInit, LegacyLocked DEF NeverOverdrawn
<1> QED BY <1>1, <1>2, <1>3 DEF WalletInv

\* NeverOverdrawn: where reading the settings locks their row and requests are
\* settled by hand, at times when no request is being created, the points that
\* members have converted and promised were all earned, for any number of
\* members, requests and concurrent creations.
THEOREM WalletNeverOverdrawn == UpsertLocksRow /\ ~GatewayEnabled => (QuietSpec => []NeverOverdrawn)
<1>1. WalletInv => NeverOverdrawn
  BY DEF WalletInv
<1>2. CASE UpsertLocksRow /\ ~GatewayEnabled
  <2>1. WalletInv /\ [QuietNext]_vars => WalletInv'
    BY <1>2, WalletStep
  <2> QED BY <1>1, <2>1, WalletInit, PTL DEF QuietSpec
<1> QED BY <1>2
=============================================================================
