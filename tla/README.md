# Verification of NMMS

NMMS is a membership system of an NGO: a NestJS API over PostgreSQL (Prisma),
a React web application, and three kinds of external service: Razorpay takes
membership fees and donations, RazorpayX pays members out, SMS/WhatsApp/OCR
providers do the rest. Paths below are relative to the repository, which the
`map` of `PROJECT.json` calls `src/`; `API` is `apps/api/src`.

The program has no queues and no background workers except one daily job.
Everything is an HTTP request handler: staff, members, and the webhooks of the
gateways call in at any time, and PostgreSQL at READ COMMITTED is the only thing
that orders them. What is hard is therefore always the same: a handler reads a
row, calls out or awaits another statement, and then writes, while other
handlers do the same. The code's own answer is the compare-and-swap
(`updateMany` with the expected status in its `where`), unique keys, and
interactive transactions; the models are at the grain where those matter, one
step per statement.

## 1. Inventory

| Component | State | Operations | Interacts with | What makes it correct |
|---|---|---|---|---|
| Withdrawals (`API/withdrawals`) | `WithdrawalRequest` rows, `Member.pointsConverted`, `totalWithdrawnAmount`, `WITHDRAWAL_CONVERTED` ledger rows | createRequest, markPaid, markPayoutProcessing, markPaidFromPayout, markPayoutFailed | reads KYC, settings, member; called by the payout gateway | points are promised once and paid once; totals match the paid requests |
| Payout gateway (`API/withdrawals/gateway`) | the payout ids on the request; RazorpayX's own record | initiatePayout, checkStatus, handleWebhook | RazorpayX | at most one live transfer per request, to the recorded account; the recorded outcome is the real one; nothing stays in flight |
| KYC (`API/kyc`) | payout destination and `kycStatus` of the member | submitKyc, updateKycAsAdmin | Withdrawals | a change never redirects an open request that recorded its destination |
| Applications (`API/applications`) | `Member.status`, `StatusHistory` | suspend, reactivate, markDeceased | Withdrawals, member auth | a transition happens from the status it expects; the history is a chain |
| Payments (`API/payments`) | `Payment` rows, member plan and validity | record, verify, renew, upgrade | Razorpay, numbering, activation, referrals | a gateway payment is recorded once; a member is activated once; a renewal extends once |
| Activation and expiry (`API/members/member-activation.util.ts`, `member-expiry.scheduler.ts`) | `Member.status`, `membershipNumber`, `validUntil` | activate, daily sweep | Payments | no expiry of a membership that was renewed |
| Numbering (`API/common/numbering.service.ts`) | three counters on `OrgSettings` | next* | Payments, Donations, Members | numbers are unique; no deadlock on the connection pool |
| Referrals (`API/referrals`) | `ReferralPointsLedger`, `Member.referralPointsBalance`, rewards | award with its cap, event and donation points and their review, referral codes, batch rewards of a tier | Payments, Events, Donations | the balance is the sum of the ledger; the lifetime cap holds; an activation is awarded once |
| Donations (`API/donations`) | `Donation` rows, receipts | submitMine, recordDirect, gateway verify and webhook | Referrals, numbering, Razorpay | approved and credited once |
| Events (`API/events`) | `EventRegistration` rows | register, unregister, submitEvidence | Referrals | an event's points are earned once |
| Members (`API/members`) | `Member` rows | create, update, submit, remove, promoteToExecutive | everything | identity is unique; referral chains are acyclic; one staff account per promotion |
| Documents (`API/documents`) | files, `MemberDocument` rows | upload, delete | storage | no row without its file |
| Member and staff authentication (`API/member-auth`, `API/auth`, `API/users`) | password resets, users, tokens | login, refresh, logout, register, reset | Members, the web clients | a one-time code is used once; a blocked account is turned away |
| Plans, rewards, notices, masters, org settings, integrations | rows of their own | CRUD | read by the others | unique keys |
| Reports, card, OCR, notifications, audit, health | none that feeds back | reads, sends, appends | | |
| Web clients (`apps/web/src/lib`, `stores`) | the session of a tab: user, access token, status; the refresh cookie it shares with other tabs | apiFetch with its refresh and retry, restoring at page load, login, logout | authentication | user, token and status agree; no page waits for ever; a call ends |
| Web pages (`apps/web/src/pages`), shared schemas (`packages/shared`) | none that outlives a page | forms and tables over the API; input validation | API | |

The hazards of each, with their lines, are `hazards` in `PROJECT.json`.

## 2. Plan

| # | Modules | What | State |
|---|---|---|---|
| 1 | `PointSpending`, `Withdrawals` | points out: requests, manual settlement, gateway payouts | modelled, checked, proved (sections 3 and 4) |
| 2 | `FeeCollection`, `Membership` | fees in: gateway verify and webhook, manual recording, activation, renewal, upgrade, numbering, the expiry job, lifecycle transitions | modelled, checked, proved (section 5) |
| 3 | `PointEarning`, `PointsLedger`, `Donations`, `Events` | points in, from donations and events: reviews, gateway donations, evidence, the connection pool | modelled, checked, proved (section 6) |
| 4 | `Referrals` on `PointsLedger` | points in, from referred members: the award and its cap, the chain of referrers | modelled, checked, proved (section 6) |
| 5 | `Sessions` | tokens, the two web clients, blocked accounts | modelled, checked, proved (section 7) |
| 6 | `Accounts` | identity of members, promotions, the sentinel account, referral codes, password resets | modelled, checked, proved (section 8) |

Abstract specifications: a claim on points is paid once (`PointSpending`), a
captured payment takes effect once (`FeeCollection`), what earns points earns them
once (`PointEarning`). All three refinements are proved, the third for `Donations`
and for `Events`.

Every safety invariant and every action property that a passing run checks is also a
theorem, each with its inductive invariant. Four properties are only
model-checked, because they are liveness properties under fairness, which is
beyond the prover: `PayoutResolves`, `LapsedExpires`, `HandlersEnd` and `TasksEnd`.

Sums. Balances, totals and caps are sums over sets of rows that grow and shrink
(`SumFunctionOnSet` of the community modules, a fold by a recursive function).
`SumTheorems.tla` proves what is said of them: the sum of nothing, that a sum
depends on the summands only, that any element may be taken out or put in
(`SumRemove`, `SumAdd`), and the sum of the rows of one member (`SumOfRows`). The
arguments are by least counterexample: the number of elements is well-founded, and
so is the strict inclusion between the subsets of a finite set; from these follow
that the recursive function exists and that the order of summation does not matter.

## 3. Withdrawals

### The model

`Withdrawals.tla` models `WithdrawalsService` and `PayoutGatewayService`
statement by statement. A request handler is a worker `w`; `job[w]` is where it
is and what it has read. An action ends where the code awaits something that
another handler can change.

| Code | State or actions |
|---|---|
| `Member` columns `status`, `referralPointsBalance`, `pointsConverted`, `totalWithdrawnAmount`, payout columns | `member[m]` |
| `WithdrawalRequest` | `req[r]`; `paidBy` says which of the two routes settled it (`paidById` or not) |
| `ReferralPointsLedger` rows of reason `WITHDRAWAL_CONVERTED`, unique per request | `debits` |
| RazorpayX's payouts | `payout[p]` (external) |
| lock on the `OrgSettings` row | `settingsLock` |
| `createRequest` | `CreateReadMember`, `CreateReadSettings`, `CreateCheckBalance`, `CreateInsert` |
| `markPaid` | `MarkPaidFind`, `MarkPaidCheckEligible`, `MarkPaidCas` |
| `initiatePayout`, `markPayoutProcessing` | `InitiateRead`, `InitiateCheckEligible`, `InitiateTransfer` or `InitiateRefused`, `InitiateRecheckEligible`, `InitiateCas` |
| `handleWebhook`, `checkStatus`, `applyPayoutResult` | `HandleWebhook`, `CheckStatus`, `CheckStatusPoll` |
| `markPaidFromPayout`, `markPayoutFailed` | `PaidFromPayoutFind`, `PaidFromPayoutCas`; `MarkPayoutFailed` |
| crash, transaction timeout, lost answer | `Abort` |
| suspend, reactivate, deceased; saving KYC; points credited | `Suspend`, `Reactivate`, `MarkDeceased`; `SaveKyc`; `CreditPoints` |

Abstractions. Amounts: the point counts whose gross amount lies within the
organization's limits are a constant set, the amount paid out a constant
function of the points (settings do not change during a run; a request keeps
the amounts of its creation anyway). A destination is one value. Time is days.
`REJECTED` members are a status of the model without an action that leads to it.
Of the member statuses only those that a withdrawal distinguishes appear.
`PENDING` and `REJECTED` requests exist in the schema but nothing in the code
makes them any more.

Requests of before the snapshot. The account number is stored with a request
since migration `20260816195447_add_withdrawal_bank_snapshot`, which left the
column null in older rows. `Init` has any such APPROVED requests
(`LegacyRequests`, with `LegacyPoints` points) of members whose balance covers
them. `PayoutDestination` sends them to the account that was read with the
member when the payout was initiated (`payout-gateway.service.ts:84-91`); the
code combines its number with the IFSC code of the request, which the model does
not show, and refuses a member who has switched to UPI, which is among the
outcomes (`InitiateRefused`). `TransfersFollowRequest` says of them that one
transfer is live, and nothing of where it goes.

The settings row. `getSettings` inside `createRequest` is
`orgSettings.upsert({ update: {} })` in the transaction. Prisma executes this
as `INSERT ... ON CONFLICT DO UPDATE` (the model has an `@updatedAt` column, so
the update is not empty), which locks the row until the transaction ends; that
is what keeps two creates of one organization apart. It is an accident of an
ORM version rather than something the code states, so it is a constant,
`UpsertLocksRow`; with `FALSE`, two concurrent creates overdraw the balance and
break the frequency rule.

External assumptions. A payout carries the request's id as `reference_id`, and
`razorpayx-payout-provider.ts:98-100` relies on a retried call not making a
second transfer: `CreatePayout` returns a live payout of the same reference, and
makes a new one only if none is live. Webhooks may be lost, repeated, late and
reordered (`Announced`). A payout that was processed may later be reversed only
if `Reversals` is `TRUE`.

`PointSpending.tla` is the abstract specification: a claim is made once, paid
at most once, and its points leave the balance in the step that pays it.

### The runs

`MCWithdrawals.tla` gives the constants. Every run is small because one
organization's rows interact only through one member's balance and one
request's status; two handlers are enough for every pair of statements to
interleave, and two payouts for one retry.

| Run | Instance | Shows |
|---|---|---|
| `books` | 1 request, new or of before the snapshot, 2 payouts, 2 handlers, 2 accounts, 2 days, 1 crash, reversals | exactly one debit, one live transfer, to the account recorded if one was, history |
| `settlement` | the same without reversals, with 1 account and fairness | true outcomes; every payout in flight resolves |
| `wallet` | 3 requests, 2 handlers, 3 points, 2 days, 1 crash, no gateway | never overdrawn, frequency rule, cached totals, refinement of `PointSpending` |
| `readskew` | 2 requests, 2 handlers, no gateway | a disagreement of section 9 |

`wallet` checks `QuietSpec` of `Withdrawals.tla`: no request of the member is settled while the
member is creating another one. Without that restriction `NeverOverdrawn` is
false, which is what `readskew` shows. Requests are three because the third is
the one that two concurrent creates may both count wrongly. `settlement` has
no reversals because with them `OutcomesAreTrue` is false (section 9). The bounds are `MaxBalance`,
`MaxDay`, `MaxAborts` and the number of ids; no handler blocks for want of an
id except a create (`CreateReadMember`) and a transfer.

Fairness (`FairSpec`). A handler that has started goes on to its end (Node runs
it; the one lock is released by its holder). RazorpayX decides every payout.
Nothing makes a webhook arrive: one that comes before `initiatePayout` has
stored the payout id finds no request, is answered 200 and is never sent again.
So the resolution of a payout rests on staff, who see the request in
PAYOUT_PROCESSING and press "Check Status"; that is the strong fairness of
`CheckStatus`, which is strong because the handlers may be busy now and then.
With webhooks alone `PayoutResolves` is false.

The mutants in `PROJECT.json` replace one definition by a plausibly wrong one
(`..._NoCas`, `..._DayEarly`); the definitions with such suffixes are not
otherwise used.

## 4. What is proved of Withdrawals

`Withdrawals_proofs.tla`, for any numbers of members, requests, payouts,
handlers and crashes, and any amounts. Assumptions: `NoneAssumption`,
`AmountsAssumption`, `BoundsAssumption` of `Withdrawals`.

| Theorem | Says |
|---|---|
| `TypeCorrect` | `TypeOK` |
| `PaidExactlyOnce` | a request is PAID exactly when it has its one debit row |
| `TransfersFaithful` | at most one live transfer of a request, by RazorpayX's idempotency; all to the destination it recorded, if it recorded one |
| `HistoryKept` | requests are not rewritten, a PAID one is final |
| `SettlementHolds`, `OutcomesTrue` | without reversals, the recorded outcome is the real one |
| `SpendingImplemented` | `Withdrawals` implements `PointSpending` |
| `TotalsMatch` | `TotalsMatchPaid` |
| `FrequencyKept` | `FrequencyRespected`, if `UpsertLocksRow` |
| `WalletNeverOverdrawn` | `NeverOverdrawn` of `QuietSpec`, if `UpsertLocksRow` and without a gateway |

The argument. `RequestSteps` reduces all actions to four kinds of write to a
request (`Inserts`, `Settles`, `Records`, `Fails`) or none; `PayoutStep` does
the same for RazorpayX's side. Everything else is proved from these two.
`PaidIffDebited` is inductive with the types alone. One live transfer is not:
it needs that the handler that created a payout still knows whose it is, and
that its request still exists, which `PayoutsHaveRows` and `HandledRowsExist`
add; together they are `BookInv`. The outcomes need what a handler carries from
its read to its write: a report it holds is still what happened, and the request
it found by payout id still has that payout (`ResultsStayTrue`), with
`StatusShape` and `NothingReversed`; together with `BookInv` they are
`SettlementInv`. `NothingReversed` is where the hypothesis `~Reversals` enters,
and with `Reversals` TLC finds the theorem's property violated. The
refinement maps a request to a claim (`PhaseOf`) and `pointsConverted` to
`spent`: `Inserts` is `Make`, `Settles` is `Pay`, everything else a stutter.

Sums and the settings lock. `TotalsInv` adds to `TotalsMatchPaid` that there are
finitely many requests; only `Settles` changes a total, by the request it takes into
the sum. The frequency rule is not inductive: a create checks it in one step and
inserts in a later one. `LockHeld` says that until then the transaction has the
settings row, and that what it checked still holds; `UpsertLocksRow` enters where
another create would take the row. `WalletInv` is the invariant of the balance. It
adds that what a create has read of the member may still be spent as read, and that,
once it was checked, there is room for the request (`BalanceKnown`): with the lock no
other create takes that room, and in `QuietSpec` no settlement changes the row. Its
hypotheses are where the code's own protection ends, and each is needed. Without
`UpsertLocksRow` two creates overdraw the balance. With the gateway a request whose
payout failed locks no points and can still be paid. With settlements that overlap
a create `readskew` is the counterexample.

Only model-checked: `PayoutResolves` (liveness).

## 5. Membership

### The model

`Membership.tla` follows a membership from the draft to its end: `PaymentsService`,
`PaymentGatewayService`, `activateMemberOnce`, `MemberExpiryScheduler`,
`ApplicationsService`, `NumberingService` and the parts of `MembersService` that
decide what is paid for. Workers and `job[w]` are as in `Withdrawals`; the daily
job is a worker too.

| Code | State or actions |
|---|---|
| `Member` columns `status`, `planId`, `feeOverride` (`override`), `joiningDate`, `validUntil`, `membershipNumber`; `ReferralReward` tiers; the referral award of the activation | `member[m]` |
| `StatusHistory` | `trail[m]`: per status, rows into it minus rows out of it |
| `Payment`, unique by `gatewayPaymentId` | `payments` |
| Razorpay's orders | `order[g]` (external), quoting the plan of the day they were made |
| `OrgSettings.lastMembershipSeq`, `lastReceiptSeq` | `membershipSeq`, `receiptSeq` |
| `selectMyPlan`, `update` | `SelectPlanRead`, `EditPlanRead`, `PlanWrite` |
| `submit`, `remove` | `SubmitRead`, `SubmitCas`, `SubmitHistory`; `RemoveRead`, `RemoveWrite` |
| `recordPayment`; verify and webhook | `RecordPaymentRead`; `GatewayFind`, `GatewayReadMember` |
| `finalizePayment` with `activateMemberOnce` | `FinalizeCas`, `AllocateMembershipNumber`, `AllocateReceipt`, `FinalizeCommit` or `FinalizeDuplicate`, `AwardPoints` |
| `upgradePlan` | `UpgradeRead`, `UpgradeCas`, `AllocateReceipt`, `UpgradeCommit` |
| `expireOverdueMembers` | `SweepFind`, `SweepExpire`, `SweepHistory` |
| suspend, reactivate, markDeceased | `Suspend`, `Reactivate`, `DeceasedRead`, `DeceasedCas` |
| crash, failed statement | `Abort` |

A transaction's compare-and-swap locks the member's row until it commits
(`InTx`, `Locked`); other statements that would write the row wait, and reads see
what was there before. Everything a transaction writes appears in its commit
action, so a rollback is simply leaving it. The exception is
`NumberingService.next`, which runs on a connection of its own and commits at
once: a rolled back transaction keeps the number it took. `suspend` and
`reactivate` are one action each, because their compare-and-swap tests exactly
what their read tested.

Abstractions. The fee of a plan is a constant. A member's `feeOverride` is a column of
its own that staff set with or without the plan, and that `UpgradeRead` reads with it
(`EffectiveFee`); the amounts of the fees that are paid are not kept. Days stand for
months and dates. `SUBMITTED`, which only rows from before a redesign have, is treated
by all this code as `AWAITING_PAYMENT`. `Handlers` says which of the handlers run in
an instance. `remove` is an action of its own and does not have the foreign key error
it may end with when a payment is inserted while it waits for the row. What a referral
award is worth is the business of `Referrals`; the model keeps that it was made.

`FeeCollection.tla` is the abstract specification: a captured payment is taken
once, the first fee of a member gives a number that is nobody else's and is kept,
and the end of a membership moves only in a step that takes a fee.

### The runs

| Run | Instance | Shows |
|---|---|---|
| `fees` | 2 members, 2 captured payments and cash, 2 handlers, 3 receipts, 2 days, 1 crash | a payment is recorded once, a member activated once, no membership number lost, refinement of `FeeCollection` |
| `upgrades` | 1 member, 3 plans (one without validity, one for life), 2 handlers, 4 receipts, 1 crash; edits of plan and fee, deletion, death | one of two competing upgrades wins, whatever else goes on; `MembershipInv`, the invariant of the proofs |
| `sweep` | 2 members, 2 handlers, 2 receipts, 4 days, 1 crash, with fairness | the history accounts for the status, nobody becomes ACTIVE without a fee or staff, what has lapsed is expired |

Two handlers interleave every pair of statements; two captured payments and cash
are what it takes for an activation and a renewal to compete with a duplicate
report. Three plans let two different upgrades start from the same plan. Four
days let a membership lapse and a run of the daily job be missed. The bounds are
`MaxReceipts` (no payment starts that could not get a receipt), `MaxDay` and
`MaxAborts`; because of them the model, unlike the system, comes to an end, and
deadlock is not checked. `FeesSpec` is checked without `remove`, which deletes
payments.

`MembershipSeriesDense` and `TrailAccountsForStatus` say something of executions
without a crash; a crash does lose numbers and history rows. `UpgradePricedFromPlan`
needs the plan in the compare-and-swap of `upgradePlan`, not only the status. It says
nothing of the fee override, which that compare-and-swap leaves out: in this very run
an upgrade opens its transaction with an amount from an override that an edit has
replaced since (section 9).

Fairness (`FairSpec`). A handler goes on to its end (no cycle of waiting: a lock is
held by a worker that waits for nothing). The daily job runs again and again:
strong fairness of `SweepFind`, because the model has only so many workers and
they may all be busy, while the process always can start the job. Nothing else is
fair: no payment, no staff action and no day need ever come.

### What is proved

`Membership_proofs.tla`, for any members, workers, captured payments, plans, fees
and bounds, with any subset of the handlers at work. Assumptions: `NoneAssumption`,
`PlansAssumption`, `BoundsAssumption` of `Membership`.

| Theorem | Says |
|---|---|
| `TypeCorrect` | `TypeOK` |
| `Invariant` | `MembershipInv`, the inductive invariant |
| `NothingRecordedTwice` | `RecordedOnce` |
| `OneActivation` | `ActivatedOnce` |
| `UpgradesFromThePlanPriced` | `UpgradePricedFromPlan` |
| `Lifecycle` | `StatusChanges`, if `remove` is not at work |
| `ImplementsFeeCollection` | `FeesSpec`, if `remove` is not at work |
| `NoNumberLost` | `MembershipSeriesDense`, if `remove` is not at work |
| `HistoryAccounts` | `TrailAccountsForStatus`, if `markDeceased` is not at work |

The argument. `NextKinds` sorts the steps: nearly all are in the `Background`,
which leaves payments, counters and open transactions alone and touches a row
only if it is not locked; the others are the seven of `FeeStep` and
`RemoveWrite`. `RecordedOnce` and `ActivatedOnce` are not inductive, because they
say nothing of the transactions that are about to commit. `MembershipInv` adds
that the row of an open transaction is what its compare-and-swap found and that it
is the only one of that member (`TransactionsHold`); that the numbers and receipts
it holds are nobody else's and not ahead of their counters (`NumbersIssued`,
`ReceiptsIssued`); that a member has a number exactly from the activation on, and
before it neither payment nor award (`NumberedOnceActivated`,
`UnpaidUntilActivated`); and that an award is owed by one worker (`AwardsOwed`).
One lemma per kind of step shows that it is kept (`BackgroundInv` to `AwardInv`).
The rest follows: the count of registrations from `OneRegistration`, the changes of
status and the refinement from the effect of a commit (`CommitEffect`), every other
step being one that `FeeCollection` does not see (`FeesStutter`). `Lifecycle` and
`ImplementsFeeCollection` exclude `remove` because a deletion that overtakes a
submission takes a paid member's row away (section 9).

`MembershipSeriesDense` counts the numbers on rows and in open transactions. The
counting is done on the sets `Numbered` and `Holding`: a number moves from one to
the other at a commit, and `NumbersIssued` says that it was in one place only.
`SeriesKept` adds that both are finite and that a payment through Razorpay is of the
member whose order was captured (`CapturesKept`): an activation's payment is not there
yet, because its member has none, so that an activation never ends as a duplicate
whose rollback loses its number. With
`remove` a number goes with its row. `TrailAccountsForStatus` holds only when the
handlers are done; `TrailKept` says it at every moment, with the history rows that a
submission and the daily job still owe (`TrailLeads`), of which a member has at most
one each, the job being one handler at a time (`OneSweep`). With `markDeceased` it
is false, for the reason in section 9.

Only model-checked: `LapsedExpires` (liveness).

## 6. Points

### The models

`PointsLedger.tla` is what `ReferralsService` does to the earned points of a member:
the `ReferralPointsLedger` rows (`ledger`) and the balance cached on the member
(`balance`), always written in one transaction. `Donations`, `Events` and
`Referrals` extend it; what earned a row is its `source`: a donation, a
registration, a referred member. `PointEarning.tla` is the abstract specification:
a source earns at most once, for one member, and its points enter that member's
balance in the same step. `Withdrawals` has the other side of the balance
(`CreditPoints` there stands for everything here).

| Code | State or actions |
|---|---|
| `Donation`, `OrgSettings.donationPointsPercent`, `lastDonationReceiptSeq` | `donation[d]`, `percent`, `receiptSeq` |
| Razorpay's captured donations | `captured[g]`, `Pay` |
| `submitMine` | `SubmitRead`, `SubmitCreate`, `SubmitPoints` |
| `recordDirect`; verify and webhook, `recordApprovedDonation` | `DirectRead`; `GatewayFind`, `GatewayReadSettings`; then `BeginTransaction`, `AllocateReceipt`, `RecordCommit` or `RecordDuplicate` |
| `approve`, `reject`, `resolveDonation` | `ReviewFind`, `BeginTransaction`, `ApproveCas`, `AllocateReceipt`, `ApproveCommit`; `RejectCas`; `ResolveFind`, `ResolveSettle` |
| Prisma's connection pool and transaction timeout | `ConnectionFree`, `TimeOut`, `OrphanEnds` |
| `Event`, `EventRegistration`, `Member.status` | `event[e]`, `reg[r]`, `status[m]` of `Events` |
| `createRegistration` for `registerSelf` and `registerMember` | `RegisterSelf`, `RegisterMember`; `RegisterLock`, `RegisterCount`, `RegisterInsert` |
| `unregister`, `update` | `UnregisterFind`, `UnregisterDelete`; `UpdateEvent` |
| `submitEvidence`, `creditEventPoints` | `EvidenceRead`, `EvidenceReadPoints`, `EvidenceCommit` |
| `Member.referralMemberId`, `Member.status` | `referrer[m]`, `status[m]` of `Referrals` |
| register with a referrer | `RegisterRead`, `RegisterCreate` |
| `update` with `assertReferrerValid` | `UpdateRead`, `UpdateReadCandidate`, `UpdateWalk`, `UpdateWrite` |
| `remove` | `RemoveRead`, `RemoveWrite` |
| `awardPointsForApproval`, `applyReferralCap` | `Activate`, `AwardReadMember`, `AwardReadReferrer`, `AwardReadCap`, `AwardCredit` |
| crash, failed statement | `Abort` |

In `Donations` the connections of the pool are counted. A transaction keeps one,
and `NumberingService.next`, called inside it, needs a second one: as many
transactions as there are connections wait for each other, until Prisma's timeout
of five seconds rolls one back. Its call for a number is still waiting then and
may take a number for nothing (`OrphanEnds`).

In `Events` the database has run for a while: when evidence was still reviewed,
registrations became PENDING_REVIEW or REJECTED with a ledger row. The methods that
wrote those rows (`recordPendingEventPoints`, `resolveEventEvidence`) have no caller
any more, but `creditEventPoints` handles the rows; they are initial states. The
transaction that accepts evidence is one step, because its compare-and-swap locks
the registration and nothing else touches its row of the ledger. An event without a
limit is one whose capacity is above the number of registrations.

In `Referrals` several handlers read what they then write without a lock. The
history variable `overlapped` remembers of which kinds two have overlapped, and the
properties that rest on a read (`ReferralsAcyclic`, `CapRespected`) are stated for
executions in which their kind has not. That is the strength the code has: with
overlap both are false, which section 9 lists. Everything else may overlap, crash
and repeat: an activation with a removal, an award with a change of the referrer.

Abstractions: amounts and percentages are integers; the rule matrix, plans and
switches behind a number of points are any value of a set, read when the code reads
them; donors, modes, notes, attendance and files are left out.

### The runs

| Run | Instance | Shows |
|---|---|---|
| `donations` | 1 member, 2 donations, 1 captured payment, 2 handlers on 2 connections, 2 receipts, rates 0 and 1 %, 1 crash, with fairness | points only for confirmed money, at the rate of the submission, and none forgotten; receipt numbers distinct and lost only to a crash, a timeout or a duplicate; refinement of `PointEarning`; no handler waits for ever; `DonationInv`, the invariant of the proofs |
| `events` | 2 members, 2 registrations, 1 event for 1 or 2, 2 handlers, every mixture of old rows, 1 crash | accepted evidence and credited points go together, refinement of `PointEarning`, no overbooking; `EventInv`, the invariant of the proofs |
| `referrals` | 3 members, 2 handlers, awards of 0 or 2, a cap of 3, 1 crash | the balance is the sum of the rows, no loop of referrers, the cap, one award for an activation |

The bounds. Two handlers on two connections are enough for the pool to be
exhausted; with an amount of 150 the two rates give 0 and 1 points, so that a
change of the rate shows and a donation may be worth nothing. Two registrations
compete for one place or for a second row of one member. Three members allow a
loop of two that a third one's walk enters, and two awards to one referrer of
which the second is cut by the cap (2, then 1). `EarningSpec` implies that the
balance is the sum of the approved rows; `referrals`, where `remove` deletes rows
and the refinement therefore does not hold, checks that sum itself. The bounds
`MaxReceipts`, `MaxAborts` and the ids make the models come to an end, so deadlock
is not checked.

Fairness (`FairSpec` of `Donations`): strong fairness of each handler's next step or
timeout, because waiters for a connection or a row lock are served in the order
they came. `HandlersEnd` needs the timeout: without it two transactions wait for
each other for ever.

### What is proved

`Referrals_proofs.tla`, for any members, handlers, awards, cap and crashes
(assumptions: `SourcesAssumption`, `NoneAssumption`, `BoundsAssumption`):

| Theorem | Says |
|---|---|
| `TypeCorrect` | `TypeOK` |
| `ChainsEnd` | `ReferralsAcyclic` |
| `Earned` | `EarnedByActivation` |
| `WalksAdvance` | every step of a walk up a chain comes to somebody new, even in a loop |
| `BalancesSum` | `BalanceIsSum` |
| `CapKept` | `CapRespected` |

The argument. That no set of members refers only to itself is not inductive: a
write rests on a walk that was made earlier. `ChainInv` adds what the walk has
established (`Followed`): who was visited refers to somebody visited, to nobody, or
to the one who is next, and the member being edited is not among them. New members
have no one referring to them and removals cut chains, so this survives every other
step; `NewReferrer` is the fact about sets that then closes the proof. `EarnInv`
adds to `EarnedByActivation` that an award under way is the only one of its member
and has no row yet (`AwardSound`).

`CapInv` adds to `CapRespected` that, unless two awards overlapped, the one under way
leaves its referrer within the cap.

`Donations_proofs.tla`, for any members, donations, captured payments, handlers,
connections, rates, timeouts and crashes (assumptions: `NoneAssumption`,
`AmountsAssumption`, `BoundsAssumption`), and `Events_proofs.tla`, for any members,
registrations, events, capacities, handlers, rows of the earlier review and crashes
(assumptions: `SourcesAssumption`, `NoneAssumption`, `BoundsAssumption`):

| Theorem | Says of `Donations` | of `Events` |
|---|---|---|
| `Invariant` | `DonationInv`, the inductive invariant | `EventInv` |
| `TypeCorrect` | `TypeOK` | `TypeOK` |
| `CreditsFollowReview`; `EvidenceEarns` | `PointsFollowReview` | `EvidenceDecidesPoints` |
| `OneReceiptEach`, `NumbersAreKept` | `ReceiptsDistinct`, `ReceiptsKept` | |
| `NothingForgotten` | `PointsAccounted` | |
| `NoEventOverflows` | | `WithinCapacity` |
| `DonationsEarn`; `EventsEarn` | `EarningSpec` | `EarningSpec` |
| `BalancesSum` | `BalanceIsSum` | `BalanceIsSum` |

The argument for donations. A review commits the donation's status in one step and
settles its row of points in two later ones. `OneReview` says that of all reviews of
a donation one is past its compare-and-swap, and that the row it found is still what
it found. `RowsOwed` and `RowOrOwed` say the same of the pending row: it is there, or
one handler is about to write it. `ReceiptsIssued` keeps the numbers in open
transactions apart from those on donations. With these the rows follow the review,
and a donation credits its points in exactly one step, `RecordCommit` or
`ResolveSettle`, which is the step of `PointEarning`.

The argument for events. `creditEventPoints` decides on the rows it finds, so the
invariant has to say which rows there can be: at most one of a registration
(`OneRow`), of the member who is registered (`RowsRegistered`), and credited exactly
if the evidence is accepted. A handler of evidence may outlive the registration;
`EvidenceRegistered` says that its id was not used for somebody else. The capacity is
checked in one step and the registration inserted in another: `RoomKept` is that the
lock on the event makes the count and the capacity stay true in between, also against
staff who change the capacity.

Only model-checked: `HandlersEnd` (liveness).

## 7. Sessions

`Sessions.tla` models `apiFetch` and `memberApiFetch` with their refresh and retry,
the two session stores, `initializeAuth` and `initializeMemberAuth`, and the
endpoints behind them with their guards and strategies. The sides are alike but for
two lines of code, which are two definitions: the members' access strategy reads the
account again (`RereadsAccount`), and their client takes the tokens of a refresh out
of the response envelope (`UnwrapsRefresh`).

| Code | State or actions |
|---|---|
| session store of the tab; refresh cookie | `store`; `cookie` |
| an asynchronous function of the page | task `c`, `job[c]`: a request under way or its answer |
| `User.isActive`, `Member.status` | `blocked[u]`: since when |
| `apiFetch` | `Call`, `ServeCall` or `RefuseCall`, `OnUnauthorized`, a refresh, `OnGranted` or `OnRejected` |
| `initializeAuth` | `Boot`, a refresh, `OnGranted` or `OnRejected` |
| `refresh` of the controllers | `ReadForRefresh`, `issueTokens` |
| login, logout | `Login`, `ReadForLogin`, `issueTokens`; `Logout`, `OnLogout` |
| a lost request; a page loaded anew; other tabs | `FetchFails`; `Reload`; `OtherTabEnters`, `OtherTabLeaves` |
| block and unblock an account; time | `Block`, `Unblock`; `Tick` |

One tab is followed; of the others only what they do to the cookie they share.
Passwords are right, and what a call returns is left out. An endpoint that issues
tokens reads the account and then awaits `argon2.verify` and `signAsync`
(`auth.service.ts:17-18`, `auth.controller.ts:38-39`, `:68-69`), so the two are
separate steps, with a blocking in between; the field `read` of a token, which no
action looks at, remembers when the account was read. The two tokens of an answer
carry one moment.

Run `sessions`: both sides, 1 user, 2 tasks, access tokens that live 1 and refresh
tokens that live 2, time to 2, 1 lost request. Two tasks are two calls that expire
together, or a call that overlaps a login or a logout. It shows that a member's
signed-in tab has that user's token, that a page that waits has somebody to settle it,
that a blocked account is shut out, and that every call ends. How soon it is shut out:
a member at once, because the strategy reads the account again; a staff user when the
last access token expires that rests on a reading from before the blocking. That token
may have been signed after the blocking, by an answer that was under way, so the bound
of `ShutOut` is the lifetime of an access token plus what that answer took; the bound
without it is false of the model. `TasksEnd` assumes weak fairness of each task: a
request is answered or fails, and the event loop goes on.

`Sessions_proofs.tla` proves the first three and `TypeCorrect`, for any users, tasks,
lifetimes and failures (assumptions: `NoneAssumption`, `SidesAssumption`,
`BoundsAssumption`): `Usable`, `Settled`, `BlockedAreShutOut`. The third needs
`IssuedInv`: every token, wherever it is, rests on a reading of its account from before
the blocking, since refreshing reads the account again.
Only model-checked: `TasksEnd` (liveness).

## 8. Accounts

`Accounts.tla` models who is who. None of these handlers uses a transaction.

| Code | State or actions |
|---|---|
| `Member.mobile`, `passwordHash` (is there one), `createdById`, `promotedToUserId`, `referralCode` | `member[m]` |
| `User` | `users` |
| `MemberPasswordReset`; the SMS | `reset`, in the order of creation; `sent` |
| `create`; `register` with `getOrCreateSystemUser` | `CreateRead`; `RegisterRead`, `RegisterFindSystem`, `RegisterCreateSystem`; `InsertMember` |
| `update` of the mobile number | `MobileRead`, `MobileWrite` |
| `promoteToExecutive` with `UsersService.create` | `PromoteRead`, `PromoteCreateUser`, `PromoteCas`, `PromoteUndo` |
| `ensureReferralCode` | `CodeRead`, `CodeCheck`, `CodeWrite` |
| `requestCode` of a reset | `RequestCode`, `RequestInvalidate`, `RequestInsert`, `RequestSms` |
| `confirm` of a reset | `ConfirmRead`, `ConfirmWrong`, `ConfirmCas`, `ConfirmWrite` |
| suspend, reactivate; crash; time | `Suspend`, `Reactivate`; `Abort`; `Tick` |

`PortalTaken` is the partial unique index on the mobile number of the members with a
password (migration `20260817014713`), which refuses an insertion or an edit whatever
was read before; staff's `create` gives no password. Rejected members, whom the index
and the check leave out, are not in the model, nor is the password that staff may set
for a member (`resetPassword`).

A mobile number stands for the Aadhaar number as well, which is checked alike; a
password is which code set it. `overlapped` is as in `Referrals`.

Run `accounts`: 2 members, 2 handlers at a time and 4 in all, 2 numbers, 2 emails, 1
attempt, codes that live 2 of 2 days with a cooldown of 1, 1 crash. Four handlers
are two promotions that compete while one is undone, or two requests for a code and
two tries. It shows that every staff account is the sentinel, of which there is one,
or belongs to the member promoted to it; that a code sets a password once; and that
the last code is the only one that works, unless two requests overlapped.

`Accounts_proofs.tla` proves, for any members, handlers, numbers, emails and bounds
(assumptions: `NoneAssumption`, `EmailAssumption`, `BoundsAssumption`):

| Theorem | Says |
|---|---|
| `TypeCorrect` | `TypeOK` |
| `CodeOnce`, `LastCode` | `CodeWorksOnce`, `OnlyLastCodeWorks` |
| `OneMemberPerMobile` | two members share a number only if two handlers that enter one overlapped, and then at most one of them can log in |
| `CodeStays` | a referral code is replaced only if two requests for a first code overlapped |
| `AccountsAreOwned` | `AccountsBelong` |
| `Limited` | a code is guessed wrong more often than allowed only if two tries overlapped |

The argument. Each invariant carries what a handler has read to where it writes:
`IdentityInv` that the number a handler is about to enter is nobody's (`LoginInv`,
which needs nothing of the kind, is the unique key), `CodeInv` that the member has no
code, `ResetInv` that the winner of the compare-and-swap on a code is one, that the
older codes are dead when a new one is inserted, and that a try about to be counted
has an attempt left. `AccountInv` does so for staff accounts: handlers have numbers of
their own and an account has its creator's (`NumberInv`), an account of a promotion
belongs to the one member promoted to it or to the handler that is still deciding
(`UserInv`, `HandlerInv`), which alone can take it back, and nobody is promoted to it
meanwhile; so no member is left with an account that is gone (`OwnerInv`).

## 9. Where code and documentation disagree

Checked by a run that finds a counterexample: `readskew`. Points can be spent twice
when a request is settled between the two reads of `createRequest`
(`withdrawals.service.ts:138`, `:173`).

Seen while modelling. The models contain these behaviours; the properties are
stated so that they hold of the code as it is.

Payouts:

- A request in PAYOUT_FAILED stays payable and locks nothing, so that its points can
  be promised again and both paid (`withdrawals.service.ts:22`).
- A request of before the snapshot column follows the member's payout details of the
  moment, with the IFSC code of its own (`payout-gateway.service.ts:87-92`).
- The transfer exists before the row says so, and a manual payment fits in between
  (`payout-gateway.service.ts:95`).
- A suspension between `assertMemberPayoutEligible` and the settlement is overlooked
  (`withdrawals.service.ts:227`, against `:362-364`).
- With reversals, a late report of a first payout settles the request on the second:
  the compare-and-swap does not compare the payout id (`withdrawals.service.ts:293`).

Memberships:

- The expiry job expires a member who renewed from ACTIVE to ACTIVE after its query,
  because its update compares the status only (`member-expiry.scheduler.ts:52`).
- Two reports of one renewal both pass the compare-and-swap, and the loser takes a
  receipt number (`payments.service.ts:350`). A cash renewal submitted twice is
  recorded twice for the same reason (`:336`, against `:347-349`).
- A renewal is priced from the plan read first; an upgrade may come in between
  (`payments.service.ts:336`, against `:77-79`).
- The plan and the fee are frozen by a check and written by id later
  (`members.service.ts:279`).
- An upgrade may charge a difference from a `feeOverride` that is no longer the
  member's: its compare-and-swap compares status and plan only
  (`payments.service.ts:142-143`, against `:94-95`), while a late edit
  (`members.service.ts:279`) writes the override, and other upgrades clear it and may
  lead back to the same plan if one of the plans has no tier.
- A draft that is submitted and paid while it is being deleted is deleted with its
  payment (`members.service.ts:559`, against `:541-543`).
- The loser of verify and webhook on an activation gets a 409 and not the recorded
  payment: it fails the compare-and-swap, not the unique key that the handler at
  `payments.service.ts:275` waits for.
- The webhook's catch swallows a lost compare-and-swap, after which a redelivery
  would have been recorded (`payment-gateway.service.ts:261`, against `:242-245`).
- The history of a death may name a status the member no longer had
  (`applications.service.ts:66`, against `:62-64`).

Points:

- Staff who approve a reported donation before its handler has written the pending
  row leave that row PENDING and its points uncredited (`donations.service.ts:41`).
- Two awards for one referrer may together exceed the lifetime cap
  (`referrals.service.ts:120`); two changes of a referrer may close a loop
  (`members.service.ts:631`).
- A member who is unregistered after the points were credited, registers again and
  submits evidence again earns again (`events.service.ts:425`): a registration earns
  once, an attendance need not.

Accounts and sessions:

- Two handlers may enter one mobile number for two members (`members.service.ts:392`;
  it is unique only among members with a password, by the index of migration
  `20260817014713`), replace a first referral code that was already shown
  (`referrals.service.ts:352`), leave two reset codes working
  (`member-password-reset.service.ts:60`), or count fewer wrong guesses than were made
  (`:97`).
- The staff client's `refreshSession` reads `data.user` and `data.accessToken`
  (`apps/web/src/lib/api-client.ts:40-46`), while `TransformInterceptor`
  (`API/common/interceptors/transform.interceptor.ts:18-37`, global in `main.ts`) wraps
  every answer in `{ success, data, timestamp }`: the refresh of a staff session succeeds
  and leaves a session without a user or token. The members' client unwraps it.
- A refresh that is answered after the logout signs the tab in again; the answer of
  the refresh at page load wipes a login that overlapped it; if the network loses
  that refresh, the page stays "loading"; a tab of one user is refreshed as another
  one who signed in elsewhere in the browser.
- A deactivated staff user keeps access until the access token expires
  (`jwt.strategy.ts:26`), which a login or refresh under way may still issue after the
  deactivation (`auth.controller.ts:38-39`, `:68-69`); a suspended member does not.

Comments that are out of date and concern no property: `schema.prisma:1012-1013`
says every request passes PENDING and review, `createRequest` inserts it
APPROVED; `schema.prisma:480-481` says that editing payout details reverts the
KYC status to PENDING, `kyc.service.ts:78` sets VERIFIED.

## 10. Not modelled

`components` in `PROJECT.json` lists every part with the reason. More than half of
the lines of the implementation are React pages, layout, seeds and input schemas,
which hold no state that outlives a page or a request. Of the server:

- Documents: a file is saved under a name of its own before its row, and removed
  after it; whatever fails, the worst is a file without a row.
- Plans, plan rules, organization settings, masters, notices, integrations: rows
  edited by staff, last writer wins. The models read what they influence as a
  constant, or as any value of a set where a change in between matters (the
  donation percentage, the rules of points, the plan of a member).
- Reports, the leaderboard, the member card, health: reads. Notifications, OCR and the
  audit log: calls and appends that nothing decides on.
- Encryption, signatures, password hashing, roles and jurisdictions: decided within
  one request from what it carries.
- Arithmetic in one expression without state, such as the rounding of a withdrawal's
  amounts (`withdrawals.service.ts:66`) and the month arithmetic of validity
  (`member-activation.util.ts:47`, which counts from `joiningDate` also for a member
  who pays late): the models take its results as constants or integers.

Within the modelled components: `updateMe`, editing of users, creation of events and
their attendance and banners are single statements on columns that no other modelled
operation reads; `MembersService.resetPassword` (`members.service.ts:309`) gives a
member a password without a code, and what is said of codes is said without it.
