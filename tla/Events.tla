-------------------------------- MODULE Events --------------------------------
(***************************************************************************)
(* Events of NMMS: members are registered, by themselves or by staff, and     *)
(* submit evidence of what they did, which is accepted at once and earns      *)
(* points (EventsService, ReferralsService.creditEventPoints).                *)
(*                                                                         *)
(* Workers and job[w] are as in Membership.  A registration's evidence is     *)
(* accepted and credited in one transaction whose compare-and-swap locks the *)
(* registration; nothing else reads or writes its ledger row, so that         *)
(* transaction is one step.  The transaction of a new registration locks the *)
(* event and is three.                                                      *)
(*                                                                         *)
(* Abstractions: staff may edit the rules and plans behind getMemberTier and  *)
(* computeEventPoints at any time, so that any of EventPoints may be read;    *)
(* attendance, notes and the files of the evidence are left out.             *)
(***************************************************************************)
EXTENDS PointsLedger \* Sources are the ids of EventRegistration rows

CONSTANTS
    Events,
    Workers,
    Capacities,                \* values of Event.capacity
    EventPoints, LegacyPoints, \* points of new evidence, and of rows from before
    None,
    MaxAborts                  \* bound of the model

ASSUME NoneAssumption == None \notin Members \cup Sources \cup Events \cup Workers \cup Int
ASSUME SourcesAssumption == IsFiniteSet(Sources)
ASSUME BoundsAssumption ==
    EventPoints \cup LegacyPoints \cup Capacities \cup {MaxAborts} \subseteq Nat

VARIABLES
    status,   \* [Members -> Member.status]
    event,    \* [Events -> Event row]
    reg,      \* [Sources -> EventRegistration row]
    job,      \* [Workers -> what the handler is doing]
    aborts    \* handlers that failed or crashed so far

points_vars == <<balance, ledger>>
vars == <<points_vars, status, event, reg, job, aborts>>

-----------------------------------------------------------------------------
MemberStatus == {"AWAITING_PAYMENT", "ACTIVE", "EXPIRED", "SUSPENDED"}
EventStatus == {"PLANNED", "COMPLETED", "CANCELLED"}

NoReg == [completion |-> "NONE", e |-> None, m |-> None]
NoJob == [op |-> "idle", at |-> "end", m |-> None, e |-> None, r |-> None,
          seen |-> None, points |-> 0]

Live(r) == reg[r].completion \notin {"NONE", "DELETED"}
RegistrationsOf(e) == {r \in Sources : Live(r) /\ reg[r].e = e}
EventEligible(m) == status[m] \in {"ACTIVE", "EXPIRED"}

\* A database that has run for a while: registrations from when evidence was
\* reviewed may be pending or rejected, with a ledger row if worth points.
LegacyRow(r) ==
    {[source |-> r, nth |-> 0, m |-> reg[r].m, points |-> n,
      status |-> IF reg[r].completion = "REJECTED" THEN "REJECTED" ELSE "PENDING"] : n \in LegacyPoints \ {0}}
LegacyReg == {NoReg} \cup [completion : {"PENDING_REVIEW", "REJECTED"}, e : Events, m : Members]

\* @@unique([eventId, memberId])
UniqueRegistrations ==
    \A q, r \in Sources :
        Live(q) /\ Live(r) /\ reg[q].e = reg[r].e /\ reg[q].m = reg[r].m => q = r

Init ==
    /\ status \in [Members -> {"AWAITING_PAYMENT", "ACTIVE"}]
    /\ event \in [Events -> [status : {"PLANNED"}, capacity : Capacities]]
    /\ reg \in [Sources -> LegacyReg] /\ UniqueRegistrations
    /\ ledger \in SUBSET UNION {LegacyRow(r) : r \in {q \in Sources : Live(q)}}
    /\ \A q, r \in ledger : q.source = r.source => q = r
    /\ balance = [m \in Members |-> 0]
    /\ job = [w \in Workers |-> NoJob]
    /\ aborts = 0

-----------------------------------------------------------------------------
(* Workers and the lock on the event's row.                                *)

Idle(w) == job[w].op = "idle"
At(w, op, at) == job[w].op = op /\ job[w].at = at
Begin(w, j) == Idle(w) /\ job' = [job EXCEPT ![w] = j]
Goto(w, at) == job' = [job EXCEPT ![w].at = at]
Finish(w) == job' = [job EXCEPT ![w] = NoJob]

EventLocked_Never(e) == FALSE
EventLocked(e) ==
    \E w \in Workers : job[w].op = "register" /\ job[w].at \in {"count", "insert"} /\ job[w].e = e

\* The handler dies before its next step; its transaction is rolled back.
Abort(w) ==
    /\ ~Idle(w) /\ aborts < MaxAborts
    /\ aborts' = aborts + 1
    /\ Finish(w)
    /\ UNCHANGED <<points_vars, status, event, reg>>

-----------------------------------------------------------------------------
(* Members and events change around the handlers.                          *)

SetStatus(m, from, to) ==
    /\ status[m] = from
    /\ status' = [status EXCEPT ![m] = to]
    /\ UNCHANGED <<points_vars, event, reg, job, aborts>>

Suspend(m) == SetStatus(m, "ACTIVE", "SUSPENDED")
Reactivate(m) == SetStatus(m, "SUSPENDED", "ACTIVE")
Activate(m) == SetStatus(m, "AWAITING_PAYMENT", "ACTIVE")
Expire(m) == SetStatus(m, "ACTIVE", "EXPIRED")

\* EventsService.update: waits for a registration that holds the row.
UpdateEvent(e, s, c) ==
    /\ ~EventLocked(e) /\ event[e] # [status |-> s, capacity |-> c]
    /\ event' = [event EXCEPT ![e] = [status |-> s, capacity |-> c]]
    /\ UNCHANGED <<points_vars, status, reg, job, aborts>>

-----------------------------------------------------------------------------
(* EventsService: registering, by the member or by staff.                  *)

RegisterSelf(w, e, m) ==
    /\ EventEligible(m) /\ event[e].status = "PLANNED"
    /\ Begin(w, [NoJob EXCEPT !.op = "register", !.at = "lock", !.e = e, !.m = m])
    /\ UNCHANGED <<points_vars, status, event, reg, aborts>>

\* registerMember looks at neither status.
RegisterMember(w, e, m) ==
    /\ Begin(w, [NoJob EXCEPT !.op = "register", !.at = "lock", !.e = e, !.m = m])
    /\ UNCHANGED <<points_vars, status, event, reg, aborts>>

\* SELECT ... FOR UPDATE; the capacity is in points.
RegisterLock(w) ==
    /\ At(w, "register", "lock") /\ ~EventLocked(job[w].e)
    /\ job' = [job EXCEPT ![w].at = "count", ![w].points = event[job[w].e].capacity]
    /\ UNCHANGED <<points_vars, status, event, reg, aborts>>

RegisterCount(w) ==
    /\ At(w, "register", "count")
    /\ IF Cardinality(RegistrationsOf(job[w].e)) >= job[w].points THEN Finish(w) ELSE Goto(w, "insert")
    /\ UNCHANGED <<points_vars, status, event, reg, aborts>>

RegisterInsert(w, r) ==
    /\ At(w, "register", "insert") /\ reg[r].completion = "NONE"
    /\ IF \E q \in RegistrationsOf(job[w].e) : reg[q].m = job[w].m
       THEN UNCHANGED reg \* P2002
       ELSE reg' = [reg EXCEPT ![r] = [completion |-> "NOT_SUBMITTED", e |-> job[w].e, m |-> job[w].m]]
    /\ Finish(w)
    /\ UNCHANGED <<points_vars, status, event, aborts>>

\* Deleted by id; its ledger row stays, without its registration.
UnregisterFind(w, r) ==
    /\ Live(r)
    /\ Begin(w, [NoJob EXCEPT !.op = "unregister", !.at = "delete", !.r = r])
    /\ UNCHANGED <<points_vars, status, event, reg, aborts>>

UnregisterDelete(w) ==
    /\ At(w, "unregister", "delete")
    /\ reg' = [reg EXCEPT ![job[w].r] = [NoReg EXCEPT !.completion = "DELETED"]]
    /\ Finish(w)
    /\ UNCHANGED <<points_vars, status, event, aborts>>

-----------------------------------------------------------------------------
(* EventsService.submitEvidence and ReferralsService.creditEventPoints.     *)

EvidenceRead(w, r) ==
    /\ Live(r) /\ EventEligible(reg[r].m) /\ event[reg[r].e].status # "CANCELLED"
    /\ reg[r].completion # "APPROVED"
    /\ Begin(w, [NoJob EXCEPT !.op = "evidence", !.at = "points", !.r = r, !.m = reg[r].m,
                              !.seen = reg[r].completion])
    /\ UNCHANGED <<points_vars, status, event, reg, aborts>>

\* The file is stored, then getMemberTier and computeEventPoints.
EvidenceReadPoints(w, n) ==
    /\ At(w, "evidence", "points")
    /\ job' = [job EXCEPT ![w].at = "cas", ![w].points = n]
    /\ UNCHANGED <<points_vars, status, event, reg, aborts>>

EvidenceMatches(w) == reg[job[w].r].completion = job[w].seen

\* A row left from a review is credited, with the points it has if it is
\* pending; otherwise a new one is, if there is anything to credit.
creditEventPoints_NoLegacy(r, m, n) == IF n > 0 THEN CreditPoints(r, m, n) ELSE UNCHANGED points_vars
creditEventPoints_Fresh(r, m, n) ==
    IF \E q \in RowsOf(r) : q.status = "APPROVED" THEN UNCHANGED points_vars
    ELSE IF RowsOf(r) # {}
    THEN /\ balance' = [balance EXCEPT ![m] = @ + n]
         /\ \E q \in RowsOf(r) : SetRow(q, q.points, "APPROVED")
    ELSE IF n > 0 THEN CreditPoints(r, m, n)
    ELSE UNCHANGED points_vars
creditEventPoints(r, m, n) ==
    IF \E q \in RowsOf(r) : q.status = "APPROVED" THEN UNCHANGED points_vars
    ELSE IF RowsOf(r) # {}
    THEN \E q \in RowsOf(r) : ApproveRow(q, IF q.status = "PENDING" THEN q.points ELSE n)
    ELSE IF n > 0 THEN CreditPoints(r, m, n)
    ELSE UNCHANGED points_vars

EvidenceCommit(w) ==
    /\ At(w, "evidence", "cas")
    /\ IF EvidenceMatches(w)
       THEN /\ reg' = [reg EXCEPT ![job[w].r].completion = "APPROVED"]
            /\ creditEventPoints(job[w].r, job[w].m, job[w].points)
       ELSE UNCHANGED <<points_vars, reg>>
    /\ Finish(w)
    /\ UNCHANGED <<status, event, aborts>>

-----------------------------------------------------------------------------
Start(w) ==
    \/ \E e \in Events, m \in Members : RegisterSelf(w, e, m) \/ RegisterMember(w, e, m)
    \/ \E r \in Sources : UnregisterFind(w, r) \/ EvidenceRead(w, r)

Proceed(w) ==
    \/ RegisterLock(w) \/ RegisterCount(w) \/ UnregisterDelete(w) \/ EvidenceCommit(w)
    \/ \E r \in Sources : RegisterInsert(w, r)
    \/ \E n \in EventPoints : EvidenceReadPoints(w, n)

Environment ==
    \/ \E m \in Members : Activate(m) \/ Suspend(m) \/ Reactivate(m) \/ Expire(m)
    \/ \E e \in Events, s \in EventStatus, c \in Capacities : UpdateEvent(e, s, c)

Next ==
    \/ \E w \in Workers : Start(w) \/ Proceed(w) \/ Abort(w)
    \/ Environment

Spec == Init /\ [][Next]_vars

-----------------------------------------------------------------------------
RegRow == [completion : {"NONE", "DELETED"}, e : {None}, m : {None}] \cup
    [completion : {"NOT_SUBMITTED", "PENDING_REVIEW", "REJECTED", "APPROVED"}, e : Events, m : Members]
Job == [op : {"idle", "register", "unregister", "evidence"},
        at : {"end", "lock", "count", "insert", "delete", "points", "cas"},
        m : Members \cup {None}, e : Events \cup {None}, r : Sources \cup {None},
        seen : {None, "NOT_SUBMITTED", "PENDING_REVIEW", "REJECTED"}, points : Nat]

\* Every variable has its type.
TypeOK ==
    /\ balance \in [Members -> Nat] /\ ledger \subseteq LedgerRow
    /\ status \in [Members -> MemberStatus]
    /\ event \in [Events -> [status : EventStatus, capacity : Nat]]
    /\ reg \in [Sources -> RegRow]
    /\ job \in [Workers -> Job]
    /\ aborts \in Nat

-----------------------------------------------------------------------------
(* Safety.  BalanceIsSum and EarningSpec are those of PointsLedger.         *)

\* Evidence and points go together: a registration's row is credited exactly
\* when its evidence is accepted, whatever an earlier review left behind, and
\* goes to the member who is registered.
EvidenceDecidesPoints ==
    \A q \in ledger : Live(q.source) =>
        /\ q.status = "APPROVED" <=> reg[q.source].completion = "APPROVED"
        /\ q.m = reg[q.source].m

\* Two registrations at once do not overflow the event (createRegistration:
\* "the capacity is never exceeded"): one that is added finds room, by the
\* capacity of that moment.  (Staff may lower it below the count afterwards.)
WithinCapacity ==
    [][\A e \in Events : RegistrationsOf(e)' \ RegistrationsOf(e) # {} =>
          Cardinality(RegistrationsOf(e)') <= event[e].capacity]_vars

-----------------------------------------------------------------------------
(* What makes the safety properties inductive.                             *)

\* What a handler knows at each of its steps.
Shaped(j) ==
    \/ j = NoJob
    \/ j.op = "register" /\ j.at \in {"lock", "count", "insert"} /\ j.m \in Members /\ j.e \in Events
    \/ j.op = "unregister" /\ j.at = "delete" /\ j.r \in Sources
    \/ /\ j.op = "evidence" /\ j.at \in {"points", "cas"} /\ j.m \in Members /\ j.r \in Sources
       /\ j.seen \in {"NOT_SUBMITTED", "PENDING_REVIEW", "REJECTED"}

\* Rows, and evidence under way, belong to registrations that were made, and
\* these never change hands: an id is not used again.
Registered(r, m) == reg[r].completion # "NONE" /\ (Live(r) => reg[r].m = m)
RowsRegistered == \A q \in ledger : Registered(q.source, q.m)
EvidenceRegistered == \A w \in Workers : job[w].op = "evidence" => Registered(job[w].r, job[w].m)

\* A registration that has read the capacity has the event for itself, and so
\* has the room it found until it is written.
RoomKept ==
    \A w \in Workers : job[w].op = "register" /\ job[w].at \in {"count", "insert"} =>
        /\ \A v \in Workers : job[v].op = "register" /\ job[v].at \in {"count", "insert"} /\ job[v].e = job[w].e => v = w
        /\ event[job[w].e].capacity = job[w].points
        /\ job[w].at = "insert" => Cardinality(RegistrationsOf(job[w].e)) < job[w].points

EventInv ==
    /\ TypeOK /\ \A w \in Workers : Shaped(job[w])
    /\ OneRow /\ EvidenceDecidesPoints /\ RowsRegistered /\ EvidenceRegistered /\ RoomKept
=============================================================================
