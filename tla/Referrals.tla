------------------------------- MODULE Referrals -------------------------------
(***************************************************************************)
(* The referral programme of NMMS: who referred whom, and the points that a   *)
(* referrer earns when a referred member is activated (ReferralsService, and *)
(* what MembersService and MemberAuthService do to Member.referralMemberId).  *)
(*                                                                         *)
(* Workers and job[w] are as in Membership: every read and every transaction *)
(* of a handler is a step.  Several of these handlers read what they write    *)
(* without a lock, so that some properties hold only while no two handlers of *)
(* a kind overlap; the history variable overlapped remembers whose did.      *)
(*                                                                         *)
(* Abstractions: the rule matrix, the plans and the switches behind an        *)
(* award are any of AwardPoints, read when they are needed; an active member  *)
(* may be suspended and reactivated at any time, so that one who is read as    *)
(* a referrer may be either; the rest of a member's record is left out.        *)
(***************************************************************************)
EXTENDS PointsLedger \* Sources are the members who were referred

CONSTANTS
    Workers,
    AwardPoints, \* what computeReferralPoints may return; 0: switched off
    Cap,         \* OrgSettings.referralPointsCapPerMember
    None,
    MaxAborts    \* bound of the model

ASSUME SourcesAssumption == Sources = Members
ASSUME NoneAssumption == None \notin Members \cup Workers \cup Int
ASSUME BoundsAssumption == AwardPoints \cup {Cap, MaxAborts} \subseteq Nat

VARIABLES
    status,    \* [Members -> Member.status], NONE before and REMOVED after the row is there
    referrer,  \* [Members -> Member.referralMemberId]
    job,       \* [Workers -> what the handler is doing]
    overlapped, \* kinds of handler of which two have overlapped
    aborts     \* handlers that failed or crashed so far

points_vars == <<balance, ledger>>
vars == <<points_vars, status, referrer, job, overlapped, aborts>>

-----------------------------------------------------------------------------
MemberStatus == {"NONE", "DRAFT", "AWAITING_PAYMENT", "ACTIVE", "REMOVED"}
Exists(m) == status[m] \notin {"NONE", "REMOVED"}

\* Not found, or suspended now.
Refused(m) == ~Exists(m) \/ status[m] = "ACTIVE"

NoJob == [op |-> "idle", at |-> "start", m |-> None, ref |-> None, next |-> None,
          visited |-> {}, points |-> 0]

Init ==
    /\ balance = [m \in Members |-> 0] /\ ledger = {}
    /\ status \in [Members -> {"NONE", "DRAFT", "ACTIVE"}]
    /\ referrer = [m \in Members |-> None]
    /\ job = [w \in Workers |-> NoJob]
    /\ overlapped = {} /\ aborts = 0

-----------------------------------------------------------------------------
(* Workers.                                                                *)

Idle(w) == job[w].op = "idle"
At(w, op, at) == job[w].op = op /\ job[w].at = at
Goto(w, at) == job' = [job EXCEPT ![w].at = at]
Finish(w) == job' = [job EXCEPT ![w] = NoJob]
Begin(w, j) ==
    /\ Idle(w)
    /\ job' = [job EXCEPT ![w] = j]
    /\ overlapped' = overlapped \cup ({j.op} \cap {"update", "award"} \cap {job[v].op : v \in Workers})

\* The handler dies before its next step; its transaction is rolled back.
Abort(w) ==
    /\ ~Idle(w) /\ aborts < MaxAborts
    /\ aborts' = aborts + 1
    /\ Finish(w)
    /\ UNCHANGED <<points_vars, status, referrer, overlapped>>

-----------------------------------------------------------------------------
(* Members come, go and change around the handlers.                        *)

SetStatus(m, from, to) ==
    /\ status[m] = from
    /\ status' = [status EXCEPT ![m] = to]
    /\ UNCHANGED <<points_vars, referrer, job, overlapped, aborts>>

Submit(m) == SetStatus(m, "DRAFT", "AWAITING_PAYMENT")

-----------------------------------------------------------------------------
(* MemberAuthService.register with a referral code or membership number.    *)

\* Bound of the model: an id for everybody who is about to register.
MemberLeft ==
    Cardinality({w \in Workers : job[w].op = "register"}) < Cardinality({m \in Members : status[m] = "NONE"})

RegisterRead(w, ref) ==
    /\ Exists(ref) /\ MemberLeft
    /\ Begin(w, [NoJob EXCEPT !.op = "register", !.at = "create", !.ref = ref])
    /\ UNCHANGED <<points_vars, status, referrer, aborts>>

\* The foreign key refuses a referrer who has been removed by now.
RegisterCreate(w, m) ==
    /\ At(w, "register", "create") /\ status[m] = "NONE"
    /\ IF Exists(job[w].ref)
       THEN /\ status' = [status EXCEPT ![m] = "DRAFT"]
            /\ referrer' = [referrer EXCEPT ![m] = job[w].ref]
       ELSE UNCHANGED <<status, referrer>>
    /\ Finish(w)
    /\ UNCHANGED <<points_vars, overlapped, aborts>>

-----------------------------------------------------------------------------
(* MembersService.update changes the referrer, after assertReferrerValid has *)
(* walked up from the new one.                                             *)

UpdateRead(w, m, ref) ==
    /\ Exists(m) /\ ref # m
    /\ Begin(w, [NoJob EXCEPT !.op = "update", !.m = m, !.ref = ref,
                              !.at = IF ref = None THEN "write" ELSE "candidate"])
    /\ UNCHANGED <<points_vars, status, referrer, aborts>>

UpdateReadCandidate(w) ==
    /\ At(w, "update", "candidate")
    /\ \/ /\ Exists(job[w].ref)
          /\ job' = [job EXCEPT ![w].at = "walk", ![w].next = referrer[job[w].ref],
                               ![w].visited = {job[w].ref}]
       \/ Refused(job[w].ref) /\ Finish(w)
    /\ UNCHANGED <<points_vars, status, referrer, overlapped, aborts>>

\* Referral chain must not form a loop: not through the member who is edited,
\* nor among those that have been visited.
ClosesLoop_Never(w) == FALSE
ClosesLoop(w) == job[w].next = job[w].m \/ job[w].next \in job[w].visited

UpdateWalk(w) ==
    /\ At(w, "update", "walk")
    /\ IF job[w].next = None THEN Goto(w, "write")
       ELSE IF ClosesLoop(w) THEN Finish(w)
       ELSE job' = [job EXCEPT ![w].visited = @ \cup {job[w].next}, ![w].next = referrer[job[w].next]]
    /\ UNCHANGED <<points_vars, status, referrer, overlapped, aborts>>

\* By id, and fails if either of the two is gone.
UpdateWrite(w) ==
    /\ At(w, "update", "write")
    /\ IF Exists(job[w].m) /\ (job[w].ref # None => Exists(job[w].ref))
       THEN referrer' = [referrer EXCEPT ![job[w].m] = job[w].ref]
       ELSE UNCHANGED referrer
    /\ Finish(w)
    /\ UNCHANGED <<points_vars, status, overlapped, aborts>>

-----------------------------------------------------------------------------
(* MembersService.remove.                                                  *)

RemoveRead(w, m) ==
    /\ status[m] = "DRAFT"
    /\ Begin(w, [NoJob EXCEPT !.op = "remove", !.at = "delete", !.m = m])
    /\ UNCHANGED <<points_vars, status, referrer, aborts>>

\* By id, whatever the status is by now.  Those it referred lose their referrer,
\* and its own ledger goes with it; rows that it earned others stay.
RowsLeft_All(m) == ledger
RowsLeft(m) == {r \in ledger : r.m # m}
RemoveWrite(w) ==
    /\ At(w, "remove", "delete")
    /\ LET m == job[w].m IN
       IF Exists(m)
       THEN /\ status' = [status EXCEPT ![m] = "REMOVED"]
            /\ referrer' = [n \in Members |-> IF n = m \/ referrer[n] = m THEN None ELSE referrer[n]]
            /\ ledger' = RowsLeft(m)
            /\ balance' = [balance EXCEPT ![m] = 0]
       ELSE UNCHANGED <<points_vars, status, referrer>>
    /\ Finish(w)
    /\ UNCHANGED <<overlapped, aborts>>

-----------------------------------------------------------------------------
(* awardPointsForApproval, after the transaction of finalizePayment that     *)
(* activates m, and applyReferralCap.                                       *)

Activate_Again(w, m) ==
    /\ status[m] \in {"AWAITING_PAYMENT", "ACTIVE"}
    /\ status' = [status EXCEPT ![m] = "ACTIVE"]
    /\ Begin(w, [NoJob EXCEPT !.op = "award", !.at = "member", !.m = m])
    /\ UNCHANGED <<points_vars, referrer, aborts>>
Activate(w, m) ==
    /\ status[m] = "AWAITING_PAYMENT"
    /\ status' = [status EXCEPT ![m] = "ACTIVE"]
    /\ Begin(w, [NoJob EXCEPT !.op = "award", !.at = "member", !.m = m])
    /\ UNCHANGED <<points_vars, referrer, aborts>>

AwardReadMember(w) ==
    /\ At(w, "award", "member")
    /\ IF referrer[job[w].m] # None
       THEN job' = [job EXCEPT ![w].at = "referrer", ![w].ref = referrer[job[w].m]]
       ELSE Finish(w)
    /\ UNCHANGED <<points_vars, status, referrer, overlapped, aborts>>

AwardReadReferrer(w) ==
    /\ At(w, "award", "referrer")
    /\ \/ Exists(job[w].ref) /\ Goto(w, "cap")
       \/ Refused(job[w].ref) /\ Finish(w)
    /\ UNCHANGED <<points_vars, status, referrer, overlapped, aborts>>

ReferralTotal(m) == SumOfPoints({r \in ledger : r.m = m})

applyReferralCap_Unclamped(n, earned) == IF earned < Cap THEN n ELSE 0
applyReferralCap(n, earned) == IF n <= Cap - earned THEN n ELSE Cap - earned

AwardReadCap(w, n) ==
    /\ At(w, "award", "cap")
    /\ LET points == applyReferralCap(n, ReferralTotal(job[w].ref)) IN
       IF points \in 1..n
       THEN job' = [job EXCEPT ![w].at = "credit", ![w].points = points]
       ELSE Finish(w)
    /\ UNCHANGED <<points_vars, status, referrer, overlapped, aborts>>

\* Fails if the referrer, or the member, is gone.
AwardCredit(w) ==
    /\ At(w, "award", "credit")
    /\ IF Exists(job[w].ref) /\ Exists(job[w].m)
       THEN CreditPoints(job[w].m, job[w].ref, job[w].points)
       ELSE UNCHANGED points_vars
    /\ Finish(w)
    /\ UNCHANGED <<status, referrer, overlapped, aborts>>

-----------------------------------------------------------------------------
Start(w) ==
    \/ \E m \in Members : RegisterRead(w, m) \/ RemoveRead(w, m) \/ Activate(w, m)
    \/ \E m \in Members, ref \in Members \cup {None} : UpdateRead(w, m, ref)

Proceed(w) ==
    \/ \E m \in Members : RegisterCreate(w, m)
    \/ UpdateReadCandidate(w) \/ UpdateWalk(w) \/ UpdateWrite(w) \/ RemoveWrite(w)
    \/ AwardReadMember(w) \/ AwardReadReferrer(w) \/ AwardCredit(w)
    \/ \E n \in AwardPoints : AwardReadCap(w, n)

Next ==
    \/ \E w \in Workers : Start(w) \/ Proceed(w) \/ Abort(w)
    \/ \E m \in Members : Submit(m)

Spec == Init /\ [][Next]_vars

-----------------------------------------------------------------------------
Job == [op : {"idle", "register", "update", "remove", "award"},
        at : {"start", "create", "candidate", "walk", "write", "delete", "member", "referrer", "cap", "credit"},
        m : Members \cup {None}, ref : Members \cup {None}, next : Members \cup {None},
        visited : SUBSET Members, points : Nat]

\* Every variable has its type.
TypeOK ==
    /\ balance \in [Members -> Nat] /\ ledger \subseteq LedgerRow
    /\ status \in [Members -> MemberStatus]
    /\ referrer \in [Members -> Members \cup {None}]
    /\ job \in [Workers -> Job]
    /\ overlapped \subseteq {"update", "award"}
    /\ aborts \in Nat

-----------------------------------------------------------------------------
(* Safety.  BalanceIsSum is that of PointsLedger.                          *)

\* Unless two changes of a referrer overlapped, nobody is, over any number of
\* steps, their own referrer (assertReferrerValid); and a referrer is somebody
\* who exists, whoever is removed meanwhile.
ReferralsAcyclic ==
    /\ \A m \in Members : referrer[m] # None => Exists(m) /\ Exists(referrer[m])
    /\ "update" \notin overlapped =>
        \A S \in (SUBSET Members) \ {{}} : \E m \in S : referrer[m] \notin S

\* Unless two awards overlapped, no member has more points from referrals than
\* the cap (applyReferralCap: the "lifetime REFERRAL_APPROVED total never
\* exceeds `cap`").
CapRespected == "award" \notin overlapped => \A m \in Members : ReferralTotal(m) <= Cap

\* A referrer earns for a member they referred, who was activated (and may have
\* been removed since, by a handler that found a draft), and not for themselves;
\* at most once, however the referrer changes afterwards.
EarnedByActivation ==
    \A r \in ledger :
        /\ r.status = "APPROVED" /\ r.points > 0 /\ r.m # r.source
        /\ status[r.source] \in {"ACTIVE", "REMOVED"}
        /\ \A q \in ledger : q.source = r.source => q = r

\* The walk up a chain ends, within as many steps as there are members, even if
\* two changes that overlapped have made a loop of it or it changes under way:
\* each of its steps is the last or comes to somebody new.
WalkAdvances ==
    [][\A w \in Workers :
         At(w, "update", "walk") /\ At(w, "update", "walk")' /\ job'[w] # job[w] =>
            job'[w].visited \ job[w].visited # {}]_vars
=============================================================================
