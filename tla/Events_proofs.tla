---------------------------- MODULE Events_proofs ----------------------------
(***************************************************************************)
(* Proofs about Events, for any members, registrations, events and handlers:  *)
(* the inductive invariant EventInv, that evidence and points go together,    *)
(* that no event overflows, and that the handlers implement PointEarning.    *)
(***************************************************************************)
EXTENDS Events, SumTheorems

USE NoneAssumption, SourcesAssumption, BoundsAssumption

-----------------------------------------------------------------------------
(* Jobs and their steps.                                                   *)

LEMMA NoJobType == NoJob \in Job /\ Shaped(NoJob) /\ NoJob.op = "idle"
  BY DEF NoJob, Job, Shaped

\* A job that goes on to its next step, with n in points.
Step(j, k, at, n) ==
    /\ k.op = j.op /\ k.m = j.m /\ k.e = j.e /\ k.r = j.r /\ k.seen = j.seen
    /\ k.at = at /\ k.points = n

LEMMA JobEdits ==
    ASSUME NEW j \in Job, NEW at \in {"count", "insert", "cas"}, NEW n
    PROVE  /\ [j EXCEPT !.at = at] \in Job /\ Step(j, [j EXCEPT !.at = at], at, j.points)
           /\ n \in Nat => [j EXCEPT !.at = at, !.points = n] \in Job
           /\ Step(j, [j EXCEPT !.at = at, !.points = n], at, n)
<1>1. [j EXCEPT !.at = at] \in Job
  BY DEF Job
<1>2. Step(j, [j EXCEPT !.at = at], at, j.points)
  BY DEF Job, Step
<1>3. n \in Nat => [j EXCEPT !.at = at, !.points = n] \in Job
  BY DEF Job
<1>4. Step(j, [j EXCEPT !.at = at, !.points = n], at, n)
  BY DEF Job, Step
<1> QED BY <1>1, <1>2, <1>3, <1>4

Others(w) == \A v \in Workers \ {w} : job'[v] = job[v]
Ended(w) == job'[w] = NoJob /\ Others(w)
Moved(w, at, n) == Step(job[w], job'[w], at, n) /\ Others(w)

LEMMA Moves ==
    ASSUME TypeOK, NEW w \in Workers
    PROVE  /\ \A j : Begin(w, j) => job[w] = job[w] /\ job'[w] = j /\ Others(w)
           /\ Finish(w) => Ended(w)
           /\ RegisterLock(w) => Moved(w, "count", event[job[w].e].capacity)
           /\ RegisterCount(w) => Moved(w, "insert", job[w].points) \/ Ended(w)
           /\ \A n \in EventPoints : EvidenceReadPoints(w, n) => Moved(w, "cas", n)
<1>0. job \in [Workers -> Job] /\ job[w] \in Job
  BY DEF TypeOK
<1>1. ASSUME NEW j, job' = [job EXCEPT ![w] = j] PROVE job'[w] = j /\ Others(w)
  BY <1>0, <1>1 DEF Others
<1>2. Finish(w) => Ended(w)
  BY <1>1 DEF Finish, Ended
<1>3. \A j : Begin(w, j) => job'[w] = j /\ Others(w)
  BY <1>1 DEF Begin
<1>4. ASSUME RegisterLock(w) PROVE Moved(w, "count", event[job[w].e].capacity)
  <2> DEFINE n == event[job[w].e].capacity
             j == [job[w] EXCEPT !.at = "count", !.points = n]
  <2>1. job' = [job EXCEPT ![w] = j]
    BY <1>0, <1>4 DEF RegisterLock
  <2>2. Step(job[w], j, "count", n)
    BY <1>0, JobEdits
  <2> QED BY <1>1, <2>1, <2>2 DEF Moved
<1>5. ASSUME RegisterCount(w) PROVE Moved(w, "insert", job[w].points) \/ Ended(w)
  <2>1. CASE Finish(w)
    BY <1>2, <2>1
  <2>2. CASE Goto(w, "insert")
    <3> DEFINE j == [job[w] EXCEPT !.at = "insert"]
    <3>1. job' = [job EXCEPT ![w] = j]
      BY <1>0, <2>2 DEF Goto
    <3>2. Step(job[w], j, "insert", job[w].points)
      BY <1>0, JobEdits
    <3> QED BY <1>1, <3>1, <3>2 DEF Moved
  <2> QED BY <1>5, <2>1, <2>2 DEF RegisterCount
<1>6. ASSUME NEW n \in EventPoints, EvidenceReadPoints(w, n) PROVE Moved(w, "cas", n)
  <2> DEFINE j == [job[w] EXCEPT !.at = "cas", !.points = n]
  <2>1. job' = [job EXCEPT ![w] = j]
    BY <1>0, <1>6 DEF EvidenceReadPoints
  <2>2. Step(job[w], j, "cas", n)
    BY <1>0, JobEdits
  <2> QED BY <1>1, <2>1, <2>2 DEF Moved
<1> QED BY <1>2, <1>3, <1>4, <1>5, <1>6

\* What a handler holds.
LEMMA Knows ==
    ASSUME EventInv, NEW w \in Workers
    PROVE  /\ job[w] \in Job /\ job \in [Workers -> Job]
           /\ job[w].op = "register" => job[w].m \in Members /\ job[w].e \in Events
           /\ job[w].op = "unregister" => job[w].r \in Sources
           /\ job[w].op = "evidence" =>
                 /\ job[w].m \in Members /\ job[w].r \in Sources
                 /\ job[w].seen \in {"NOT_SUBMITTED", "PENDING_REVIEW", "REJECTED"}
<1>1. job[w] \in Job /\ job \in [Workers -> Job] /\ Shaped(job[w])
  BY DEF EventInv, TypeOK
<1> QED BY <1>1, NoJobType DEF Shaped, Job

-----------------------------------------------------------------------------
(* Registrations.                                                          *)

LiveCompletion == {"NOT_SUBMITTED", "PENDING_REVIEW", "REJECTED", "APPROVED"}

LEMMA LiveRow ==
    ASSUME TypeOK, NEW r \in Sources
    PROVE  /\ Live(r) <=> reg[r].completion \in LiveCompletion
           /\ Live(r) => reg[r] \in [completion : LiveCompletion, e : Events, m : Members]
<1>1. reg[r] \in RegRow
  BY DEF TypeOK
<1> QED BY <1>1 DEF Live, RegRow, LiveCompletion

LEMMA RegSteps ==
    ASSUME EventInv, NEW w \in Workers
    PROVE  /\ \A r \in Sources : RegisterInsert(w, r) =>
                 \/ reg' = reg
                 \/ /\ reg[r].completion = "NONE"
                    /\ reg'[r] = [completion |-> "NOT_SUBMITTED", e |-> job[w].e, m |-> job[w].m]
                    /\ \A q \in Sources \ {r} : reg'[q] = reg[q]
           /\ UnregisterDelete(w) =>
                 /\ reg'[job[w].r] = [completion |-> "DELETED", e |-> None, m |-> None]
                 /\ \A q \in Sources \ {job[w].r} : reg'[q] = reg[q]
           /\ EvidenceCommit(w) =>
                 \/ reg' = reg /\ ~EvidenceMatches(w)
                 \/ /\ EvidenceMatches(w)
                    /\ Live(job[w].r) /\ reg[job[w].r].completion # "APPROVED"
                    /\ reg'[job[w].r] = [completion |-> "APPROVED", e |-> reg[job[w].r].e, m |-> reg[job[w].r].m]
                    /\ \A q \in Sources \ {job[w].r} : reg'[q] = reg[q]
<1>0. reg \in [Sources -> RegRow] /\ TypeOK
  BY DEF EventInv, TypeOK
<1>1. ASSUME NEW r \in Sources, RegisterInsert(w, r)
      PROVE  \/ reg' = reg
             \/ /\ reg[r].completion = "NONE"
                /\ reg'[r] = [completion |-> "NOT_SUBMITTED", e |-> job[w].e, m |-> job[w].m]
                /\ \A q \in Sources \ {r} : reg'[q] = reg[q]
  BY <1>0, <1>1 DEF RegisterInsert
<1>2. ASSUME UnregisterDelete(w)
      PROVE  /\ reg'[job[w].r] = [completion |-> "DELETED", e |-> None, m |-> None]
             /\ \A q \in Sources \ {job[w].r} : reg'[q] = reg[q]
  <2>1. job[w].r \in Sources
    BY <1>2, Knows DEF UnregisterDelete, At
  <2>2. [NoReg EXCEPT !.completion = "DELETED"] = [completion |-> "DELETED", e |-> None, m |-> None]
    BY DEF NoReg
  <2> QED BY <1>0, <1>2, <2>1, <2>2 DEF UnregisterDelete
<1>3. ASSUME EvidenceCommit(w)
      PROVE  \/ reg' = reg /\ ~EvidenceMatches(w)
             \/ /\ EvidenceMatches(w)
                /\ Live(job[w].r) /\ reg[job[w].r].completion # "APPROVED"
                /\ reg'[job[w].r] = [completion |-> "APPROVED", e |-> reg[job[w].r].e, m |-> reg[job[w].r].m]
                /\ \A q \in Sources \ {job[w].r} : reg'[q] = reg[q]
  <2> DEFINE r == job[w].r
  <2>1. r \in Sources /\ job[w].seen \in {"NOT_SUBMITTED", "PENDING_REVIEW", "REJECTED"}
    BY <1>3, Knows DEF EvidenceCommit, At
  <2>2. CASE ~EvidenceMatches(w)
    BY <1>3, <2>2 DEF EvidenceCommit
  <2>3. CASE EvidenceMatches(w)
    <3>1. Live(r) /\ reg[r].completion # "APPROVED"
      BY <2>1, <2>3 DEF EvidenceMatches, Live
    <3>2. reg[r] \in [completion : LiveCompletion, e : Events, m : Members]
      BY <1>0, <2>1, <3>1, LiveRow
    <3>3. reg' = [reg EXCEPT ![r] = [reg[r] EXCEPT !.completion = "APPROVED"]]
      BY <1>0, <1>3, <2>1, <2>3 DEF EvidenceCommit
    <3>4. [reg[r] EXCEPT !.completion = "APPROVED"] = [completion |-> "APPROVED", e |-> reg[r].e, m |-> reg[r].m]
      BY <3>2
    <3> QED BY <1>0, <2>1, <2>3, <3>1, <3>3, <3>4
  <2> QED BY <2>2, <2>3
<1> QED BY <1>1, <1>2, <1>3

\* The other steps touch no registration and no points.
LEMMA Quiet ==
    ASSUME EventInv, Next \/ UNCHANGED vars
    PROVE  \/ UNCHANGED <<points_vars, reg>>
           \/ \E w \in Workers : \/ \E r \in Sources : RegisterInsert(w, r)
                                 \/ UnregisterDelete(w)
                                 \/ EvidenceCommit(w) /\ EvidenceMatches(w)
  BY DEF Next, Start, Proceed, Environment, RegisterSelf, RegisterMember, RegisterLock, RegisterCount, UnregisterFind,
         EvidenceRead, EvidenceReadPoints, EvidenceCommit, Abort, Activate, Suspend, Reactivate, Expire, SetStatus,
         UpdateEvent, vars

LEMMA RegistrationKept ==
    ASSUME EventInv, Next \/ UNCHANGED vars, NEW r \in Sources
    PROVE  /\ reg[r].completion # "NONE" => reg'[r].completion # "NONE"
           /\ Live(r)' => \/ Live(r) /\ reg'[r].m = reg[r].m /\ reg'[r].e = reg[r].e
                          \/ /\ reg[r].completion = "NONE" /\ reg'[r].completion = "NOT_SUBMITTED"
                             /\ \E w \in Workers : RegisterInsert(w, r) /\ reg'[r].e = job[w].e
<1>1. reg' = reg => (Live(r)' <=> Live(r))
  BY DEF Live
<1>2. CASE UNCHANGED <<points_vars, reg>>
  BY <1>1, <1>2
<1>3. ASSUME NEW w \in Workers, NEW q \in Sources, RegisterInsert(w, q)
      PROVE
         \/ reg'[r] = reg[r]
         \/ r = q /\ reg[r].completion = "NONE" /\ reg'[r].completion = "NOT_SUBMITTED" /\ reg'[r].e = job[w].e
  <2>1. r # q => reg'[r] = reg[r]
    <3>1. reg' = reg \/ \A p \in Sources \ {q} : reg'[p] = reg[p]
      BY <1>3, RegSteps
    <3> QED BY <3>1
  <2>2. r = q => \/ reg' = reg
                 \/ /\ reg[r].completion = "NONE"
                    /\ reg'[r] = [completion |-> "NOT_SUBMITTED", e |-> job[w].e, m |-> job[w].m]
    BY <1>3, RegSteps
  <2> QED BY <2>1, <2>2
<1>4. ASSUME NEW w \in Workers, UnregisterDelete(w) PROVE reg'[r] = reg[r] \/ reg'[r].completion = "DELETED"
  <2>1. r = job[w].r => reg'[r] = [completion |-> "DELETED", e |-> None, m |-> None]
    BY <1>4, RegSteps, ZenonT(40)
  <2>2. r # job[w].r => reg'[r] = reg[r]
    BY <1>4, RegSteps, ZenonT(40)
  <2> QED BY <2>1, <2>2
<1>5. ASSUME NEW w \in Workers, EvidenceCommit(w), EvidenceMatches(w)
      PROVE  \/ reg'[r] = reg[r]
             \/ Live(r) /\ reg'[r].completion = "APPROVED" /\ reg'[r].m = reg[r].m /\ reg'[r].e = reg[r].e
  <2>1. r = job[w].r => /\ Live(r)
                        /\ reg'[r] = [completion |-> "APPROVED", e |-> reg[r].e, m |-> reg[r].m]
    BY <1>5, RegSteps, ZenonT(40)
  <2>2. r # job[w].r => reg'[r] = reg[r]
    BY <1>5, RegSteps, ZenonT(40)
  <2> QED BY <2>1, <2>2
<1> QED BY <1>2, <1>3, <1>4, <1>5, Quiet DEF Live

-----------------------------------------------------------------------------
(* Type correctness.                                                       *)

LEMMA NewRowType ==
    ASSUME IsFiniteSet(ledger), NEW s \in Sources, NEW m \in Members, NEW n \in Nat, NEW k \in RowStatus
    PROVE  /\ NewRow(s, m, n, k) \in LedgerRow
           /\ NewRow(s, m, n, k).source = s /\ NewRow(s, m, n, k).m = m
           /\ NewRow(s, m, n, k).points = n /\ NewRow(s, m, n, k).status = k
<1>1. Cardinality(RowsOf(s)) \in Nat
  BY FS_Subset, FS_CardinalityType DEF RowsOf
<1> QED BY <1>1 DEF NewRow, LedgerRow

\* Accepted evidence: the rows of its registration that were not credited give way
\* to one that is, or there is nothing to credit.
LEMMA Credit ==
    ASSUME EventInv, NEW w \in Workers, EvidenceCommit(w), EvidenceMatches(w)
    PROVE  /\ job[w].r \in Sources /\ reg[job[w].r].m = job[w].m
           /\ \/ RowsOf(job[w].r) = {} /\ ledger' = ledger /\ balance' = balance
              \/ \E R \in SUBSET ledger, c \in LedgerRow :
                    /\ \A q \in R : q.source # job[w].r
                    /\ \A q \in ledger \ R : q.status # "APPROVED" /\ q.source = job[w].r
                    /\ ledger' = R \cup {c}
                    /\ c.source = job[w].r /\ c.m = job[w].m /\ c.status = "APPROVED"
                    /\ balance' = [balance EXCEPT ![c.m] = @ + c.points]
<1> DEFINE r == job[w].r
           n == job[w].points
<1>1. r \in Sources /\ job[w].m \in Members /\ n \in Nat /\ job[w].op = "evidence"
  BY Knows DEF EvidenceCommit, At, Job
<1>2. Live(r) /\ reg[r].completion # "APPROVED"
  BY RegSteps
<1>3. reg[r].m = job[w].m
  BY <1>1, <1>2 DEF EventInv, EvidenceRegistered, Registered
<1>4. \A q \in RowsOf(r) : q \in ledger /\ q.source = r /\ q.status # "APPROVED" /\ q.m = job[w].m
  BY <1>2, <1>3 DEF RowsOf, EventInv, EvidenceDecidesPoints
<1>5. creditEventPoints(r, job[w].m, n) /\ ledger \subseteq LedgerRow /\ IsFiniteSet(ledger)
  BY DEF EvidenceCommit, EventInv, OneRow, TypeOK
<1>6. CASE RowsOf(r) = {}
  <2>1. CASE n > 0
    <3> DEFINE c == NewRow(r, job[w].m, n, "APPROVED")
    <3>1. ledger' = ledger \cup {c} /\ balance' = [balance EXCEPT ![job[w].m] = @ + n]
      BY <1>5, <1>6, <2>1 DEF creditEventPoints, CreditPoints
    <3>2. c \in LedgerRow /\ c.source = r /\ c.m = job[w].m /\ c.points = n /\ c.status = "APPROVED"
      BY <1>1, <1>5, NewRowType DEF RowStatus
    <3>3. \A q \in ledger : q.source # r
      BY <1>6 DEF RowsOf
    <3> HIDE DEF c, r, n
    <3>4. \E R \in SUBSET ledger, d \in LedgerRow :
                    /\ \A q \in R : q.source # r
                    /\ \A q \in ledger \ R : q.status # "APPROVED" /\ q.source = r
                    /\ ledger' = R \cup {d}
                    /\ d.source = r /\ d.m = job[w].m /\ d.status = "APPROVED"
                    /\ balance' = [balance EXCEPT ![d.m] = @ + d.points]
      BY <3>1, <3>2, <3>3
    <3> QED BY <1>1, <1>3, <3>4 DEF r
  <2>2. CASE ~(n > 0)
    BY <1>1, <1>3, <1>5, <1>6, <2>2 DEF creditEventPoints, points_vars
  <2> QED BY <2>1, <2>2
<1>7. CASE RowsOf(r) # {}
  <2>1. PICK q \in RowsOf(r) : ApproveRow(q, IF q.status = "PENDING" THEN q.points ELSE n)
    BY <1>4, <1>5, <1>7 DEF creditEventPoints
  <2> DEFINE k == IF q.status = "PENDING" THEN q.points ELSE n
             c == [q EXCEPT !.points = k, !.status = "APPROVED"]
             R == ledger \ {q}
  <2>2. q \in ledger /\ q \in LedgerRow /\ q.source = r /\ q.m = job[w].m /\ q.status # "APPROVED"
    BY <1>4, <1>5
  <2>3. k \in Nat
    BY <1>1, <2>2 DEF LedgerRow
  <2>4. c \in LedgerRow /\ c.source = r /\ c.m = job[w].m /\ c.points = k /\ c.status = "APPROVED"
    <3>1. q \in [source : Sources, nth : Nat, m : Members, points : Nat, status : RowStatus] /\ "APPROVED" \in RowStatus
      BY <2>2 DEF LedgerRow, RowStatus
    <3> HIDE DEF k
    <3> QED BY <2>2, <2>3, <3>1 DEF LedgerRow
  <2>5. {p \in ledger : p.source # q.source \/ p.nth # q.nth} = R
    BY <2>2 DEF EventInv, OneRow
  <2>6. ledger' = R \cup {c} /\ balance' = [balance EXCEPT ![q.m] = @ + k]
    BY <2>1, <2>5 DEF ApproveRow, SetRow
  <2>7. \A p \in R : p.source # r
    BY <2>2 DEF EventInv, OneRow
  <2>8. R \in SUBSET ledger /\ \A p \in ledger \ R : p.status # "APPROVED" /\ p.source = r
    BY <2>2
  <2> HIDE DEF c, R, k, r, n
  <2>9. \E S \in SUBSET ledger, d \in LedgerRow :
                    /\ \A p \in S : p.source # r
                    /\ \A p \in ledger \ S : p.status # "APPROVED" /\ p.source = r
                    /\ ledger' = S \cup {d}
                    /\ d.source = r /\ d.m = job[w].m /\ d.status = "APPROVED"
                    /\ balance' = [balance EXCEPT ![d.m] = @ + d.points]
    BY <2>2, <2>4, <2>6, <2>7, <2>8
  <2> QED BY <1>1, <1>3, <2>9 DEF r
<1> QED BY <1>6, <1>7

LEMMA NextType ==
    ASSUME EventInv, Next \/ UNCHANGED vars
    PROVE  TypeOK' /\ \A w \in Workers : Shaped(job[w])'
<1>0. TypeOK /\ \A w \in Workers : Shaped(job[w]) /\ job[w] \in Job
  BY DEF EventInv, TypeOK
<1>1. balance' \in [Members -> Nat] /\ ledger' \subseteq LedgerRow
  <2>1. balance \in [Members -> Nat] /\ ledger \subseteq LedgerRow
    BY <1>0 DEF TypeOK
  <2>2. CASE UNCHANGED points_vars
    BY <2>1, <2>2 DEF points_vars
  <2>3. ASSUME NEW w \in Workers, EvidenceCommit(w), EvidenceMatches(w)
        PROVE  balance' \in [Members -> Nat] /\ ledger' \subseteq LedgerRow
    <3>1. CASE ledger' = ledger /\ balance' = balance
      BY <2>1, <3>1
    <3>2. ASSUME NEW R \in SUBSET ledger, NEW c \in LedgerRow,
                 ledger' = R \cup {c}, balance' = [balance EXCEPT ![c.m] = @ + c.points]
          PROVE  balance' \in [Members -> Nat] /\ ledger' \subseteq LedgerRow
      <4>1. c.m \in Members /\ c.points \in Nat
        BY DEF LedgerRow
      <4> QED BY <2>1, <3>2, <4>1
    <3> QED BY <2>3, <3>1, <3>2, Credit
  <2> QED BY <2>2, <2>3, Quiet DEF RegisterInsert, UnregisterDelete
<1>2. status' \in [Members -> MemberStatus]
  <2>1. status \in [Members -> MemberStatus]
    BY <1>0 DEF TypeOK
  <2>2. status' = status \/ \E m \in Members, to \in MemberStatus : status' = [status EXCEPT ![m] = to]
    BY DEF Next, Start, Proceed, Environment, RegisterSelf, RegisterMember, RegisterLock, RegisterCount, RegisterInsert,
           UnregisterFind, UnregisterDelete, EvidenceRead, EvidenceReadPoints, EvidenceCommit, Abort,
           Activate, Suspend, Reactivate, Expire, SetStatus, UpdateEvent, vars, MemberStatus
  <2> QED BY <2>1, <2>2
<1>3. event' \in [Events -> [status : EventStatus, capacity : Nat]]
  <2>1. event \in [Events -> [status : EventStatus, capacity : Nat]] /\ Capacities \subseteq Nat
    BY <1>0 DEF TypeOK
  <2>2. event' = event \/ \E e \in Events, s \in EventStatus, c \in Capacities :
                              event' = [event EXCEPT ![e] = [status |-> s, capacity |-> c]]
    BY DEF Next, Start, Proceed, Environment, RegisterSelf, RegisterMember, RegisterLock, RegisterCount, RegisterInsert,
           UnregisterFind, UnregisterDelete, EvidenceRead, EvidenceReadPoints, EvidenceCommit, Abort,
           Activate, Suspend, Reactivate, Expire, SetStatus, UpdateEvent, vars
  <2> QED BY <2>1, <2>2
<1>4. reg' \in [Sources -> RegRow]
  <2>1. reg \in [Sources -> RegRow]
    BY <1>0 DEF TypeOK
  <2>2. ASSUME NEW w \in Workers, NEW r \in Sources, RegisterInsert(w, r) PROVE reg' \in [Sources -> RegRow]
    <3>1. job[w].m \in Members /\ job[w].e \in Events
      BY <2>2, Knows DEF RegisterInsert, At
    <3>2. [completion |-> "NOT_SUBMITTED", e |-> job[w].e, m |-> job[w].m] \in RegRow
      BY <3>1 DEF RegRow
    <3> QED BY <2>1, <2>2, <3>2 DEF RegisterInsert
  <2>3. ASSUME NEW w \in Workers, UnregisterDelete(w) PROVE reg' \in [Sources -> RegRow]
    <3>1. [NoReg EXCEPT !.completion = "DELETED"] \in RegRow
      BY DEF NoReg, RegRow
    <3> QED BY <2>1, <2>3, <3>1 DEF UnregisterDelete
  <2>4. ASSUME NEW w \in Workers, EvidenceCommit(w), EvidenceMatches(w) PROVE reg' \in [Sources -> RegRow]
    <3> DEFINE r == job[w].r
    <3>1. r \in Sources /\ Live(r)
      BY <2>4, RegSteps, Credit
    <3>2. reg[r] \in [completion : LiveCompletion, e : Events, m : Members]
      BY <1>0, <3>1, LiveRow
    <3>3. [reg[r] EXCEPT !.completion = "APPROVED"] \in RegRow
      BY <3>2 DEF RegRow, LiveCompletion
    <3>4. reg' = [reg EXCEPT ![r] = [reg[r] EXCEPT !.completion = "APPROVED"]]
      BY <2>1, <2>4, <3>1 DEF EvidenceCommit
    <3> QED BY <2>1, <3>1, <3>3, <3>4
  <2> QED BY <2>1, <2>2, <2>3, <2>4, Quiet
<1>5. job' \in [Workers -> Job] /\ \A w \in Workers : Shaped(job'[w])
  <2>0. job \in [Workers -> Job]
    BY <1>0 DEF TypeOK
  <2>1. ASSUME NEW w \in Workers, NEW j \in Job, job' = [job EXCEPT ![w] = j], Shaped(j)
        PROVE  job' \in [Workers -> Job] /\ \A v \in Workers : Shaped(job'[v])
    BY <1>0, <2>0, <2>1
  <2>2. ASSUME NEW w \in Workers, Finish(w) PROVE \E j \in Job : job' = [job EXCEPT ![w] = j] /\ Shaped(j)
    BY <2>2, NoJobType DEF Finish
  <2>3. ASSUME NEW w \in Workers, NEW e \in Events, NEW m \in Members, RegisterSelf(w, e, m) \/ RegisterMember(w, e, m)
        PROVE  \E j \in Job : job' = [job EXCEPT ![w] = j] /\ Shaped(j)
    <3> DEFINE j == [NoJob EXCEPT !.op = "register", !.at = "lock", !.e = e, !.m = m]
    <3>1. j \in Job /\ Shaped(j)
      BY DEF NoJob, Job, Shaped
    <3> QED BY <2>3, <3>1 DEF RegisterSelf, RegisterMember, Begin
  <2>4. ASSUME NEW w \in Workers, NEW r \in Sources, UnregisterFind(w, r)
        PROVE  \E j \in Job : job' = [job EXCEPT ![w] = j] /\ Shaped(j)
    <3> DEFINE j == [NoJob EXCEPT !.op = "unregister", !.at = "delete", !.r = r]
    <3>1. j \in Job /\ Shaped(j)
      BY DEF NoJob, Job, Shaped
    <3> QED BY <2>4, <3>1 DEF UnregisterFind, Begin
  <2>5. ASSUME NEW w \in Workers, NEW r \in Sources, EvidenceRead(w, r)
        PROVE  \E j \in Job : job' = [job EXCEPT ![w] = j] /\ Shaped(j)
    <3> DEFINE m == reg[r].m
               c == reg[r].completion
               j == [NoJob EXCEPT !.op = "evidence", !.at = "points", !.r = r, !.m = m, !.seen = c]
    <3>1. m \in Members /\ c \in {"NOT_SUBMITTED", "PENDING_REVIEW", "REJECTED"}
      <4>1. Live(r) /\ c # "APPROVED"
        BY <2>5 DEF EvidenceRead
      <4>2. reg[r] \in [completion : LiveCompletion, e : Events, m : Members]
        BY <1>0, <4>1, LiveRow
      <4> QED BY <4>1, <4>2 DEF LiveCompletion
    <3> HIDE DEF m, c
    <3>2. j \in Job /\ Shaped(j)
      BY <3>1 DEF NoJob, Job, Shaped
    <3> QED BY <2>5, <3>2 DEF EvidenceRead, Begin, m, c
  <2>6. ASSUME NEW w \in Workers, RegisterLock(w)
        PROVE  \E j \in Job : job' = [job EXCEPT ![w] = j] /\ Shaped(j)
    <3> DEFINE n == event[job[w].e].capacity
               j == [job[w] EXCEPT !.at = "count", !.points = n]
    <3>1. job[w].e \in Events /\ job[w].m \in Members /\ job[w].op = "register"
      BY <2>6, Knows DEF RegisterLock, At
    <3>2. n \in Nat
      BY <1>0, <3>1 DEF TypeOK
    <3>3. j \in Job /\ Step(job[w], j, "count", n)
      BY <1>0, <3>2, JobEdits
    <3>4. job' = [job EXCEPT ![w] = j]
      BY <2>0, <2>6 DEF RegisterLock
    <3> QED BY <3>1, <3>3, <3>4 DEF Step, Shaped
  <2>7. ASSUME NEW w \in Workers, RegisterCount(w)
        PROVE  \E j \in Job : job' = [job EXCEPT ![w] = j] /\ Shaped(j)
    <3>1. CASE Goto(w, "insert")
      <4> DEFINE j == [job[w] EXCEPT !.at = "insert"]
      <4>1. job[w].e \in Events /\ job[w].m \in Members /\ job[w].op = "register"
        BY <2>7, Knows DEF RegisterCount, At
      <4>2. j \in Job /\ Step(job[w], j, "insert", job[w].points)
        BY <1>0, JobEdits
      <4>3. job' = [job EXCEPT ![w] = j]
        BY <2>0, <3>1 DEF Goto
      <4> QED BY <4>1, <4>2, <4>3 DEF Step, Shaped
    <3> QED BY <2>2, <2>7, <3>1 DEF RegisterCount
  <2>8. ASSUME NEW w \in Workers, NEW n \in EventPoints, EvidenceReadPoints(w, n)
        PROVE  \E j \in Job : job' = [job EXCEPT ![w] = j] /\ Shaped(j)
    <3> DEFINE j == [job[w] EXCEPT !.at = "cas", !.points = n]
    <3>1. /\ job[w].op = "evidence" /\ job[w].m \in Members /\ job[w].r \in Sources
          /\ Shaped(job[w]) /\ job[w] # NoJob
      BY <1>0, <2>8, Knows, NoJobType DEF EvidenceReadPoints, At
    <3>2. n \in Nat
      OBVIOUS
    <3>3. j \in Job /\ Step(job[w], j, "cas", n)
      BY <1>0, <3>2, JobEdits
    <3>4. job' = [job EXCEPT ![w] = j]
      BY <2>0, <2>8 DEF EvidenceReadPoints
    <3> QED BY <3>1, <3>3, <3>4 DEF Step, Shaped
  <2>9. ASSUME NEW w \in Workers, Start(w) \/ Proceed(w) \/ Abort(w)
        PROVE  job' \in [Workers -> Job] /\ \A v \in Workers : Shaped(job'[v])
    BY <2>1, <2>2, <2>3, <2>4, <2>5, <2>6, <2>7, <2>8, <2>9
       DEF Start, Proceed, Abort, RegisterInsert, UnregisterDelete, EvidenceCommit
  <2>10. CASE job' = job
    BY <1>0, <2>0, <2>10
  <2> QED BY <2>9, <2>10
          DEF Next, Environment, Activate, Suspend, Reactivate, Expire, SetStatus, UpdateEvent, vars
<1>6. aborts' \in Nat
  <2>1. aborts \in Nat
    BY <1>0 DEF TypeOK
  <2>2. aborts' = aborts \/ aborts' = aborts + 1
    BY DEF Next, Start, Proceed, Environment, RegisterSelf, RegisterMember, RegisterLock, RegisterCount, RegisterInsert,
           UnregisterFind, UnregisterDelete, EvidenceRead, EvidenceReadPoints, EvidenceCommit, Abort,
           Activate, Suspend, Reactivate, Expire, SetStatus, UpdateEvent, vars
  <2> QED BY <2>1, <2>2
<1>7. TypeOK'
  BY <1>1, <1>2, <1>3, <1>4, <1>5, <1>6 DEF TypeOK
<1>8. \A w \in Workers : Shaped(job[w])'
  BY <1>5 DEF Shaped
<1> QED BY <1>7, <1>8

-----------------------------------------------------------------------------
(* Rows and evidence belong to registrations that were made.                *)

LEMMA RegisteredKept ==
    ASSUME EventInv, Next \/ UNCHANGED vars, NEW r \in Sources, NEW m, Registered(r, m)
    PROVE  Registered(r, m)'
  BY RegistrationKept DEF Registered

LEMMA NextRegistered ==
    ASSUME EventInv, Next \/ UNCHANGED vars
    PROVE  RowsRegistered' /\ EvidenceRegistered'
<1>0. TypeOK /\ RowsRegistered /\ EvidenceRegistered
  BY DEF EventInv
<1>1. ASSUME NEW q \in ledger PROVE Registered(q.source, q.m)'
  <2>1. q.source \in Sources
    BY <1>0 DEF TypeOK, LedgerRow
  <2> DEFINE s == q.source
             m == q.m
  <2>2. Registered(s, m) /\ s \in Sources
    BY <1>0, <2>1 DEF RowsRegistered
  <2> HIDE DEF s, m
  <2>3. Registered(s, m)'
    BY <2>2, RegisteredKept
  <2> QED BY <2>3 DEF s, m
<1>2. RowsRegistered'
  <2> SUFFICES ASSUME NEW q \in ledger' PROVE Registered(q.source, q.m)'
    BY DEF RowsRegistered
  <2>1. CASE q \in ledger
    BY <1>1, <2>1
  <2>2. CASE q \notin ledger
    <3>1. PICK w \in Workers : EvidenceCommit(w) /\ EvidenceMatches(w)
      BY <2>2, Quiet DEF points_vars, RegisterInsert, UnregisterDelete
    <3>2. q.source = job[w].r /\ q.m = job[w].m
      BY <2>2, <3>1, Credit
    <3>3. job[w].r \in Sources /\ Registered(job[w].r, job[w].m)
      BY <1>0, <3>1, Credit DEF EvidenceCommit, At, EvidenceRegistered
    <3> DEFINE s == q.source
               m == q.m
    <3>4. s \in Sources /\ Registered(s, m)
      BY <3>2, <3>3
    <3> HIDE DEF s, m
    <3>5. Registered(s, m)'
      BY <3>4, RegisteredKept
    <3> QED BY <3>5 DEF s, m
  <2> QED BY <2>1, <2>2
<1>3. ASSUME NEW w \in Workers, job'[w].op = "evidence"
      PROVE  \E r \in Sources : \E m : Registered(r, m) /\ job'[w].r = r /\ job'[w].m = m
  <2>1. CASE job[w].op = "evidence" /\ job'[w].r = job[w].r /\ job'[w].m = job[w].m
    BY <1>0, <2>1, Knows DEF EvidenceRegistered
  <2>2. CASE job'[w] = job[w]
    BY <1>3, <2>1, <2>2
  <2>3. ASSUME NEW v \in Workers, Others(v), v # w PROVE job'[w] = job[w]
    BY <2>3 DEF Others
  <2>4. ASSUME NEW v \in Workers, Ended(v) PROVE job'[w] = job[w]
    BY <1>3, <2>3, <2>4, NoJobType DEF Ended, NoJob
  <2>5. ASSUME NEW v \in Workers, NEW e \in Events, NEW m \in Members, RegisterSelf(v, e, m) \/ RegisterMember(v, e, m)
        PROVE  job'[w] = job[w]
    <3> DEFINE j == [NoJob EXCEPT !.op = "register", !.at = "lock", !.e = e, !.m = m]
    <3>1. Begin(v, j)
      BY <2>5 DEF RegisterSelf, RegisterMember
    <3>2. j.op = "register"
      BY DEF NoJob
    <3> HIDE DEF j
    <3> QED BY <1>0, <1>3, <2>3, <3>1, <3>2, Moves DEF Others
  <2>6. ASSUME NEW v \in Workers, NEW r \in Sources, UnregisterFind(v, r) PROVE job'[w] = job[w]
    <3> DEFINE j == [NoJob EXCEPT !.op = "unregister", !.at = "delete", !.r = r]
    <3>1. Begin(v, j)
      BY <2>6 DEF UnregisterFind
    <3>2. j.op = "unregister"
      BY DEF NoJob
    <3> HIDE DEF j
    <3> QED BY <1>0, <1>3, <2>3, <3>1, <3>2, Moves DEF Others
  <2>7. ASSUME NEW v \in Workers, NEW r \in Sources, EvidenceRead(v, r)
        PROVE  job'[w] = job[w] \/ \E m : Registered(r, m) /\ job'[w].r = r /\ job'[w].m = m
    <3> DEFINE j == [NoJob EXCEPT !.op = "evidence", !.at = "points", !.r = r, !.m = reg[r].m,
                                  !.seen = reg[r].completion]
    <3>1. Begin(v, j) /\ Live(r)
      BY <2>7 DEF EvidenceRead
    <3>2. j.r = r /\ j.m = reg[r].m
      BY DEF NoJob
    <3>3. Registered(r, reg[r].m)
      BY <3>1 DEF Registered, Live
    <3> HIDE DEF j
    <3> QED BY <1>0, <2>3, <3>1, <3>2, <3>3, Moves DEF Others
  <2>8. ASSUME NEW v \in Workers, NEW at, NEW n, Moved(v, at, n)
        PROVE  job[w].op = "evidence" /\ job'[w].r = job[w].r /\ job'[w].m = job[w].m
    BY <1>3, <2>3, <2>8 DEF Moved, Step
  <2>9. ASSUME NEW v \in Workers, Start(v) \/ Proceed(v) \/ Abort(v)
        PROVE  \E r \in Sources : \E m : Registered(r, m) /\ job'[w].r = r /\ job'[w].m = m
    <3>1. CASE Start(v)
      BY <2>2, <2>5, <2>6, <2>7, <3>1 DEF Start
    <3>2. CASE Finish(v)
      BY <1>0, <2>2, <2>4, <3>2, Moves
    <3>3. CASE RegisterLock(v) \/ RegisterCount(v) \/ \E n \in EventPoints : EvidenceReadPoints(v, n)
      BY <1>0, <2>1, <2>2, <2>4, <2>8, <3>3, Moves
    <3> QED BY <2>9, <3>1, <3>2, <3>3 DEF Proceed, Abort, RegisterInsert, UnregisterDelete, EvidenceCommit
  <2> QED BY <2>2, <2>9 DEF Next, Environment, Activate, Suspend, Reactivate, Expire, SetStatus, UpdateEvent, vars
<1>4. EvidenceRegistered'
  <2> SUFFICES ASSUME NEW w \in Workers, job'[w].op = "evidence" PROVE Registered(job[w].r, job[w].m)'
    BY DEF EvidenceRegistered
  <2>1. PICK r \in Sources : \E m : Registered(r, m) /\ job'[w].r = r /\ job'[w].m = m
    BY <1>3
  <2>2. PICK m : Registered(r, m) /\ job'[w].r = r /\ job'[w].m = m
    BY <2>1
  <2>3. Registered(r, m)'
    BY <2>2, RegisteredKept
  <2> QED BY <2>2, <2>3
<1> QED BY <1>2, <1>4

-----------------------------------------------------------------------------
(* Evidence decides the points.                                            *)

LEMMA NextLedger ==
    ASSUME EventInv, Next \/ UNCHANGED vars
    PROVE  OneRow' /\ EvidenceDecidesPoints'
<1>0. TypeOK /\ OneRow /\ EvidenceDecidesPoints /\ RowsRegistered /\ IsFiniteSet(ledger)
  BY DEF EventInv, OneRow
<1>1. \A q \in ledger : q.source \in Sources /\ reg[q.source].completion # "NONE"
  BY <1>0 DEF TypeOK, LedgerRow, RowsRegistered, Registered
\* No row is written, and a row's registration stays as it was or is deleted.
<1>2. ASSUME ledger' = ledger, \A q \in ledger : reg'[q.source] = reg[q.source] \/ reg'[q.source].completion = "DELETED"
      PROVE  OneRow' /\ EvidenceDecidesPoints'
  <2>1. OneRow'
    BY <1>0, <1>2 DEF OneRow
  <2>2. EvidenceDecidesPoints'
    BY <1>0, <1>2 DEF EvidenceDecidesPoints, Live
  <2> QED BY <2>1, <2>2
<1>3. ASSUME NEW w \in Workers, NEW r \in Sources, RegisterInsert(w, r) PROVE OneRow' /\ EvidenceDecidesPoints'
  <2>1. reg' = reg \/ (reg[r].completion = "NONE" /\ \A q \in Sources \ {r} : reg'[q] = reg[q])
    BY <1>3, RegSteps
  <2>2. \A q \in ledger : reg'[q.source] = reg[q.source]
    BY <1>1, <2>1
  <2> QED BY <1>2, <1>3, <2>2 DEF RegisterInsert, points_vars
<1>4. ASSUME NEW w \in Workers, UnregisterDelete(w) PROVE OneRow' /\ EvidenceDecidesPoints'
  <2>1. /\ reg'[job[w].r] = [completion |-> "DELETED", e |-> None, m |-> None]
        /\ \A q \in Sources \ {job[w].r} : reg'[q] = reg[q]
    BY <1>4, RegSteps
  <2>2. reg'[job[w].r].completion = "DELETED"
    BY <2>1
  <2> QED BY <1>1, <1>2, <1>4, <2>1, <2>2 DEF UnregisterDelete, points_vars
<1>5. ASSUME NEW w \in Workers, EvidenceCommit(w), EvidenceMatches(w) PROVE OneRow' /\ EvidenceDecidesPoints'
  <2> DEFINE r == job[w].r
  <2>1. /\ r \in Sources /\ reg[r].m = job[w].m
        /\ reg'[r] = [completion |-> "APPROVED", e |-> reg[r].e, m |-> reg[r].m]
        /\ \A q \in Sources \ {r} : reg'[q] = reg[q]
    BY <1>5, Credit, RegSteps
  <2> HIDE DEF r
  <2>2. reg'[r].completion = "APPROVED" /\ reg'[r].m = job[w].m
    BY <2>1
  <2>3. CASE RowsOf(r) = {} /\ ledger' = ledger
    <3>1. \A q \in ledger : q.source # r
      BY <2>3 DEF RowsOf
    <3> QED BY <1>1, <1>2, <2>1, <2>3, <3>1
  <2>4. ASSUME NEW R \in SUBSET ledger, NEW c \in LedgerRow, \A q \in R : q.source # r,
               ledger' = R \cup {c}, c.source = r, c.m = job[w].m, c.status = "APPROVED"
        PROVE  OneRow' /\ EvidenceDecidesPoints'
    <3>1. IsFiniteSet(ledger')
      <4>1. IsFiniteSet(R)
        BY <1>0, FS_Subset
      <4> QED BY <2>4, <4>1, FS_AddElement
    <3>2. \A p, q \in ledger' : p.source = q.source => p = q
      BY <1>0, <2>4 DEF OneRow
    <3>3. \A q \in R : reg'[q.source] = reg[q.source]
      BY <1>1, <2>1, <2>4
    <3>4. \A q \in R : Live(q.source)' => (q.status = "APPROVED" <=> reg'[q.source].completion = "APPROVED") /\ q.m = reg'[q.source].m
      BY <1>0, <3>3 DEF EvidenceDecidesPoints, Live
    <3>5. (c.status = "APPROVED" <=> reg'[c.source].completion = "APPROVED") /\ c.m = reg'[c.source].m
      BY <2>2, <2>4
    <3> QED BY <2>4, <3>1, <3>2, <3>4, <3>5 DEF OneRow, EvidenceDecidesPoints
  <2> QED BY <1>5, <2>3, <2>4, Credit, ZenonT(40) DEF r
<1>6. CASE UNCHANGED <<points_vars, reg>>
  BY <1>2, <1>6 DEF points_vars
<1> QED BY <1>3, <1>4, <1>5, <1>6, Quiet

-----------------------------------------------------------------------------
(* The room that a registration has found is kept for it.                   *)

\* Between reading the capacity of the event and writing its registration.
Holds(w) == job[w].op = "register" /\ job[w].at \in {"count", "insert"}

LEMMA FewerRegistrations ==
    ASSUME NEW A, NEW B, A \subseteq B, B \subseteq Sources
    PROVE  /\ IsFiniteSet(B) /\ Cardinality(A) \in Nat /\ Cardinality(B) \in Nat
           /\ Cardinality(A) <= Cardinality(B)
  BY FS_Subset, FS_CardinalityType

\* Only a registration that holds the event adds to it, and it adds one.
LEMMA RegistrationsOfStep ==
    ASSUME EventInv, Next \/ UNCHANGED vars, NEW e \in Events
    PROVE  \/ RegistrationsOf(e)' \subseteq RegistrationsOf(e)
           \/ \E w \in Workers, r \in Sources :
                 /\ RegisterInsert(w, r) /\ job[w].e = e
                 /\ RegistrationsOf(e)' \subseteq RegistrationsOf(e) \cup {r}
<1>1. \A r \in Sources : r \in RegistrationsOf(e)' <=> Live(r)' /\ reg'[r].e = e
  BY DEF RegistrationsOf
<1>2. ASSUME NEW r \in Sources, r \in RegistrationsOf(e)', r \notin RegistrationsOf(e)
      PROVE  \E w \in Workers : RegisterInsert(w, r) /\ job[w].e = e
  <2>1. Live(r)' /\ reg'[r].e = e /\ ~(Live(r) /\ reg[r].e = e)
    BY <1>1, <1>2 DEF RegistrationsOf
  <2> QED BY <2>1, RegistrationKept
<1>3. RegistrationsOf(e)' \subseteq Sources
  BY DEF RegistrationsOf
<1>4. CASE RegistrationsOf(e)' \subseteq RegistrationsOf(e)
  BY <1>4
<1>5. ASSUME NEW r \in RegistrationsOf(e)', r \notin RegistrationsOf(e)
      PROVE  \E w \in Workers, q \in Sources :
                 /\ RegisterInsert(w, q) /\ job[w].e = e
                 /\ RegistrationsOf(e)' \subseteq RegistrationsOf(e) \cup {q}
  <2>0. r \in Sources
    BY <1>3
  <2>1. PICK w \in Workers : RegisterInsert(w, r) /\ job[w].e = e
    BY <1>2, <1>5, <2>0
  <2>2. \A q \in Sources \ {r} : reg'[q] = reg[q]
    BY <2>0, <2>1, RegSteps
  <2>3. \A q \in Sources \ {r} : q \in RegistrationsOf(e)' => q \in RegistrationsOf(e)
    BY <1>1, <2>2 DEF RegistrationsOf, Live
  <2> QED BY <1>3, <2>0, <2>1, <2>3
<1> QED BY <1>4, <1>5

\* What a handler that holds an event just did.
LEMMA HoldSteps ==
    ASSUME EventInv, Next \/ UNCHANGED vars, NEW w \in Workers, Holds(w)'
    PROVE  \/ job'[w] = job[w]
           \/ RegisterLock(w) /\ Moved(w, "count", event[job[w].e].capacity)
           \/ RegisterCount(w) /\ Moved(w, "insert", job[w].points)
<1>0. TypeOK /\ job'[w].op = "register" /\ job'[w].at \in {"count", "insert"}
  BY DEF EventInv, Holds
<1>1. ASSUME NEW v \in Workers, Others(v), v # w PROVE job'[w] = job[w]
  BY <1>1 DEF Others
<1>2. ASSUME NEW v \in Workers, Ended(v) PROVE job'[w] = job[w]
  BY <1>0, <1>1, <1>2, NoJobType DEF Ended, NoJob
<1>3. ASSUME NEW v \in Workers, NEW j, Begin(v, j), j.op # "register" \/ j.at = "lock" PROVE job'[w] = job[w]
  BY <1>0, <1>1, <1>3, Moves
<1>4. ASSUME NEW v \in Workers, Start(v) PROVE job'[w] = job[w]
  <2>1. ASSUME NEW e \in Events, NEW m \in Members, RegisterSelf(v, e, m) \/ RegisterMember(v, e, m)
        PROVE  job'[w] = job[w]
    <3> DEFINE j == [NoJob EXCEPT !.op = "register", !.at = "lock", !.e = e, !.m = m]
    <3>1. Begin(v, j) /\ j.at = "lock"
      BY <2>1 DEF RegisterSelf, RegisterMember, NoJob
    <3> HIDE DEF j
    <3> QED BY <1>3, <3>1
  <2>2. ASSUME NEW r \in Sources, UnregisterFind(v, r) PROVE job'[w] = job[w]
    <3> DEFINE j == [NoJob EXCEPT !.op = "unregister", !.at = "delete", !.r = r]
    <3>1. Begin(v, j) /\ j.op # "register"
      BY <2>2 DEF UnregisterFind, NoJob
    <3> HIDE DEF j
    <3> QED BY <1>3, <3>1
  <2>3. ASSUME NEW r \in Sources, EvidenceRead(v, r) PROVE job'[w] = job[w]
    <3> DEFINE j == [NoJob EXCEPT !.op = "evidence", !.at = "points", !.r = r, !.m = reg[r].m,
                                  !.seen = reg[r].completion]
    <3>1. Begin(v, j) /\ j.op # "register"
      BY <2>3 DEF EvidenceRead, NoJob
    <3> HIDE DEF j
    <3> QED BY <1>3, <3>1
  <2> QED BY <1>4, <2>1, <2>2, <2>3 DEF Start
<1>5. ASSUME NEW v \in Workers, RegisterLock(v)
      PROVE  job'[w] = job[w] \/ (RegisterLock(w) /\ Moved(w, "count", event[job[w].e].capacity))
  BY <1>0, <1>1, <1>5, Moves DEF Moved
<1>6. ASSUME NEW v \in Workers, RegisterCount(v)
      PROVE  job'[w] = job[w] \/ (RegisterCount(w) /\ Moved(w, "insert", job[w].points))
  <2>1. CASE Ended(v)
    BY <1>2, <2>1
  <2>2. CASE Moved(v, "insert", job[v].points)
    BY <1>1, <1>6, <2>2 DEF Moved
  <2> QED BY <1>0, <1>6, <2>1, <2>2, Moves
<1>7. ASSUME NEW v \in Workers, NEW n \in EventPoints, EvidenceReadPoints(v, n) PROVE job'[w] = job[w]
  BY <1>0, <1>1, <1>7, Moves DEF Moved, Step
<1>8. ASSUME NEW v \in Workers, Finish(v) PROVE job'[w] = job[w]
  BY <1>0, <1>2, <1>8, Moves
<1>9. ASSUME NEW v \in Workers, Proceed(v) \/ Abort(v)
      PROVE  \/ job'[w] = job[w]
             \/ RegisterLock(w) /\ Moved(w, "count", event[job[w].e].capacity)
             \/ RegisterCount(w) /\ Moved(w, "insert", job[w].points)
  BY <1>5, <1>6, <1>7, <1>8, <1>9 DEF Proceed, Abort, RegisterInsert, UnregisterDelete, EvidenceCommit
<1>10. CASE job' = job
  BY <1>10
<1> QED BY <1>4, <1>9, <1>10
        DEF Next, Environment, Activate, Suspend, Reactivate, Expire, SetStatus, UpdateEvent, vars

LEMMA NextRoom ==
    ASSUME EventInv, Next \/ UNCHANGED vars
    PROVE  RoomKept'
<1>0. TypeOK /\ RoomKept /\ event \in [Events -> [status : EventStatus, capacity : Nat]]
  BY DEF EventInv, TypeOK
<1>1. ASSUME NEW w \in Workers, RegisterLock(w) \/ RegisterCount(w) PROVE event' = event /\ reg' = reg
  BY <1>1 DEF RegisterLock, RegisterCount
<1>2. ASSUME NEW w \in Workers, Holds(w) PROVE event'[job[w].e] = event[job[w].e]
  <2>1. job[w].e \in Events /\ EventLocked(job[w].e)
    BY <1>2, Knows DEF Holds, EventLocked
  <2>2. event' = event \/ \E e \in Events : ~EventLocked(e) /\ \E x : event' = [event EXCEPT ![e] = x]
    BY DEF Next, Start, Proceed, Environment, RegisterSelf, RegisterMember, RegisterLock, RegisterCount, RegisterInsert,
           UnregisterFind, UnregisterDelete, EvidenceRead, EvidenceReadPoints, EvidenceCommit, Abort,
           Activate, Suspend, Reactivate, Expire, SetStatus, UpdateEvent, vars
  <2> QED BY <1>0, <2>1, <2>2
<1> SUFFICES ASSUME NEW w \in Workers, job'[w].op = "register", job'[w].at \in {"count", "insert"}
             PROVE  /\ \A v \in Workers : job'[v].op = "register" /\ job'[v].at \in {"count", "insert"} /\ job'[v].e = job'[w].e => v = w
                    /\ event'[job'[w].e].capacity = job'[w].points
                    /\ job'[w].at = "insert" => Cardinality(RegistrationsOf(job[w].e)') < job'[w].points
  BY DEF RoomKept
<1>3. \A v \in Workers : job'[v].op = "register" /\ job'[v].at \in {"count", "insert"} <=> Holds(v)'
  BY DEF Holds
<1>4. \A v \in Workers : RegisterCount(v) => job[v].op = "register" /\ job[v].at = "count"
  BY DEF RegisterCount, At
<1>5. ASSUME NEW v \in Workers, NEW u \in Workers, u # v, Holds(u)', Holds(v)', job'[u].e = job'[v].e
      PROVE  FALSE
  <2>1. Holds(u) /\ Holds(v) => job[u].e # job[v].e
    BY <1>0, <1>5 DEF RoomKept, Holds
  <2>2. job'[u] = job[u] \/ job'[v] = job[v]
    BY <1>5, HoldSteps DEF Moved, Others
  <2>3. ASSUME NEW a \in Workers, NEW b \in Workers, a # b, job'[a] = job[a], job'[b] = job[b], Holds(a)', Holds(b)'
        PROVE  Holds(a) /\ Holds(b)
    BY <2>3 DEF Holds
  <2>4. ASSUME NEW a \in Workers, NEW b \in Workers, a # b, job'[a] = job[a], Holds(a)',
               job'[a].e = job'[b].e, Holds(a) /\ Holds(b) => job[a].e # job[b].e,
               \/ RegisterLock(b) /\ Moved(b, "count", event[job[b].e].capacity)
               \/ RegisterCount(b) /\ Moved(b, "insert", job[b].points)
        PROVE  FALSE
    <3>1. Holds(a) /\ job[a].e = job[b].e
      BY <2>4 DEF Holds, Moved, Step
    <3>2. CASE RegisterLock(b)
      BY <3>1, <3>2 DEF RegisterLock, EventLocked, Holds
    <3>3. CASE RegisterCount(b)
      BY <1>4, <2>4, <3>1, <3>3 DEF Holds
    <3> QED BY <2>4, <3>2, <3>3
  <2> QED BY <1>5, <2>1, <2>2, <2>3, <2>4, HoldSteps
<1>6. \A v \in Workers : job'[v].op = "register" /\ job'[v].at \in {"count", "insert"} /\ job'[v].e = job'[w].e => v = w
  BY <1>3, <1>5
<1>7. event'[job'[w].e].capacity = job'[w].points
  <2>1. CASE job'[w] = job[w]
    <3>1. Holds(w)
      BY <2>1 DEF Holds
    <3> QED BY <1>0, <1>2, <2>1, <3>1 DEF RoomKept, Holds
  <2>2. CASE RegisterLock(w) /\ Moved(w, "count", event[job[w].e].capacity)
    BY <1>1, <2>2 DEF Moved, Step
  <2>3. CASE RegisterCount(w) /\ Moved(w, "insert", job[w].points)
    BY <1>0, <1>1, <1>4, <2>3 DEF Moved, Step, RoomKept
  <2> QED BY <1>3, <2>1, <2>2, <2>3, HoldSteps
<1>8. ASSUME job'[w].at = "insert" PROVE Cardinality(RegistrationsOf(job[w].e)') < job'[w].points
  <2>1. CASE job'[w] = job[w]
    <3> DEFINE e == job[w].e
    <3>1. /\ Holds(w) /\ job[w].at = "insert" /\ e \in Events
          /\ job[w].points \in Nat /\ Cardinality(RegistrationsOf(e)) < job[w].points
      <4>1. Holds(w) /\ job[w].at = "insert"
        BY <1>8, <2>1 DEF Holds
      <4> QED BY <1>0, <4>1, Knows DEF RoomKept, Holds, Job
    <3>2. PICK x \in Events : x = e
      BY <3>1
    <3>3. RegistrationsOf(x)' \subseteq RegistrationsOf(x)
      <4>1. ASSUME NEW v \in Workers, NEW r \in Sources, RegisterInsert(v, r), job[v].e = x PROVE FALSE
        <5>1. Holds(v)
          BY <4>1 DEF RegisterInsert, At, Holds
        <5>2. v = w
          BY <1>0, <3>1, <3>2, <4>1, <5>1 DEF RoomKept, Holds
        <5>3. job'[w] = NoJob
          BY <1>0, <4>1, <5>2, Moves DEF RegisterInsert, Ended
        <5> QED BY <5>3, NoJobType
      <4> QED BY <4>1, RegistrationsOfStep
    <3>4. Cardinality(RegistrationsOf(x)') < job[w].points
      <4>1. RegistrationsOf(x) \subseteq Sources
        BY DEF RegistrationsOf
      <4> QED BY <3>1, <3>2, <3>3, <4>1, FewerRegistrations
    <3>5. x = job'[w].e
      BY <2>1, <3>2
    <3> HIDE DEF e
    <3> QED BY <2>1, <3>4, <3>5
  <2>2. CASE RegisterLock(w) /\ Moved(w, "count", event[job[w].e].capacity)
    BY <1>8, <2>2 DEF Moved, Step
  <2>3. CASE RegisterCount(w) /\ Moved(w, "insert", job[w].points)
    <3> DEFINE e == job[w].e
    <3>1. e \in Events /\ job[w].points \in Nat /\ job[w].op = "register" /\ job'[w].e = e /\ job'[w].points = job[w].points
      BY <1>4, <2>3, Knows DEF Moved, Step, Job
    <3>2. Cardinality(RegistrationsOf(e)) < job[w].points
      <4>1. RegistrationsOf(e) \subseteq Sources
        BY DEF RegistrationsOf
      <4>2. Cardinality(RegistrationsOf(e)) \in Nat
        BY <4>1, FewerRegistrations
      <4>3. ~Finish(w)
        BY <1>0, <1>3, Moves, NoJobType DEF Ended
      <4> QED BY <2>3, <3>1, <4>2, <4>3 DEF RegisterCount
    <3>3. RegistrationsOf(e)' = {r \in Sources : Live(r)' /\ reg'[r].e = job'[w].e}
      BY DEF RegistrationsOf
    <3>4. \A r \in Sources : Live(r)' <=> Live(r)
      BY <1>1, <2>3 DEF Live
    <3>5. RegistrationsOf(e)' = RegistrationsOf(e)
      BY <1>1, <2>3, <3>1, <3>3, <3>4 DEF RegistrationsOf
    <3> QED BY <3>1, <3>2, <3>5
  <2> QED BY <1>3, <2>1, <2>2, <2>3, HoldSteps
<1> QED BY <1>6, <1>7, <1>8

-----------------------------------------------------------------------------
(* The invariant.                                                          *)

LEMMA InitInv == Init => EventInv
<1> SUFFICES ASSUME Init PROVE EventInv
  OBVIOUS
<1>1. \A q \in ledger : \E r \in Sources : Live(r) /\ q \in LegacyRow(r)
  BY DEF Init
<1>2. reg \in [Sources -> RegRow] /\ \A r \in Sources : reg[r].completion # "APPROVED"
  <2>1. \A x \in LegacyReg : x \in RegRow /\ x.completion # "APPROVED"
    <3>1. NoReg \in RegRow /\ NoReg.completion # "APPROVED"
      BY DEF NoReg, RegRow
    <3>2. \A x \in [completion : {"PENDING_REVIEW", "REJECTED"}, e : Events, m : Members] :
              x \in RegRow /\ x.completion # "APPROVED"
      BY DEF RegRow
    <3> QED BY <3>1, <3>2 DEF LegacyReg
  <2> QED BY <2>1 DEF Init
<1>3. ASSUME NEW r \in Sources, Live(r) PROVE reg[r].m \in Members
  <2>1. reg[r] \in RegRow
    BY <1>2
  <2> QED BY <1>3, <2>1 DEF Live, RegRow
<1>4. ASSUME NEW q \in ledger
      PROVE  /\ q \in LedgerRow /\ q.status # "APPROVED"
             /\ q.source \in Sources /\ Live(q.source) /\ q.m = reg[q.source].m
  <2>1. PICK r \in Sources : Live(r) /\ q \in LegacyRow(r)
    BY <1>1
  <2> DEFINE k == IF reg[r].completion = "REJECTED" THEN "REJECTED" ELSE "PENDING"
             m == reg[r].m
  <2>2. PICK n \in LegacyPoints : q = [source |-> r, nth |-> 0, m |-> m, points |-> n, status |-> k]
    BY <2>1 DEF LegacyRow
  <2>3. k \in RowStatus /\ k # "APPROVED" /\ m \in Members /\ n \in Nat
    BY <1>3, <2>1 DEF RowStatus
  <2> HIDE DEF k
  <2>4. q.source = r /\ q.m = m /\ q.status = k
    BY <2>2
  <2>5. q \in LedgerRow
    BY <2>2, <2>3 DEF LedgerRow
  <2> QED BY <2>1, <2>3, <2>4, <2>5
<1>5. IsFiniteSet(ledger)
  <2> DEFINE f == [q \in ledger |-> q.source]
  <2>1. f \in Injection(ledger, Sources)
    BY <1>4 DEF Init, Injection, IsInjective
  <2> HIDE DEF f
  <2> QED BY <2>1, FS_Injection
<1>6. TypeOK
  <2>1. balance \in [Members -> Nat] /\ aborts \in Nat /\ status \in [Members -> MemberStatus]
    BY DEF Init, MemberStatus
  <2>2. event \in [Events -> [status : EventStatus, capacity : Nat]]
    <3>1. \A x \in [status : {"PLANNED"}, capacity : Capacities] : x \in [status : EventStatus, capacity : Nat]
      BY DEF EventStatus
    <3> QED BY <3>1 DEF Init
  <2>3. job \in [Workers -> Job]
    BY NoJobType DEF Init
  <2> QED BY <1>2, <1>4, <2>1, <2>2, <2>3 DEF TypeOK
<1>7. \A w \in Workers : Shaped(job[w]) /\ job[w].op = "idle"
  BY NoJobType DEF Init
<1>8. EvidenceDecidesPoints
  BY <1>2, <1>4 DEF EvidenceDecidesPoints
<1>9. RowsRegistered
  BY <1>4 DEF RowsRegistered, Registered, Live
<1>10. OneRow /\ EvidenceRegistered /\ RoomKept
  BY <1>5, <1>7 DEF OneRow, EvidenceRegistered, RoomKept, Init
<1> QED BY <1>6, <1>7, <1>8, <1>9, <1>10 DEF EventInv

LEMMA NextInv == EventInv /\ [Next]_vars => EventInv'
<1> SUFFICES ASSUME EventInv, Next \/ UNCHANGED vars PROVE EventInv'
  OBVIOUS
<1>1. TypeOK' /\ \A w \in Workers : Shaped(job[w])'
  BY NextType
<1>2. RowsRegistered' /\ EvidenceRegistered'
  BY NextRegistered
<1>3. OneRow' /\ EvidenceDecidesPoints'
  BY NextLedger
<1>4. RoomKept'
  BY NextRoom
<1> QED BY <1>1, <1>2, <1>3, <1>4 DEF EventInv

\* The inductive invariant holds of every state.
THEOREM Invariant == Spec => []EventInv
<1> QED BY InitInv, NextInv, PTL DEF Spec

\* Every variable has its type.
THEOREM TypeCorrect == Spec => []TypeOK
<1>1. EventInv => TypeOK
  BY DEF EventInv
<1> QED BY <1>1, Invariant, PTL

\* Evidence and points go together: a registration's row is credited exactly when
\* its evidence is accepted, and goes to the member who is registered.
THEOREM EvidenceEarns == Spec => []EvidenceDecidesPoints
<1>1. EventInv => EvidenceDecidesPoints
  BY DEF EventInv
<1> QED BY <1>1, Invariant, PTL

\* createRegistration's transaction keeps every event within its capacity, however
\* many members register at once: one that is added found room.
THEOREM NoEventOverflows == Spec => WithinCapacity
<1>1. EventInv /\ [Next]_vars => [\A e \in Events : RegistrationsOf(e)' \ RegistrationsOf(e) # {} =>
                                      Cardinality(RegistrationsOf(e)') <= event[e].capacity]_vars
  <2> SUFFICES ASSUME EventInv, Next \/ UNCHANGED vars, NEW e \in Events,
                      RegistrationsOf(e)' \ RegistrationsOf(e) # {}
               PROVE  Cardinality(RegistrationsOf(e)') <= event[e].capacity
    OBVIOUS
  <2>1. PICK w \in Workers, r \in Sources :
            /\ RegisterInsert(w, r) /\ job[w].e = e
            /\ RegistrationsOf(e)' \subseteq RegistrationsOf(e) \cup {r}
    BY RegistrationsOfStep
  <2>2. /\ event[e].capacity = job[w].points /\ job[w].points \in Nat
        /\ Cardinality(RegistrationsOf(e)) < job[w].points
    BY <2>1, Knows DEF EventInv, RoomKept, RegisterInsert, At, Job
  <2>3. RegistrationsOf(e) \subseteq Sources /\ RegistrationsOf(e) \cup {r} \subseteq Sources
    BY DEF RegistrationsOf
  <2>4. IsFiniteSet(RegistrationsOf(e)) /\ Cardinality(RegistrationsOf(e)) \in Nat
    BY <2>3, FewerRegistrations
  <2>5. Cardinality(RegistrationsOf(e) \cup {r}) <= job[w].points
    <3> DEFINE R == RegistrationsOf(e)
    <3>1. IsFiniteSet(R) /\ Cardinality(R) \in Nat /\ Cardinality(R) < job[w].points /\ job[w].points \in Nat
      BY <2>2, <2>4
    <3> HIDE DEF R
    <3>2. Cardinality(R \cup {r}) = IF r \in R THEN Cardinality(R) ELSE Cardinality(R) + 1
      BY <3>1, FS_AddElement
    <3>3. Cardinality(R \cup {r}) <= job[w].points
      BY <3>1, <3>2
    <3> QED BY <3>3 DEF R
  <2>6. /\ Cardinality(RegistrationsOf(e)') \in Nat /\ Cardinality(RegistrationsOf(e) \cup {r}) \in Nat
        /\ Cardinality(RegistrationsOf(e)') <= Cardinality(RegistrationsOf(e) \cup {r})
    BY <2>1, <2>3, FewerRegistrations
  <2> QED BY <2>2, <2>5, <2>6
<1> QED BY <1>1, Invariant, PTL DEF Spec, WithinCapacity

-----------------------------------------------------------------------------
(* The wallet.                                                             *)

\* A credit: the row becomes approved, or appears, and the balance gets its points.
Earned(c) ==
    /\ \A q \in Approved : q.source # c.source
    /\ Approved' = Approved \cup {c}
    /\ balance' = [balance EXCEPT ![c.m] = @ + c.points]

LEMMA EarnSteps ==
    ASSUME EventInv, Next \/ UNCHANGED vars
    PROVE  (Approved' = Approved /\ balance' = balance) \/ \E c \in LedgerRow : Earned(c)
<1>1. (ledger' = ledger /\ balance' = balance) => (Approved' = Approved /\ balance' = balance)
  BY DEF Approved
<1>2. CASE UNCHANGED points_vars
  BY <1>1, <1>2 DEF points_vars
<1>3. ASSUME NEW w \in Workers, EvidenceCommit(w), EvidenceMatches(w)
      PROVE  (Approved' = Approved /\ balance' = balance) \/ \E c \in LedgerRow : Earned(c)
  <2> DEFINE s == job[w].r
  <2>1. ASSUME NEW R \in SUBSET ledger, NEW c \in LedgerRow,
               \A q \in R : q.source # s,
               \A q \in ledger \ R : q.status # "APPROVED" /\ q.source = s,
               ledger' = R \cup {c}, c.source = s, c.status = "APPROVED",
               balance' = [balance EXCEPT ![c.m] = @ + c.points]
        PROVE  Earned(c)
    BY <2>1 DEF Earned, Approved
  <2> HIDE DEF s
  <2> QED BY <1>1, <1>3, <2>1, Credit DEF s
<1> QED BY <1>2, <1>3, Quiet DEF RegisterInsert, UnregisterDelete

\* submitEvidence and creditEventPoints implement PointEarning: a registration is
\* credited at most once, to its member, and in one step with the member's balance.
THEOREM EventsEarn == Spec => EarningSpec
<1> DEFINE credits == {[source |-> r.source, m |-> r.m, points |-> r.points] : r \in Approved}
<1>1. Init => Earning!Init
  <2> SUFFICES ASSUME Init PROVE Earning!Init
    OBVIOUS
  <2>1. \A q \in ledger : q.status # "APPROVED"
    <3>1. \A r \in Sources : \A q \in LegacyRow(r) : q.status # "APPROVED"
      BY DEF LegacyRow
    <3> QED BY <3>1 DEF Init
  <2>2. Approved = {}
    BY <2>1 DEF Approved
  <2> QED BY <2>2 DEF Init, Earning!Init
<1>2. EventInv /\ [Next]_vars => [Earning!Next]_<<credits, balance>>
  <2> SUFFICES ASSUME EventInv, [Next]_vars PROVE Earning!Next \/ UNCHANGED <<credits, balance>>
    OBVIOUS
  <2>1. CASE Approved' = Approved /\ balance' = balance
    BY <2>1
  <2>2. ASSUME NEW c \in LedgerRow, Earned(c) PROVE Earning!Next
    <3> DEFINE b == [source |-> c.source, m |-> c.m, points |-> c.points]
    <3>1. b \in [source : Sources, m : Members, points : Nat]
      BY DEF LedgerRow
    <3>2. \A a \in credits : a.source # b.source
      BY <2>2 DEF Earned
    <3>3. credits' = credits \cup {b}
      BY <2>2 DEF Earned
    <3>4. balance' = [balance EXCEPT ![b.m] = @ + b.points]
      BY <2>2 DEF Earned
    <3>5. b \in credits' /\ b \notin credits
      BY <3>2, <3>3
    <3>6. Earning!Earn(b)
      BY <3>2, <3>3, <3>4 DEF Earning!Earn
    <3> HIDE DEF b
    <3> QED BY <3>1, <3>5, <3>6 DEF Earning!Next
  <2> QED BY <2>1, <2>2, EarnSteps
<1> QED BY <1>1, <1>2, Invariant, PTL DEF Spec, EarningSpec, Earning!Spec

\* The cached balance is the sum of the member's approved rows.
THEOREM BalancesSum == Spec => []BalanceIsSum
<1>1. Init => BalanceIsSum
  <2> SUFFICES ASSUME Init, NEW m \in Members PROVE balance[m] = SumOfPoints({r \in Approved : r.m = m})
    BY DEF BalanceIsSum
  <2>1. {r \in Approved : r.m = m} = {}
    <3>1. \A r \in Sources : \A q \in LegacyRow(r) : q.status # "APPROVED"
      BY DEF LegacyRow
    <3> QED BY <3>1 DEF Init, Approved
  <2>2. SumOfPoints({}) = 0
    BY SumEmpty DEF SumOfPoints
  <2> QED BY <2>1, <2>2 DEF Init
<1>2. EventInv /\ BalanceIsSum /\ [Next]_vars => BalanceIsSum'
  <2> SUFFICES ASSUME EventInv, BalanceIsSum, [Next]_vars PROVE BalanceIsSum'
    OBVIOUS
  <2>1. IsFiniteSet(Approved) /\ \A r \in Approved : r \in LedgerRow
    <3>1. Approved \subseteq ledger /\ IsFiniteSet(ledger) /\ ledger \subseteq LedgerRow
      BY DEF Approved, EventInv, OneRow, TypeOK
    <3> QED BY <3>1, FS_Subset
  <2>2. CASE Approved' = Approved /\ balance' = balance
    BY <2>2 DEF BalanceIsSum, SumOfPoints
  <2>3. ASSUME NEW c \in LedgerRow, Earned(c) PROVE BalanceIsSum'
    <3>1. /\ c \notin Approved /\ c.points \in Nat /\ c.m \in Members /\ balance \in [Members -> Nat]
          /\ \A r \in Approved : r.points \in Nat
      BY <2>1, <2>3 DEF Earned, LedgerRow, EventInv, TypeOK
    <3>2. \A m \in Members : balance[m] = RowSum(Approved, m)
      BY DEF BalanceIsSum, SumOfPoints, RowSum
    <3>3. \A m \in Members : balance'[m] = RowSum(Approved \cup {c}, m)
      <4> SUFFICES ASSUME NEW m \in Members PROVE balance'[m] = RowSum(Approved \cup {c}, m)
        OBVIOUS
      <4>1. RowSum(Approved \cup {c}, m) = IF c.m = m THEN RowSum(Approved, m) + c.points ELSE RowSum(Approved, m)
        BY <2>1, <3>1, SumOfRows
      <4>2. balance'[m] = IF c.m = m THEN balance[m] + c.points ELSE balance[m]
        BY <2>3, <3>1 DEF Earned
      <4> QED BY <3>2, <4>1, <4>2
    <3> QED BY <2>3, <3>3 DEF Earned, BalanceIsSum, SumOfPoints, RowSum
  <2> QED BY <2>2, <2>3, EarnSteps
<1> QED BY <1>1, <1>2, Invariant, PTL DEF Spec
=============================================================================
