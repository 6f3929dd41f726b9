-------------------------- MODULE Membership_proofs --------------------------
(***************************************************************************)
(* Proofs about Membership, for any members, handlers at work, captured     *)
(* payments, plans, fees and bounds.                                        *)
(***************************************************************************)
EXTENDS Membership, FiniteSetTheorems, TLAPS

USE NoneAssumption, PlansAssumption, BoundsAssumption

-----------------------------------------------------------------------------
(* Type correctness.                                                       *)

\* A handler that goes on or ends keeps the type of what handlers remember.
LEMMA JobUpdate ==
    ASSUME NEW w \in Workers, TypeOK, NEW j \in Job, job' = [job EXCEPT ![w] = j]
    PROVE  job' \in [Workers -> Job]
  BY DEF TypeOK

\* A handler that ends.
LEMMA FinishType ==
    ASSUME NEW w \in Workers, TypeOK, Finish(w)
    PROVE  job' \in [Workers -> Job]
<1>1. [op |-> "idle"] \in Job
  BY DEF Job
<1> QED BY <1>1, JobUpdate DEF Finish

\* Each kind of job, as a set of its own.
LEMMA JobIn ==
    /\ [op : {"plan"}, m : Members, sets : PlanColumns, plan : Plans \cup {None}, override : Nat \cup {None},
        joining : Nat \cup {None}] \subseteq Job
    /\ [op : {"submit"}, at : {"cas", "history"}, m : Members] \subseteq Job
    /\ [op : {"remove"} \cap Handlers, m : Members] \subseteq Job
    /\ PayJobs({"verify", "webhook"}, {"member"}, Captures, Plans \cup {None}, Status, {None}, {None}) \subseteq Job
    /\ PayJobs(PayOps, {"cas", "number"}, Captures \cup {None}, Plans, PayableStatuses, {None}, {None}) \subseteq Job
    /\ PayJobs(PayOps, {"receipt"}, Captures \cup {None}, Plans, PayableStatuses, Nat \cup {None}, {None}) \subseteq Job
    /\ PayJobs(PayOps, {"commit", "award"}, Captures \cup {None}, Plans, PayableStatuses, Nat \cup {None}, Nat) \subseteq Job
    /\ [op : {"upgrade"}, at : {"cas", "receipt"}, m : Members, plan : Plans, fee : Nat, to : Plans,
               receipt : {None}] \subseteq Job
    /\ [op : {"upgrade"}, at : {"commit"}, m : Members, plan : Plans, fee : Nat, to : Plans,
               receipt : Nat \cup {None}] \subseteq Job
    /\ [op : {"sweep"}, at : {"expire"}, todo : SUBSET Members, m : {None}] \subseteq Job
    /\ [op : {"sweep"}, at : {"history"}, todo : SUBSET Members, m : Members] \subseteq Job
    /\ [op : {"deceased"} \cap Handlers, m : Members, status : {"ACTIVE", "SUSPENDED"}] \subseteq Job
  BY DEF Job

\* History rows keep their type.
LEMMA TrailType ==
    ASSUME NEW m \in Members, NEW from, NEW to, TypeOK, MoveTrail(m, from, to)
    PROVE  trail' \in [Members -> [Status -> Int]]
<1> DEFINE row == [s \in Status |-> trail[m][s] + (IF s = to THEN 1 ELSE 0) - (IF s = from THEN 1 ELSE 0)]
<1>1. \A s \in Status : trail[m][s] \in Int
  BY DEF TypeOK
<1>2. row \in [Status -> Int]
  BY <1>1
<1>3. trail' = [trail EXCEPT ![m] = row]
  BY DEF MoveTrail
<1> QED BY <1>2, <1>3 DEF TypeOK

\* At the start every member is a draft, with whatever plan and fee.
LEMMA InitRows ==
    ASSUME Init
    PROVE  /\ member \in [Members -> MemberRow]
           /\ \A m \in Members : /\ member[m].status = "DRAFT" /\ member[m].number = None
                                /\ member[m].until = None /\ member[m].awards = 0
<1>1. PICK plan \in [Members -> Plans \cup {None}], override \in [Members -> Overrides \cup {None}] :
        member = [m \in Members |-> [NewDraft EXCEPT !.plan = plan[m], !.override = override[m]]]
  BY DEF Init
<1>2. ASSUME NEW m \in Members
      PROVE  /\ member[m] \in MemberRow
             /\ member[m].status = "DRAFT" /\ member[m].number = None
             /\ member[m].until = None /\ member[m].awards = 0
  <2>1. plan[m] \in Plans \cup {None} /\ override[m] \in Nat \cup {None}
    BY <1>1, <1>2, PlansAssumption
  <2>2. member[m] = [NewDraft EXCEPT !.plan = plan[m], !.override = override[m]]
    BY <1>1, <1>2
  <2>3. /\ member[m].status = "DRAFT" /\ member[m].number = None
        /\ member[m].until = None /\ member[m].awards = 0
    BY <2>2 DEF NewDraft
  <2>4. member[m] = [status |-> "DRAFT", plan |-> plan[m], override |-> override[m], joining |-> None,
                     until |-> None, number |-> None, rewards |-> {}, awards |-> 0]
    BY <2>2 DEF NewDraft
  <2>5. member[m] \in MemberRow
    BY <2>1, <2>4 DEF MemberRow, Status
  <2> QED BY <2>3, <2>5
<1> QED BY <1>1, <1>2

\* At the start every handler is idle.
LEMMA InitType == Init => TypeOK
<1> SUFFICES ASSUME Init PROVE TypeOK
  OBVIOUS
<1>1. member \in [Members -> MemberRow]
  BY InitRows
<1>2. trail \in [Members -> [Status -> Int]]
  <2>1. trail = [m \in Members |-> [s \in Status |-> 0]]
    BY DEF Init, EmptyTrail
  <2> QED BY <2>1
<1>3. job \in [Workers -> Job]
  BY DEF Init, Job
<1>4. order \in [Captures -> OrderRow]
  BY DEF Init, OrderRow
<1> QED BY <1>1, <1>2, <1>3, <1>4 DEF Init, TypeOK

\* Reading starts a handler and ends with one.
LEMMA ReadType ==
    ASSUME NEW w \in Workers, TypeOK, Start(w)
    PROVE  TypeOK'
<1> USE DEF Begin
<1>0. today \in Nat /\ \A m \in Members : member[m] \in MemberRow
  BY DEF TypeOK
<1>1. ASSUME NEW m \in Members, NEW p \in Plans, SelectPlanRead(w, m, p) PROVE TypeOK'
  <2> DEFINE j == [op |-> "plan", m |-> m, sets |-> {"plan"}, plan |-> p, override |-> None,
                   joining |-> IF member[m].joining = None THEN today ELSE member[m].joining]
  <2>1. j \in Job
    BY <1>0, JobIn DEF MemberRow, PlanColumns
  <2> QED BY <1>1, <2>1, JobUpdate DEF SelectPlanRead, database, TypeOK
<1>2. ASSUME NEW m \in Members, NEW sets \in PlanColumns, NEW p \in Plans \cup {None},
             NEW o \in Overrides \cup {None}, EditPlanRead(w, m, sets, p, o)
      PROVE  TypeOK'
  <2> DEFINE j == [op |-> "plan", m |-> m, sets |-> sets, plan |-> p, override |-> o, joining |-> None]
  <2>1. j \in Job
    BY JobIn
  <2> QED BY <1>2, <2>1, JobUpdate DEF EditPlanRead, database, TypeOK
<1>3. ASSUME NEW m \in Members, SubmitRead(w, m) PROVE TypeOK'
  <2>1. [op |-> "submit", at |-> "cas", m |-> m] \in Job
    BY JobIn
  <2> QED BY <1>3, <2>1, JobUpdate DEF SubmitRead, database, TypeOK
<1>4. ASSUME NEW m \in Members, RemoveRead(w, m) PROVE TypeOK'
  <2>1. [op |-> "remove", m |-> m] \in Job
    BY <1>4, JobIn DEF RemoveRead
  <2> QED BY <1>4, <2>1, JobUpdate DEF RemoveRead, database, TypeOK
<1>5. ASSUME NEW m \in Members, NEW p \in Plans, UpgradeRead(w, m, p) PROVE TypeOK'
  <2> DEFINE j == [op |-> "upgrade", at |-> "cas", m |-> m, plan |-> member[m].plan, fee |-> EffectiveFee(m),
                   to |-> p, receipt |-> None]
  <2>1. member[m].plan \in Plans /\ EffectiveFee(m) \in Nat
    BY <1>0, <1>5 DEF UpgradeRead, MemberRow, EffectiveFee
  <2>2. j \in [op : {"upgrade"}, at : {"cas", "receipt"}, m : Members, plan : Plans, fee : Nat, to : Plans,
               receipt : {None}]
    BY <2>1
  <2>3. j \in Job
    BY <2>2, JobIn
  <2> QED BY <1>5, <2>3, JobUpdate DEF UpgradeRead, database, TypeOK
<1>6. ASSUME NEW m \in Members, RecordPaymentRead(w, m) PROVE TypeOK'
  <2> DEFINE j == PayJob("manual", "cas", m, None, member[m].plan)
  <2>1. member[m].plan \in Plans /\ member[m].status \in PayableStatuses
    BY <1>0, <1>6 DEF RecordPaymentRead, IsPayable, MemberRow
  <2>2. j \in PayJobs(PayOps, {"cas", "number"}, Captures \cup {None}, Plans, PayableStatuses, {None}, {None})
    BY <1>0, <2>1 DEF PayJob, PayJobs, PayOps, MemberRow
  <2> QED BY <1>6, <2>2, JobIn, JobUpdate DEF RecordPaymentRead, database, TypeOK
<1>7. ASSUME NEW g \in Captures, NEW op \in {"verify", "webhook"}, GatewayFind(w, op, g) PROVE TypeOK'
  <2> DEFINE k == order[g].m
             j == PayJob(op, "member", order[g].m, g, order[g].plan)
  <2>1. k \in Members /\ order[g].plan \in Plans
    BY <1>7 DEF GatewayFind, TypeOK, OrderRow, NoOrder
  <2>2. member[k] \in MemberRow
    BY <2>1 DEF TypeOK
  <2>3. j \in PayJobs({"verify", "webhook"}, {"member"}, Captures, Plans \cup {None}, Status, {None}, {None})
    BY <1>0, <2>1, <2>2 DEF PayJob, PayJobs, MemberRow
  <2> QED BY <1>7, <2>3, JobIn, JobUpdate DEF GatewayFind, database, TypeOK
<1>8. CASE SweepFind(w)
  <2> DEFINE j == [op |-> "sweep", at |-> "expire", todo |-> OverdueMembers, m |-> None]
  <2>1. j \in Job
    BY JobIn DEF OverdueMembers
  <2> QED BY <1>8, <2>1, JobUpdate DEF SweepFind, database, TypeOK
<1>9. ASSUME NEW m \in Members, DeceasedRead(w, m) PROVE TypeOK'
  <2> DEFINE j == [op |-> "deceased", m |-> m, status |-> member[m].status]
  <2>1. j \in Job
    BY <1>9, JobIn DEF DeceasedRead
  <2> QED BY <1>9, <2>1, JobUpdate DEF DeceasedRead, database, TypeOK
<1> QED BY <1>1, <1>2, <1>3, <1>4, <1>5, <1>6, <1>7, <1>8, <1>9 DEF Start

\* A row whose status moves keeps its type.
LEMMA StatusType ==
    ASSUME NEW m \in Members, NEW s \in Status, TypeOK, member' = [member EXCEPT ![m].status = s]
    PROVE  member' \in [Members -> MemberRow]
<1>1. member[m] \in MemberRow
  BY DEF TypeOK
<1>2. [member[m] EXCEPT !.status = s] \in MemberRow
  BY <1>1 DEF MemberRow
<1> QED BY <1>2 DEF TypeOK

\* The handlers of MembersService and of a death.
LEMMA MembersType ==
    ASSUME NEW w \in Workers, TypeOK,
           PlanWrite(w) \/ SubmitCas(w) \/ SubmitHistory(w) \/ RemoveWrite(w) \/ DeceasedCas(w)
    PROVE  TypeOK'
<1> DEFINE m == job[w].m
<1>0. job[w] \in Job
  BY DEF TypeOK
<1>1. CASE PlanWrite(w)
  <2>1. /\ m \in Members /\ job[w].plan \in Plans \cup {None} /\ job[w].joining \in Nat \cup {None}
        /\ job[w].override \in Nat \cup {None}
    BY <1>0, <1>1 DEF PlanWrite, Job, PayJobs, PayOps
  <2>2. member[m] \in MemberRow
    BY <2>1 DEF TypeOK
  <2>3. PlannedRow(w) \in MemberRow
    <3> DEFINE p == IF "plan" \in job[w].sets THEN job[w].plan ELSE member[m].plan
               o == IF "override" \in job[w].sets THEN job[w].override ELSE member[m].override
               d == IF job[w].joining = None THEN member[m].joining ELSE job[w].joining
    <3>1. p \in Plans \cup {None} /\ o \in Nat \cup {None} /\ d \in Nat \cup {None}
      BY <2>1, <2>2 DEF MemberRow
    <3>2. PlannedRow(w) = [member[m] EXCEPT !.plan = p, !.override = o, !.joining = d]
      BY <2>2 DEF PlannedRow, MemberRow
    <3> HIDE DEF p, o, d
    <3>3. [member[m] EXCEPT !.plan = p, !.override = o, !.joining = d] \in MemberRow
      BY <2>2, <3>1 DEF MemberRow
    <3> QED BY <3>2, <3>3
  <2>4. member' \in [Members -> MemberRow]
    BY <1>1, <2>1, <2>2, <2>3 DEF PlanWrite, TypeOK
  <2> QED BY <1>1, <2>4, FinishType DEF PlanWrite, TypeOK
<1>2. CASE SubmitCas(w)
  <2>1. job[w] \in [op : {"submit"}, at : {"cas", "history"}, m : Members]
    BY <1>0, <1>2 DEF SubmitCas, At, Job, PayJobs, PayOps
  <2>2. CASE member[m].status = "DRAFT"
    <3>1. [job[w] EXCEPT !.at = "history"] \in Job
      <4>1. [job[w] EXCEPT !.at = "history"] \in [op : {"submit"}, at : {"cas", "history"}, m : Members]
        BY <2>1
      <4> QED BY <4>1, JobIn
    <3>2. member' \in [Members -> MemberRow]
      BY <1>2, <2>1, <2>2, StatusType DEF SubmitCas, Status
    <3>3. job' = [job EXCEPT ![w] = [job[w] EXCEPT !.at = "history"]]
      BY <1>2, <2>2 DEF SubmitCas, Goto, TypeOK
    <3> QED BY <1>2, <3>1, <3>2, <3>3, JobUpdate DEF SubmitCas, TypeOK
  <2> QED BY <1>2, <2>2, FinishType DEF SubmitCas, TypeOK
<1>3. CASE SubmitHistory(w)
  <2>1. m \in Members
    BY <1>0, <1>3 DEF SubmitHistory, At, Job, PayJobs, PayOps
  <2>2. trail' \in [Members -> [Status -> Int]]
    BY <1>3, <2>1, TrailType DEF SubmitHistory, TypeOK
  <2> QED BY <1>3, <2>2, FinishType DEF SubmitHistory, TypeOK
<1>4. CASE RemoveWrite(w)
  <2>1. NoRow \in MemberRow /\ EmptyTrail \in [Status -> Int]
    BY DEF NoRow, NewDraft, MemberRow, Status, EmptyTrail
  <2> QED BY <1>4, <2>1, FinishType DEF RemoveWrite, TypeOK
<1>5. CASE DeceasedCas(w)
  <2>1. m \in Members
    BY <1>0, <1>5 DEF DeceasedCas, Job, PayJobs, PayOps
  <2>2. CASE member[m].status \in {"ACTIVE", "SUSPENDED"}
    <3>1. member' \in [Members -> MemberRow]
      BY <1>5, <2>1, <2>2, StatusType DEF DeceasedCas, Status
    <3>2. trail' \in [Members -> [Status -> Int]]
      BY <1>5, <2>1, <2>2, TrailType DEF DeceasedCas
    <3> QED BY <1>5, <3>1, <3>2, FinishType DEF DeceasedCas, TypeOK
  <2> QED BY <1>5, <2>2, FinishType DEF DeceasedCas, TypeOK
<1> QED BY <1>1, <1>2, <1>3, <1>4, <1>5

\* The end of a validity is a day.
LEMMA ValidityType ==
    ASSUME NEW p \in Plans, NEW d \in Nat
    PROVE  EndOfValidity(p, d) \in Nat \cup {None} /\ TiersUpTo(p) \in SUBSET Nat
<1>1. Validity[p] \in Nat /\ Tier[p] \in Nat
  OBVIOUS
<1> QED BY <1>1 DEF EndOfValidity, TiersUpTo

\* finalizePayment up to its commit.
LEMMA FinalizeType ==
    ASSUME NEW w \in Workers, TypeOK,
           GatewayReadMember(w) \/ FinalizeCas(w) \/ AllocateMembershipNumber(w)
    PROVE  TypeOK'
<1> USE DEF PayJobs, PayOps
<1>0. job[w] \in Job /\ today \in Nat
  BY DEF TypeOK
<1>1. CASE GatewayReadMember(w)
  <2> DEFINE m == job[w].m
             j == PayJob(job[w].op, "cas", m, job[w].g, job[w].quoted)
  <2>1. /\ job[w].op \in {"verify", "webhook"} /\ m \in Members
        /\ job[w].g \in Captures /\ job[w].quoted \in Plans
    BY <1>0, <1>1 DEF GatewayReadMember, At, Job
  <2>2. CASE IsPayable(m)
    <3>1. member[m] \in MemberRow
      BY <2>1 DEF TypeOK
    <3>2. member[m].plan \in Plans /\ member[m].status \in PayableStatuses
      BY <2>2, <3>1 DEF IsPayable, MemberRow
    <3>3. j \in PayJobs(PayOps, {"cas", "number"}, Captures \cup {None}, Plans, PayableStatuses, {None}, {None})
      BY <1>0, <2>1, <3>1, <3>2 DEF PayJob, MemberRow
    <3>4. job' = [job EXCEPT ![w] = j]
      BY <1>1, <2>2 DEF GatewayReadMember
    <3> QED BY <1>1, <3>3, <3>4, JobIn, JobUpdate DEF GatewayReadMember, database, TypeOK
  <2> QED BY <1>1, <2>2, FinishType DEF GatewayReadMember, database, TypeOK
<1>2. CASE FinalizeCas(w)
  <2> DEFINE j == [job[w] EXCEPT !.at = IF Activates(w) THEN "number" ELSE "receipt",
                                 !.day = IF Activates(w) THEN today ELSE @]
  <2>1. job[w] \in PayJobs(PayOps, {"cas"}, Captures \cup {None}, Plans, PayableStatuses, {None}, {None})
    BY <1>0, <1>2 DEF FinalizeCas, At, Job
  <2>2. CASE CasMatches(w) /\ (Activates(w) \/ HasValidity(job[w].plan))
    <3>1. j \in PayJobs(PayOps, {"number", "receipt"}, Captures \cup {None}, Plans, PayableStatuses, {None}, {None})
      BY <1>0, <2>1
    <3>2. j \in Job
      BY <3>1 DEF Job
    <3>3. job' = [job EXCEPT ![w] = j]
      BY <1>2, <2>2 DEF FinalizeCas, TypeOK
    <3> QED BY <1>2, <3>2, <3>3, JobUpdate DEF FinalizeCas, database, TypeOK
  <2> QED BY <1>2, <2>2, FinishType DEF FinalizeCas, database, TypeOK
<1>3. CASE AllocateMembershipNumber(w)
  <2> DEFINE j == [job[w] EXCEPT !.number = membershipSeq + 1, !.at = "receipt"]
  <2>1. job[w] \in PayJobs(PayOps, {"number"}, Captures \cup {None}, Plans, PayableStatuses, {None}, {None})
    BY <1>0, <1>3 DEF AllocateMembershipNumber, At, Job
  <2>2. membershipSeq + 1 \in Nat
    BY DEF TypeOK
  <2>3. j \in PayJobs(PayOps, {"receipt"}, Captures \cup {None}, Plans, PayableStatuses, Nat \cup {None}, {None})
    BY <2>1, <2>2
  <2>4. job' = [job EXCEPT ![w] = j]
    BY <1>3 DEF AllocateMembershipNumber, TypeOK
  <2> QED BY <1>3, <2>2, <2>3, <2>4, JobIn, JobUpdate DEF AllocateMembershipNumber, TypeOK
<1> QED BY <1>1, <1>2, <1>3

\* The receipt number, of a payment and of an upgrade.
LEMMA ReceiptType ==
    ASSUME NEW w \in Workers, TypeOK, AllocateReceipt(w)
    PROVE  TypeOK'
<1> DEFINE j == [job[w] EXCEPT !.receipt = NextReceipt, !.at = "commit"]
<1>1. job[w] \in Job /\ NextReceipt \in Nat
  BY DEF TypeOK, NextReceipt
<1>2. job' = [job EXCEPT ![w] = j]
  BY DEF AllocateReceipt, TypeOK
<1>3. j \in Job
  <2>1. CASE job[w].op = "upgrade"
    <3>1. job[w] \in [op : {"upgrade"}, at : {"receipt"}, m : Members, plan : Plans, fee : Nat, to : Plans,
               receipt : {None}]
      BY <1>1, <2>1 DEF AllocateReceipt, At, Job, PayJobs, PayOps
    <3>2. j \in [op : {"upgrade"}, at : {"commit"}, m : Members, plan : Plans, fee : Nat, to : Plans,
               receipt : Nat \cup {None}]
      BY <1>1, <3>1
    <3> QED BY <3>2, JobIn
  <2>2. CASE job[w].op \in PayOps
    <3>1. job[w] \in PayJobs(PayOps, {"receipt"}, Captures \cup {None}, Plans, PayableStatuses, Nat \cup {None}, {None})
      BY <1>1, <2>2 DEF AllocateReceipt, At, Job, PayJobs, PayOps
    <3>2. j \in PayJobs(PayOps, {"commit", "award"}, Captures \cup {None}, Plans, PayableStatuses, Nat \cup {None}, Nat)
      BY <1>1, <3>1 DEF PayJobs
    <3> QED BY <3>2, JobIn
  <2> QED BY <2>1, <2>2 DEF AllocateReceipt, At
<1>4. receiptSeq' \in Nat
  BY DEF AllocateReceipt, TypeOK
<1> QED BY <1>2, <1>3, <1>4, JobUpdate DEF AllocateReceipt, TypeOK

\* The rows a commit writes.
LEMMA CommitRows ==
    ASSUME NEW w \in Workers, TypeOK, At(w, PayOps, "commit")
    PROVE  /\ job[w].m \in Members
           /\ Payment(w) \in PaymentRow
           /\ ActivatedRow(w) \in MemberRow
           /\ RenewedRow(w) \in MemberRow
<1>1. job[w] \in PayJobs(PayOps, {"commit"}, Captures \cup {None}, Plans, PayableStatuses, Nat \cup {None}, Nat)
  <2>1. job[w] \in Job
    BY DEF TypeOK
  <2> QED BY <2>1 DEF At, Job, PayJobs, PayOps
<1>2. /\ job[w].m \in Members /\ member[job[w].m] \in MemberRow /\ job[w].plan \in Plans /\ job[w].day \in Nat
      /\ job[w].joining \in Nat \cup {None} /\ job[w].number \in Nat \cup {None}
  BY <1>1 DEF TypeOK, PayJobs
<1>3. Payment(w) \in PaymentRow
  BY <1>1 DEF Payment, PayJobs, PaymentRow
<1>4. ActivatedRow(w) \in MemberRow
  <2> DEFINE joining == IF job[w].joining = None THEN job[w].day ELSE job[w].joining
  <2>1. joining \in Nat
    BY <1>2
  <2>2. EndOfValidity(job[w].plan, joining) \in Nat \cup {None} /\ TiersUpTo(job[w].plan) \in SUBSET Nat
    BY <1>2, <2>1, ValidityType
  <2> DEFINE until == EndOfValidity(job[w].plan, joining)
             rewards == member[job[w].m].rewards \cup TiersUpTo(job[w].plan)
             row == [member[job[w].m] EXCEPT !.status = "ACTIVE", !.number = job[w].number, !.joining = joining,
                                             !.until = until, !.rewards = rewards]
  <2>3. ActivatedRow(w) = row
    BY <1>2 DEF ActivatedRow, MemberRow
  <2>4. until \in Nat \cup {None} /\ rewards \in SUBSET Nat
    BY <1>2, <2>2 DEF MemberRow
  <2> HIDE DEF joining, until, rewards
  <2>5. row \in MemberRow
    BY <1>2, <2>1, <2>4 DEF MemberRow, Status
  <2> QED BY <2>3, <2>5
<1>5. RenewedRow(w) \in MemberRow
  <2>1. EndOfValidity(job[w].plan, job[w].day) \in Nat \cup {None}
    BY <1>2, ValidityType
  <2> QED BY <1>2, <2>1 DEF RenewedRow, MemberRow, Status
<1> QED BY <1>2, <1>3, <1>4, <1>5

\* The end of finalizePayment.
LEMMA CommitType ==
    ASSUME NEW w \in Workers, TypeOK,
           FinalizeCommit(w) \/ FinalizeDuplicate(w) \/ AwardPoints(w)
    PROVE  TypeOK'
<1>0. job[w] \in Job
  BY DEF TypeOK
<1>1. CASE FinalizeCommit(w)
  <2>1. At(w, PayOps, "commit")
    BY <1>1 DEF FinalizeCommit
  <2>2. job[w] \in PayJobs(PayOps, {"commit", "award"}, Captures \cup {None}, Plans, PayableStatuses, Nat \cup {None}, Nat)
    BY <1>0, <2>1 DEF At, Job, PayJobs, PayOps
  <2>3. job' \in [Workers -> Job]
    <3> DEFINE j == [job[w] EXCEPT !.at = "award"]
    <3>1. j \in PayJobs(PayOps, {"commit", "award"}, Captures \cup {None}, Plans, PayableStatuses, Nat \cup {None}, Nat)
      BY <2>2 DEF PayJobs
    <3>2. CASE job' = [job EXCEPT ![w] = j]
      BY <3>1, <3>2, JobIn, JobUpdate
    <3> QED BY <1>1, <3>2, FinishType DEF FinalizeCommit, Goto, TypeOK
  <2>4. member' \in [Members -> MemberRow]
    BY <1>1, <2>1, CommitRows DEF FinalizeCommit, TypeOK
  <2>5. payments' \subseteq PaymentRow
    BY <1>1, <2>1, CommitRows DEF FinalizeCommit, TypeOK
  <2>6. trail' \in [Members -> [Status -> Int]]
    BY <1>1, <2>1, CommitRows, TrailType DEF FinalizeCommit
  <2> QED BY <1>1, <2>3, <2>4, <2>5, <2>6 DEF FinalizeCommit, TypeOK
<1>2. CASE FinalizeDuplicate(w)
  BY <1>2, FinishType DEF FinalizeDuplicate, database, TypeOK
<1>3. CASE AwardPoints(w)
  <2> DEFINE m == job[w].m
             row == [member[m] EXCEPT !.awards = IF Exists(m) THEN @ + 1 ELSE @]
  <2>1. m \in Members
    BY <1>0, <1>3 DEF AwardPoints, At, Job, PayJobs, PayOps
  <2>2. member[m] \in MemberRow
    BY <2>1 DEF TypeOK
  <2>3. row \in MemberRow
    BY <2>2 DEF MemberRow
  <2>4. member' = [member EXCEPT ![m] = row]
    BY <1>3 DEF AwardPoints, TypeOK
  <2>5. member' \in [Members -> MemberRow]
    BY <2>3, <2>4 DEF TypeOK
  <2> QED BY <1>3, <2>5, FinishType DEF AwardPoints, TypeOK
<1> QED BY <1>1, <1>2, <1>3

\* The rows an upgrade writes.
LEMMA UpgradeRows ==
    ASSUME NEW w \in Workers, TypeOK, UpgradeCommit(w)
    PROVE  /\ job[w].m \in Members
           /\ member' = [member EXCEPT ![job[w].m] = [member[job[w].m] EXCEPT !.plan = job[w].to,
                                                       !.override = None,
                                                       !.rewards = @ \cup TiersUpTo(job[w].to)]]
           /\ member' \in [Members -> MemberRow]
           /\ payments' \subseteq PaymentRow
<1> DEFINE m == job[w].m
           row == [member[m] EXCEPT !.plan = job[w].to, !.override = None, !.rewards = @ \cup TiersUpTo(job[w].to)]
           payment == [receipt |-> job[w].receipt, m |-> m, g |-> None, plan |-> job[w].to, kind |-> "upgrade"]
<1>1. job[w] \in [op : {"upgrade"}, at : {"commit"}, m : Members, plan : Plans, fee : Nat, to : Plans,
               receipt : Nat \cup {None}]
  <2>1. job[w] \in Job
    BY DEF TypeOK
  <2> QED BY <2>1 DEF UpgradeCommit, At, Job, PayJobs, PayOps
<1>2. m \in Members /\ job[w].to \in Plans /\ job[w].receipt \in Nat \cup {None}
  BY <1>1
<1>3. member[m] \in MemberRow /\ TiersUpTo(job[w].to) \in SUBSET Nat
  BY <1>2, ValidityType DEF TypeOK
<1>4. row \in MemberRow
  BY <1>2, <1>3 DEF MemberRow
<1>5. member' = [member EXCEPT ![m] = row]
  BY DEF UpgradeCommit, TypeOK
<1>6. member' \in [Members -> MemberRow]
  BY <1>4, <1>5 DEF TypeOK
<1>7. payments' \subseteq PaymentRow
  <2>1. CASE job[w].receipt = None
    BY <2>1 DEF UpgradeCommit, TypeOK
  <2>2. CASE job[w].receipt # None
    <3>1. payment \in PaymentRow
      BY <1>2, <2>2 DEF PaymentRow
    <3> QED BY <2>2, <3>1 DEF UpgradeCommit, TypeOK
  <2> QED BY <2>1, <2>2
<1> QED BY <1>2, <1>5, <1>6, <1>7

\* upgradePlan.
LEMMA UpgradeType ==
    ASSUME NEW w \in Workers, TypeOK, UpgradeCas(w) \/ UpgradeCommit(w)
    PROVE  TypeOK'
<1>1. CASE UpgradeCas(w)
  <2> DEFINE j == [job[w] EXCEPT !.at = IF Fee[job[w].to] > job[w].fee THEN "receipt" ELSE "commit"]
  <2>1. job[w] \in [op : {"upgrade"}, at : {"cas", "receipt"}, m : Members, plan : Plans, fee : Nat, to : Plans,
               receipt : {None}]
    <3>1. job[w] \in Job
      BY DEF TypeOK
    <3> QED BY <1>1, <3>1 DEF UpgradeCas, At, Job, PayJobs, PayOps
  <2>2. j \in Job
    <3>1. CASE Fee[job[w].to] > job[w].fee
      BY <2>1, <3>1 DEF Job
    <3>2. CASE ~(Fee[job[w].to] > job[w].fee)
      BY <2>1, <3>2 DEF Job
    <3> QED BY <3>1, <3>2
  <2>3. CASE UpgradeMatches(w)
    <3>1. job' = [job EXCEPT ![w] = j]
      BY <1>1, <2>3 DEF UpgradeCas, Goto, TypeOK
    <3> QED BY <1>1, <2>2, <3>1, JobUpdate DEF UpgradeCas, database, TypeOK
  <2> QED BY <1>1, <2>3, FinishType DEF UpgradeCas, database, TypeOK
<1>2. CASE UpgradeCommit(w)
  BY <1>2, UpgradeRows, FinishType DEF UpgradeCommit, TypeOK
<1> QED BY <1>1, <1>2

\* The daily job.
LEMMA ContinueType ==
    ASSUME NEW w \in Workers, NEW todo \in SUBSET Members, TypeOK, Continue(w, todo)
    PROVE  job' \in [Workers -> Job]
<1>1. [op |-> "sweep", at |-> "expire", todo |-> todo, m |-> None] \in Job
  BY JobIn
<1> QED BY <1>1, FinishType, JobUpdate DEF Continue

\* The daily job and its history rows.
LEMMA SweepType ==
    ASSUME NEW w \in Workers, TypeOK, SweepHistory(w) \/ \E m \in Members : SweepExpire(w, m)
    PROVE  TypeOK'
<1>0. job[w] \in Job
  BY DEF TypeOK
<1>1. ASSUME NEW m \in Members, SweepExpire(w, m) PROVE TypeOK'
  <2>1. job[w] \in [op : {"sweep"}, at : {"expire"}, todo : SUBSET Members, m : {None}]
    BY <1>0, <1>1 DEF SweepExpire, At, Job, PayJobs, PayOps
  <2>2. job[w].todo \ {m} \in SUBSET Members
    BY <2>1
  <2>3. CASE member[m].status = "ACTIVE"
    <3> DEFINE j == [job[w] EXCEPT !.at = "history", !.m = m, !.todo = @ \ {m}]
    <3>1. j \in [op : {"sweep"}, at : {"history"}, todo : SUBSET Members, m : Members]
      BY <2>1
    <3>2. job' = [job EXCEPT ![w] = j]
      BY <1>1, <2>3 DEF SweepExpire, TypeOK
    <3>3. member' \in [Members -> MemberRow]
      BY <1>1, <2>3, StatusType DEF SweepExpire, Status
    <3> QED BY <1>1, <3>1, <3>2, <3>3, JobIn, JobUpdate DEF SweepExpire, TypeOK
  <2>4. CASE member[m].status # "ACTIVE"
    BY <1>1, <2>2, <2>4, ContinueType DEF SweepExpire, TypeOK
  <2> QED BY <2>3, <2>4
<1>2. CASE SweepHistory(w)
  <2>1. job[w].m \in Members /\ job[w].todo \in SUBSET Members
    BY <1>0, <1>2 DEF SweepHistory, At, Job, PayJobs, PayOps
  <2>2. CASE Exists(job[w].m)
    BY <1>2, <2>1, <2>2, ContinueType, TrailType DEF SweepHistory, TypeOK
  <2> QED BY <1>2, <2>2, FinishType DEF SweepHistory, TypeOK
<1> QED BY <1>1, <1>2

\* Razorpay, staff changing a status, the calendar, and failures.
LEMMA EnvironmentType ==
    ASSUME TypeOK, Environment
    PROVE  TypeOK'
<1>1. ASSUME NEW m \in Members, NEW g \in Captures, CreateOrder(m, g) PROVE TypeOK'
  <2>1. member[m] \in MemberRow /\ member[m].plan \in Plans
    BY <1>1 DEF CreateOrder, IsPayable, TypeOK, MemberRow
  <2>2. [state |-> "created", m |-> m, plan |-> member[m].plan] \in OrderRow
    BY <2>1 DEF OrderRow
  <2> QED BY <1>1, <2>2 DEF CreateOrder, TypeOK
<1>2. ASSUME NEW g \in Captures, Capture(g) PROVE TypeOK'
  <2>1. order[g] \in [state : {"created", "captured"}, m : Members, plan : Plans]
    BY <1>2 DEF Capture, TypeOK, OrderRow, NoOrder
  <2>2. [order[g] EXCEPT !.state = "captured"] \in OrderRow
    BY <2>1 DEF OrderRow
  <2>3. order' = [order EXCEPT ![g] = [order[g] EXCEPT !.state = "captured"]]
    BY <1>2 DEF Capture, TypeOK
  <2> QED BY <1>2, <2>2, <2>3 DEF Capture, TypeOK
<1>3. ASSUME NEW m \in Members, Suspend(m) \/ Reactivate(m) PROVE TypeOK'
  <2>1. PICK from \in Status, to \in Status : Transition(m, from, to)
    BY <1>3 DEF Suspend, Reactivate, Status
  <2>2. member' \in [Members -> MemberRow] /\ trail' \in [Members -> [Status -> Int]]
    BY <2>1, StatusType, TrailType DEF Transition
  <2> QED BY <2>1, <2>2 DEF Transition, TypeOK
<1>4. CASE NextDay
  BY <1>4 DEF NextDay, TypeOK
<1> QED BY <1>1, <1>2, <1>3, <1>4 DEF Environment

\* Every step, and the stuttering one.
LEMMA NextType == TypeOK /\ [Next]_vars => TypeOK'
<1> SUFFICES ASSUME TypeOK, [Next]_vars PROVE TypeOK'
  OBVIOUS
<1>1. ASSUME NEW w \in Workers, Start(w) PROVE TypeOK'
  BY <1>1, ReadType
<1>2. ASSUME NEW w \in Workers, Proceed(w) PROVE TypeOK'
  BY <1>2, MembersType, FinalizeType, ReceiptType, CommitType, UpgradeType, SweepType DEF Proceed
<1>3. ASSUME NEW w \in Workers, Abort(w) PROVE TypeOK'
  BY <1>3, FinishType DEF Abort, TypeOK
<1>4. CASE UNCHANGED vars
  BY <1>4 DEF vars, database, TypeOK
<1> QED BY <1>1, <1>2, <1>3, <1>4, EnvironmentType DEF Next

\* Every variable keeps its type.
THEOREM TypeCorrect == Spec => []TypeOK
BY InitType, NextType, PTL DEF Spec

-----------------------------------------------------------------------------
(* The kinds of step.  Most leave fees, numbers and open transactions alone *)
(* (Background); the others are named.                                      *)

AwardDue(w) == At(w, PayOps, "award")
Quiet(w) == job'[w] = job[w] \/ (~InTx(w)' /\ ~AwardDue(w)')

StatusMove(m) ==
    \/ member'[m].status = member[m].status
    \/ member[m].status = "DRAFT" /\ member'[m].status = "AWAITING_PAYMENT"
    \/ member[m].status = "ACTIVE" /\ member'[m].status \in {"EXPIRED", "SUSPENDED", "DECEASED"}
    \/ member[m].status = "SUSPENDED" /\ member'[m].status \in {"ACTIVE", "DECEASED"}

KeepsFees(m) ==
    /\ member'[m].number = member[m].number
    /\ member'[m].until = member[m].until
    /\ member'[m].awards = member[m].awards
    /\ StatusMove(m)
    /\ Locked(m) => member'[m].status = member[m].status /\ member'[m].plan = member[m].plan

Background ==
    /\ UNCHANGED <<payments, membershipSeq, receiptSeq>>
    /\ \A m \in Members : KeepsFees(m)
    /\ \A w \in Workers : Quiet(w)

OpensPayment(w) == FinalizeCas(w) /\ CasMatches(w) /\ (Activates(w) \/ HasValidity(job[w].plan))
OpensUpgrade(w) == UpgradeCas(w) /\ UpgradeMatches(w)

FeeStep(w) ==
    \/ OpensPayment(w) \/ OpensUpgrade(w) \/ AllocateMembershipNumber(w) \/ AllocateReceipt(w)
    \/ FinalizeCommit(w) \/ UpgradeCommit(w) \/ AwardPoints(w)

\* A worker that is not in a transaction after its step, and owes no award, has
\* disturbed no other.
LEMMA QuietJob ==
    ASSUME NEW w \in Workers, TypeOK, NEW j, job' = [job EXCEPT ![w] = j],
           \/ j.op \notin PayOps \cup {"upgrade"}
           \/ j.at \notin {"number", "receipt", "commit", "award"}
    PROVE  \A v \in Workers : Quiet(v)
  BY DEF TypeOK, Quiet, InTx, AwardDue, At

\* A handler that ends leaves nothing open.
LEMMA QuietFinish ==
    ASSUME NEW w \in Workers, TypeOK, Finish(w)
    PROVE  \A v \in Workers : Quiet(v)
<1>1. [op |-> "idle"].op \notin PayOps \cup {"upgrade"}
  BY DEF PayOps
<1> QED BY <1>1, QuietJob DEF Finish

\* Nor does a step without a worker.
LEMMA QuietUnchanged ==
    ASSUME UNCHANGED job
    PROVE  \A v \in Workers : Quiet(v)
  BY DEF Quiet

\* A step that leaves the rows alone keeps their fees.
LEMMA KeepsUnchanged ==
    ASSUME UNCHANGED member
    PROVE  \A m \in Members : KeepsFees(m)
  BY DEF KeepsFees, StatusMove

\* A status change outside transactions, by submitting, by the daily job or by staff.
LEMMA KeepsStatus ==
    ASSUME TypeOK, NEW m \in Members, NEW s, member' = [member EXCEPT ![m].status = s], ~Locked(m),
           \/ member[m].status = "DRAFT" /\ s = "AWAITING_PAYMENT"
           \/ member[m].status = "ACTIVE" /\ s \in {"EXPIRED", "SUSPENDED", "DECEASED"}
           \/ member[m].status = "SUSPENDED" /\ s \in {"ACTIVE", "DECEASED"}
    PROVE  \A k \in Members : KeepsFees(k)
<1>1. member[m] \in MemberRow
  BY DEF TypeOK
<1>2. ASSUME NEW k \in Members, k # m PROVE member'[k] = member[k]
  BY <1>2 DEF TypeOK
<1>3. member'[m] = [member[m] EXCEPT !.status = s]
  BY DEF TypeOK
<1>4. KeepsFees(m)
  BY <1>1, <1>3 DEF KeepsFees, StatusMove, MemberRow
<1>5. ASSUME NEW k \in Members, k # m PROVE KeepsFees(k)
  BY <1>2, <1>5 DEF KeepsFees, StatusMove
<1> QED BY <1>4, <1>5

\* Reading is background.
LEMMA StartBackground ==
    ASSUME NEW w \in Workers, TypeOK, Start(w)
    PROVE  Background
<1>1. UNCHANGED database
  BY DEF Start, SelectPlanRead, EditPlanRead, UpgradeRead, SubmitRead, RemoveRead, RecordPaymentRead, DeceasedRead,
         GatewayFind, SweepFind
<1> DEFINE Begins(j) == Begin(w, j) /\ (j.op \notin PayOps \cup {"upgrade"} \/ j.at \in {"member", "cas"})
<1>2. \E j : Begins(j)
  <2>1. ASSUME NEW m \in Members, NEW sets, NEW p, NEW o, SelectPlanRead(w, m, p) \/ EditPlanRead(w, m, sets, p, o)
        PROVE  \E j : Begins(j)
    <3>1. ASSUME NEW j, j.op = "plan", Begin(w, j) PROVE \E k : Begins(k)
      <4>1. Begins(j)
        BY <3>1 DEF PayOps
      <4> QED BY <4>1
    <3> QED BY <2>1, <3>1 DEF SelectPlanRead, EditPlanRead
  <2>2. ASSUME NEW m \in Members, SubmitRead(w, m) PROVE \E j : Begins(j)
    <3>1. Begins([op |-> "submit", at |-> "cas", m |-> m])
      BY <2>2 DEF SubmitRead, PayOps
    <3> QED BY <3>1
  <2>3. ASSUME NEW m \in Members, RemoveRead(w, m) PROVE \E j : Begins(j)
    <3>1. Begins([op |-> "remove", m |-> m])
      BY <2>3 DEF RemoveRead, PayOps
    <3> QED BY <3>1
  <2>4. ASSUME NEW m \in Members, NEW p, UpgradeRead(w, m, p) PROVE \E j : Begins(j)
    <3>1. Begins([op |-> "upgrade", at |-> "cas", m |-> m, plan |-> member[m].plan, fee |-> EffectiveFee(m),
                  to |-> p, receipt |-> None])
      BY <2>4 DEF UpgradeRead
    <3> QED BY <3>1
  <2>5. ASSUME NEW m \in Members, RecordPaymentRead(w, m) PROVE \E j : Begins(j)
    <3>1. Begins(PayJob("manual", "cas", m, None, member[m].plan))
      BY <2>5 DEF RecordPaymentRead, PayJob
    <3> QED BY <3>1
  <2>6. ASSUME NEW g \in Captures, NEW op, GatewayFind(w, op, g) PROVE \E j : Begins(j)
    <3>1. Begins(PayJob(op, "member", order[g].m, g, order[g].plan))
      BY <2>6 DEF GatewayFind, PayJob
    <3> QED BY <3>1
  <2>7. CASE SweepFind(w)
    <3>1. Begins([op |-> "sweep", at |-> "expire", todo |-> OverdueMembers, m |-> None])
      BY <2>7 DEF SweepFind, PayOps
    <3> QED BY <3>1
  <2>8. ASSUME NEW m \in Members, DeceasedRead(w, m) PROVE \E j : Begins(j)
    <3>1. Begins([op |-> "deceased", m |-> m, status |-> member[m].status])
      BY <2>8 DEF DeceasedRead, PayOps
    <3> QED BY <3>1
  <2> QED BY <2>1, <2>2, <2>3, <2>4, <2>5, <2>6, <2>7, <2>8 DEF Start
<1> QED BY <1>1, <1>2, QuietJob, KeepsUnchanged DEF Background, database, Begin

\* What a handler has at hand in a payment, by the state it is in.
LEMMA PayJobFields ==
    ASSUME NEW w \in Workers, TypeOK, job[w].op \in PayOps
    PROVE  /\ job[w].m \in Members /\ job[w].quoted \in Plans /\ job[w].g \in Captures \cup {None}
           /\ job[w].at \in {"member", "cas", "number", "receipt", "commit", "award"}
           /\ job[w].at # "member" => job[w].status \in PayableStatuses /\ job[w].plan \in Plans
           /\ job[w].at \in {"member", "cas", "number"} => job[w].number = None
           /\ job[w].at \in {"member", "cas", "number", "receipt"} => job[w].receipt = None
           /\ job[w].at \in {"commit", "award"} => job[w].receipt \in Nat
           /\ job[w].number \in Nat \cup {None} /\ job[w].day \in Nat
           /\ job[w].until \in Nat \cup {None} /\ job[w].joining \in Nat \cup {None}
<1>1. job[w] \in Job
  BY DEF TypeOK
<1> QED BY <1>1 DEF Job, PayJobs, PayOps, PayableStatuses

\* The same for an upgrade.
LEMMA UpgradeJobFields ==
    ASSUME NEW w \in Workers, TypeOK, job[w].op = "upgrade"
    PROVE  /\ job[w].m \in Members /\ job[w].plan \in Plans /\ job[w].to \in Plans
           /\ job[w].at \in {"cas", "receipt", "commit"}
           /\ job[w].at # "commit" => job[w].receipt = None
           /\ job[w].receipt \in Nat \cup {None}
<1>1. job[w] \in Job
  BY DEF TypeOK
<1> QED BY <1>1 DEF Job, PayJobs, PayOps

\* A handler that goes on is in the background, takes a fee step, or deletes.
LEMMA ProceedKinds ==
    ASSUME NEW w \in Workers, TypeOK, Proceed(w)
    PROVE  Background \/ FeeStep(w) \/ RemoveWrite(w)
<1>0. job[w] \in Job
  BY DEF TypeOK
<1>1. CASE PlanWrite(w)
  <2>1. job[w].m \in Members
    BY <1>0, <1>1 DEF PlanWrite, Job, PayJobs, PayOps
  <2>2. member[job[w].m] \in MemberRow
    BY <2>1 DEF TypeOK
  <2>3. ASSUME NEW k \in Members, k # job[w].m PROVE KeepsFees(k)
    BY <1>1, <2>3 DEF PlanWrite, TypeOK, KeepsFees, StatusMove
  <2>4. KeepsFees(job[w].m)
    <3>1. member'[job[w].m] = PlannedRow(w) \/ member'[job[w].m] = member[job[w].m]
      BY <1>1, <2>1 DEF PlanWrite, TypeOK
    <3> QED BY <1>1, <2>2, <3>1 DEF PlanWrite, PlannedRow, KeepsFees, StatusMove, MemberRow
  <2> QED BY <1>1, <2>3, <2>4, QuietFinish DEF PlanWrite, Background
<1>2. CASE SubmitCas(w)
  <2>1. job[w] \in [op : {"submit"}, at : {"cas", "history"}, m : Members]
    BY <1>0, <1>2 DEF SubmitCas, At, Job, PayJobs, PayOps
  <2>2. CASE member[job[w].m].status = "DRAFT"
    <3> DEFINE j == [job[w] EXCEPT !.at = "history"]
    <3>1. job' = [job EXCEPT ![w] = j]
      BY <1>2, <2>2 DEF SubmitCas, Goto, TypeOK
    <3>2. j.op \notin PayOps \cup {"upgrade"}
      BY <2>1 DEF PayOps
    <3>3. \A v \in Workers : Quiet(v)
      BY <3>1, <3>2, QuietJob
    <3>4. \A k \in Members : KeepsFees(k)
      BY <1>2, <2>1, <2>2, KeepsStatus DEF SubmitCas
    <3> QED BY <1>2, <3>3, <3>4 DEF SubmitCas, Background
  <2>3. CASE member[job[w].m].status # "DRAFT"
    BY <1>2, <2>3, QuietFinish, KeepsUnchanged DEF SubmitCas, Background
  <2> QED BY <2>2, <2>3
<1>3. CASE SubmitHistory(w)
  BY <1>3, QuietFinish, KeepsUnchanged DEF SubmitHistory, Background
<1>4. CASE GatewayReadMember(w)
  <2>1. CASE IsPayable(job[w].m)
    <3> DEFINE j == PayJob(job[w].op, "cas", job[w].m, job[w].g, job[w].quoted)
    <3>1. job' = [job EXCEPT ![w] = j] /\ j.at = "cas"
      BY <1>4, <2>1 DEF GatewayReadMember, PayJob, TypeOK
    <3>2. \A v \in Workers : Quiet(v)
      BY <3>1, QuietJob
    <3> QED BY <1>4, <3>2, KeepsUnchanged DEF GatewayReadMember, Background, database
  <2>2. CASE ~IsPayable(job[w].m)
    BY <1>4, <2>2, QuietFinish, KeepsUnchanged DEF GatewayReadMember, Background, database
  <2> QED BY <2>1, <2>2
<1>5. CASE FinalizeCas(w)
  <2>1. CASE ~(CasMatches(w) /\ (Activates(w) \/ HasValidity(job[w].plan)))
    BY <1>5, <2>1, QuietFinish, KeepsUnchanged DEF FinalizeCas, Background, database
  <2> QED BY <1>5, <2>1 DEF FeeStep, OpensPayment
<1>6. CASE FinalizeDuplicate(w)
  BY <1>6, QuietFinish, KeepsUnchanged DEF FinalizeDuplicate, Background, database
<1>7. CASE UpgradeCas(w)
  <2>1. CASE ~UpgradeMatches(w)
    BY <1>7, <2>1, QuietFinish, KeepsUnchanged DEF UpgradeCas, Background, database
  <2> QED BY <1>7, <2>1 DEF FeeStep, OpensUpgrade
<1>8. ASSUME NEW todo, Continue(w, todo) PROVE \A v \in Workers : Quiet(v)
  <2>1. [op |-> "sweep", at |-> "expire", todo |-> todo, m |-> None].op \notin PayOps \cup {"upgrade"}
    BY DEF PayOps
  <2> QED BY <1>8, <2>1, QuietJob, QuietFinish DEF Continue
<1>9. ASSUME NEW m \in Members, SweepExpire(w, m) PROVE Background
  <2>1. job[w] \in [op : {"sweep"}, at : {"expire"}, todo : SUBSET Members, m : {None}]
    BY <1>0, <1>9 DEF SweepExpire, At, Job, PayJobs, PayOps
  <2>2. CASE member[m].status = "ACTIVE"
    <3> DEFINE j == [job[w] EXCEPT !.at = "history", !.m = m, !.todo = @ \ {m}]
    <3>1. job' = [job EXCEPT ![w] = j]
      BY <1>9, <2>2 DEF SweepExpire, TypeOK
    <3>2. j.op \notin PayOps \cup {"upgrade"}
      BY <2>1 DEF PayOps
    <3>3. \A v \in Workers : Quiet(v)
      BY <3>1, <3>2, QuietJob
    <3>4. \A k \in Members : KeepsFees(k)
      BY <1>9, <2>2, KeepsStatus DEF SweepExpire
    <3> QED BY <1>9, <3>3, <3>4 DEF SweepExpire, Background
  <2>3. CASE member[m].status # "ACTIVE"
    BY <1>8, <1>9, <2>3, KeepsUnchanged DEF SweepExpire, Background
  <2> QED BY <2>2, <2>3
<1>10. CASE SweepHistory(w)
  BY <1>8, <1>10, QuietFinish, KeepsUnchanged DEF SweepHistory, Background
<1>11. CASE DeceasedCas(w)
  <2>1. job[w].m \in Members
    BY <1>0, <1>11 DEF DeceasedCas, Job, PayJobs, PayOps
  <2>2. \A k \in Members : KeepsFees(k)
    BY <1>11, <2>1, KeepsStatus, KeepsUnchanged DEF DeceasedCas
  <2> QED BY <1>11, <2>2, QuietFinish DEF DeceasedCas, Background
<1> QED BY <1>1, <1>2, <1>3, <1>4, <1>5, <1>6, <1>7, <1>9, <1>10, <1>11 DEF Proceed, FeeStep

\* Every step is one of the kinds.
LEMMA NextKinds ==
    ASSUME TypeOK, [Next]_vars
    PROVE  Background \/ \E w \in Workers : FeeStep(w) \/ RemoveWrite(w)
<1>1. ASSUME NEW w \in Workers, Abort(w) PROVE Background
  BY <1>1, QuietFinish, KeepsUnchanged DEF Abort, Background
<1>2. ASSUME NEW m \in Members, Suspend(m) \/ Reactivate(m) PROVE Background
  <2>1. \A k \in Members : KeepsFees(k)
    BY <1>2, KeepsStatus DEF Suspend, Reactivate, Transition
  <2> QED BY <1>2, <2>1, QuietUnchanged DEF Suspend, Reactivate, Transition, Background
<1>3. CASE Environment
  BY <1>2, <1>3, QuietUnchanged, KeepsUnchanged DEF Environment, CreateOrder, Capture, NextDay, Background
<1>4. CASE UNCHANGED vars
  BY <1>4, QuietUnchanged, KeepsUnchanged DEF vars, database, Background
<1> QED BY <1>1, <1>3, <1>4, StartBackground, ProceedKinds DEF Next

-----------------------------------------------------------------------------
(* The invariant, one lemma per kind of step.                              *)

\* MembershipInv without the types, which NextType keeps.
FeesInv ==
    /\ IsFiniteSet(payments) /\ RecordedOnce /\ AwardedOnce
    /\ NumberedOnceActivated /\ UnpaidUntilActivated /\ OneRegistration
    /\ TransactionsHold /\ NumbersIssued /\ ReceiptsIssued /\ AwardsOwed

\* A handler in a transaction, or which owes an award, is one of these.
LEMMA TxFields ==
    ASSUME NEW w \in Workers, TypeOK, InTx(w) \/ AwardDue(w)
    PROVE  job[w].m \in Members /\ job[w].op \in PayOps \cup {"upgrade"}
  BY PayJobFields, UpgradeJobFields DEF InTx, AwardDue, At

\* A step in the background keeps it: rows in a transaction are locked.
LEMMA BackgroundInv ==
    ASSUME MembershipInv, TypeOK', Background
    PROVE  FeesInv'
<1> USE DEF MembershipInv
<1>1. \A m \in Members : KeepsFees(m) /\ PaymentsOf(m)' = PaymentsOf(m)
  BY DEF Background, PaymentsOf
<1>2. ASSUME NEW w \in Workers, InTx(w)' \/ AwardDue(w)'
      PROVE  /\ job'[w] = job[w] /\ job[w].m \in Members
             /\ InTx(w)' => InTx(w)
             /\ AwardDue(w)' => AwardDue(w)
  <2>1. job'[w] = job[w]
    BY <1>2 DEF Background, Quiet
  <2>2. (InTx(w)' => InTx(w)) /\ (AwardDue(w)' => AwardDue(w))
    BY <2>1 DEF InTx, AwardDue, At
  <2> QED BY <1>2, <2>1, <2>2, TxFields
<1>3. IsFiniteSet(payments)' /\ RecordedOnce' /\ OneRegistration'
  BY <1>1 DEF Background, RecordedOnce, OneRegistration, KeepsFees
<1>4. NumberedOnceActivated' /\ UnpaidUntilActivated' /\ AwardedOnce'
  BY <1>1 DEF NumberedOnceActivated, ActivatedStatuses, UnpaidUntilActivated, AwardedOnce, KeepsFees, StatusMove
<1>5. TransactionsHold'
  <2> SUFFICES ASSUME NEW w \in Workers, InTx(w)'
               PROVE  /\ IF job[w].op = "upgrade"
                         THEN member'[job[w].m].status = "ACTIVE" /\ member'[job[w].m].plan = job[w].plan
                         ELSE member'[job[w].m].status = job[w].status
                      /\ \A v \in Workers : InTx(v)' /\ job'[v].m = job[w].m => v = w
    BY <1>2 DEF TransactionsHold
  <2>1. InTx(w) /\ job[w].m \in Members /\ Locked(job[w].m)
    BY <1>2 DEF Locked
  <2> QED BY <1>1, <1>2, <2>1 DEF TransactionsHold, KeepsFees
<1>6. NumbersIssued'
  <2>1. ASSUME NEW w \in Workers, Numbering(w)' PROVE Numbering(w) /\ job'[w] = job[w]
    BY <1>2, <2>1 DEF Numbering
  <2>2. ASSUME NEW w \in Workers, InTx(w)' PROVE InTx(w) /\ job'[w] = job[w]
    BY <1>2, <2>2
  <2>3. \A m \in Members : member'[m].number = member[m].number
    BY <1>1 DEF KeepsFees
  <2> QED BY <2>1, <2>2, <2>3 DEF NumbersIssued, Background, Activates
<1>7. ReceiptsIssued'
  <2>1. ASSUME NEW w \in Workers, Receipting(w)' PROVE Receipting(w) /\ job'[w] = job[w]
    BY <1>2, <2>1 DEF Receipting
  <2> QED BY <2>1 DEF ReceiptsIssued, Background
<1>8. AwardsOwed'
  <2>1. ASSUME NEW w \in Workers, At(w, PayOps, "award")'
        PROVE  At(w, PayOps, "award") /\ job'[w] = job[w] /\ job[w].m \in Members
    BY <1>2, <2>1 DEF AwardDue
  <2>2. ASSUME NEW m \in Members
        PROVE  member'[m].awards = member[m].awards /\ member'[m].number = member[m].number /\ (Exists(m)' => Exists(m))
    BY <1>1, <2>2 DEF KeepsFees, StatusMove, Exists
  <2> QED BY <2>1, <2>2 DEF AwardsOwed
<1> QED BY <1>3, <1>4, <1>5, <1>6, <1>7, <1>8 DEF FeesInv

\* Staff delete a draft that has become something else since they read it.
LEMMA RemoveInv ==
    ASSUME MembershipInv, TypeOK', NEW w \in Workers, RemoveWrite(w)
    PROVE  FeesInv'
<1> USE DEF MembershipInv
<1>0. job[w] \in Job
  BY DEF TypeOK
<1>1. PICK m0 \in Members : m0 = job[w].m
  BY <1>0 DEF RemoveWrite, Job, PayJobs, PayOps
<1>2. /\ member'[m0] = NoRow
      /\ \A m \in Members \ {m0} : member'[m] = member[m]
  BY <1>1 DEF RemoveWrite, TypeOK
<1>3. NoRow.number = None /\ NoRow.awards = 0 /\ NoRow.status = "NONE"
  BY DEF NoRow, NewDraft
<1>4. /\ PaymentsOf(m0)' = {}
      /\ \A m \in Members \ {m0} : PaymentsOf(m)' = PaymentsOf(m)
      /\ payments' \subseteq payments
  BY <1>1 DEF RemoveWrite, PaymentsOf
<1>5. \A v \in Workers : Quiet(v)
  BY QuietFinish DEF RemoveWrite
<1>6. ASSUME NEW v \in Workers, InTx(v)' \/ AwardDue(v)'
      PROVE  /\ job'[v] = job[v] /\ job[v].m \in Members
             /\ InTx(v)' => InTx(v) /\ job[v].m # m0
             /\ AwardDue(v)' => AwardDue(v)
  <2>1. job'[v] = job[v]
    BY <1>5, <1>6 DEF Quiet
  <2>2. (InTx(v)' => InTx(v)) /\ (AwardDue(v)' => AwardDue(v))
    BY <2>1 DEF InTx, AwardDue, At
  <2>3. InTx(v) => job[v].m # m0
    BY <1>1 DEF RemoveWrite, Locked
  <2> QED BY <1>6, <2>1, <2>2, <2>3, TxFields
<1>7. IsFiniteSet(payments)'
  BY <1>4, FS_Subset
<1>8. RecordedOnce'
  BY <1>2, <1>3, <1>4 DEF RecordedOnce
<1>9. NumberedOnceActivated' /\ UnpaidUntilActivated' /\ AwardedOnce'
  BY <1>2, <1>3, <1>4 DEF NumberedOnceActivated, ActivatedStatuses, UnpaidUntilActivated, AwardedOnce
<1>10. OneRegistration'
  BY <1>2, <1>3, <1>4 DEF OneRegistration
<1>11. TransactionsHold'
  BY <1>2, <1>6 DEF TransactionsHold
<1>12. NumbersIssued'
  <2>1. ASSUME NEW v \in Workers, Numbering(v)' PROVE Numbering(v) /\ job'[v] = job[v]
    BY <1>6, <2>1 DEF Numbering
  <2>2. ASSUME NEW v \in Workers, InTx(v)' PROVE InTx(v) /\ job'[v] = job[v]
    BY <1>6, <2>2
  <2>3. \A v \in Workers : Numbering(v) => job[v].number # None
    BY DEF Numbering
  <2> QED BY <1>2, <1>3, <2>1, <2>2, <2>3 DEF NumbersIssued, RemoveWrite, Activates
<1>13. ReceiptsIssued'
  <2>1. ASSUME NEW v \in Workers, Receipting(v)' PROVE Receipting(v) /\ job'[v] = job[v]
    BY <1>6, <2>1 DEF Receipting
  <2> QED BY <1>4, <2>1 DEF ReceiptsIssued, RemoveWrite
<1>14. AwardsOwed'
  <2>1. ASSUME NEW v \in Workers, At(v, PayOps, "award")'
        PROVE  At(v, PayOps, "award") /\ job'[v] = job[v] /\ job[v].m \in Members
    BY <1>6, <2>1 DEF AwardDue
  <2> QED BY <1>2, <1>3, <2>1 DEF AwardsOwed, Exists
<1> QED BY <1>7, <1>8, <1>9, <1>10, <1>11, <1>12, <1>13, <1>14 DEF FeesInv

\* A transaction opens: it has found the row as its handler read it, and no
\* other transaction holds that row.
LEMMA OpenInv ==
    ASSUME MembershipInv, TypeOK', NEW w \in Workers, OpensPayment(w) \/ OpensUpgrade(w)
    PROVE  FeesInv'
<1> USE DEF MembershipInv
<1>1. UNCHANGED <<member, payments, membershipSeq, receiptSeq>>
  BY DEF OpensPayment, FinalizeCas, OpensUpgrade, UpgradeCas, database
<1>2. /\ job[w].op \in PayOps \cup {"upgrade"} /\ job[w].at = "cas"
      /\ job[w].m \in Members /\ job[w].receipt = None
      /\ job[w].op \in PayOps => job[w].number = None
  BY PayJobFields, UpgradeJobFields DEF OpensPayment, FinalizeCas, OpensUpgrade, UpgradeCas, At
<1>3. \A v \in Workers : v # w => job'[v] = job[v]
  BY DEF OpensPayment, FinalizeCas, OpensUpgrade, UpgradeCas, Goto, TypeOK
<1>4. \A v \in Workers : InTx(v) => job[v].m # job[w].m
  BY DEF OpensPayment, FinalizeCas, OpensUpgrade, UpgradeCas, Locked
<1>5. /\ job'[w].op = job[w].op /\ job'[w].m = job[w].m
      /\ job'[w].at \in {"number", "receipt", "commit"}
      /\ job'[w].receipt = None
      /\ IF job[w].op = "upgrade"
         THEN job'[w].plan = job[w].plan /\ UpgradeMatches(w)
         ELSE /\ job'[w].number = None /\ job'[w].status = job[w].status /\ CasMatches(w)
              /\ job'[w].at = (IF Activates(w) THEN "number" ELSE "receipt")
  <2>0. job[w] \in Job
    BY DEF TypeOK
  <2>1. CASE OpensPayment(w)
    <3>1. job[w] \in PayJobs(PayOps, {"cas", "number"}, Captures \cup {None}, Plans, PayableStatuses, {None}, {None})
      BY <2>0, <2>1 DEF OpensPayment, FinalizeCas, At, Job, PayJobs, PayOps
    <3>2. job'[w] = [job[w] EXCEPT !.at = IF Activates(w) THEN "number" ELSE "receipt",
                                   !.day = IF Activates(w) THEN today ELSE job[w].day]
      BY <2>1 DEF OpensPayment, FinalizeCas, TypeOK
    <3> QED BY <2>1, <3>1, <3>2 DEF OpensPayment, PayJobs, PayOps
  <2>2. CASE OpensUpgrade(w)
    <3>1. job[w] \in [op : {"upgrade"}, at : {"cas", "receipt"}, m : Members, plan : Plans, fee : Nat, to : Plans,
               receipt : {None}]
      BY <2>0, <2>2 DEF OpensUpgrade, UpgradeCas, At, Job, PayJobs, PayOps
    <3>2. PICK at \in {"receipt", "commit"} : job'[w] = [job[w] EXCEPT !.at = at]
      BY <2>2 DEF OpensUpgrade, UpgradeCas, Goto, TypeOK
    <3> QED BY <2>2, <3>1, <3>2 DEF OpensUpgrade
  <2> QED BY <2>1, <2>2
<1>6. "upgrade" \notin PayOps
  BY DEF PayOps
<1>7. ASSUME NEW v \in Workers, v # w
      PROVE  /\ InTx(v)' <=> InTx(v)
             /\ Numbering(v)' <=> Numbering(v)
             /\ Receipting(v)' <=> Receipting(v)
             /\ \A at \in {"receipt", "commit", "award"} : At(v, PayOps, at)' <=> At(v, PayOps, at)
             /\ Activates(v)' <=> Activates(v)
  BY <1>3, <1>7 DEF InTx, Numbering, Receipting, At, Activates
<1>8. ~InTx(w) /\ InTx(w)' /\ ~Numbering(w)' /\ ~Receipting(w)' /\ ~At(w, PayOps, "award")'
  BY <1>2, <1>5, <1>6 DEF InTx, Numbering, Receipting, At
<1>9. IsFiniteSet(payments)' /\ RecordedOnce' /\ OneRegistration' /\ NumberedOnceActivated' /\ AwardedOnce'
  BY <1>1 DEF RecordedOnce, OneRegistration, PaymentsOf, NumberedOnceActivated, AwardedOnce
<1>10. UnpaidUntilActivated'
  BY <1>1 DEF UnpaidUntilActivated, PaymentsOf
<1>11. TransactionsHold'
  <2>1. ASSUME NEW v \in Workers, InTx(v)'
        PROVE  IF job'[v].op = "upgrade"
               THEN member[job'[v].m].status = "ACTIVE" /\ member[job'[v].m].plan = job'[v].plan
               ELSE member[job'[v].m].status = job'[v].status
    BY <1>3, <1>5, <1>7, <2>1 DEF TransactionsHold, UpgradeMatches, CasMatches
  <2>2. ASSUME NEW v \in Workers, NEW u \in Workers, InTx(v)', InTx(u)', job'[u].m = job'[v].m PROVE u = v
    BY <1>3, <1>4, <1>5, <1>7, <2>2 DEF TransactionsHold
  <2> QED BY <1>1, <2>1, <2>2 DEF TransactionsHold
<1>12. NumbersIssued'
  <2>1. \A v \in Workers : Numbering(v)' => Numbering(v) /\ job'[v] = job[v]
    BY <1>3, <1>7, <1>8
  <2>2. ASSUME NEW v \in Workers, InTx(v)', job'[v].op \in PayOps
        PROVE  Activates(v)' <=> job'[v].at = "number" \/ job'[v].number # None
    <3>1. CASE v = w
      BY <1>5, <1>6, <2>2, <3>1 DEF At, Activates
    <3>2. CASE v # w
      BY <1>3, <1>7, <2>2, <3>2 DEF NumbersIssued
    <3> QED BY <3>1, <3>2
  <2> QED BY <1>1, <2>1, <2>2 DEF NumbersIssued
<1>13. ReceiptsIssued'
  <2>1. \A v \in Workers : Receipting(v)' => Receipting(v) /\ job'[v] = job[v]
    BY <1>3, <1>7, <1>8
  <2> QED BY <1>1, <2>1 DEF ReceiptsIssued
<1>14. AwardsOwed'
  <2>1. \A v \in Workers : At(v, PayOps, "award")' => At(v, PayOps, "award") /\ job'[v] = job[v]
    BY <1>3, <1>7, <1>8
  <2> QED BY <1>1, <2>1 DEF AwardsOwed, Exists
<1> QED BY <1>9, <1>10, <1>11, <1>12, <1>13, <1>14 DEF FeesInv

\* A number, then a receipt, is taken from its counter: it is ahead of all the
\* others.
LEMMA NumberInv ==
    ASSUME MembershipInv, TypeOK', NEW w \in Workers, AllocateMembershipNumber(w)
    PROVE  FeesInv'
<1> USE DEF MembershipInv
<1>1. UNCHANGED <<member, payments, receiptSeq>> /\ membershipSeq' = membershipSeq + 1
  BY DEF AllocateMembershipNumber
<1>2. /\ job[w].op \in PayOps /\ job[w].at = "number"
      /\ job[w].m \in Members /\ job[w].receipt = None
  BY PayJobFields DEF AllocateMembershipNumber, At
<1>3. \A v \in Workers : v # w => job'[v] = job[v]
  BY DEF AllocateMembershipNumber, TypeOK
<1>4. /\ job'[w].op = job[w].op /\ job'[w].m = job[w].m /\ job'[w].status = job[w].status
      /\ job'[w].at = "receipt" /\ job'[w].receipt = None /\ job'[w].number = membershipSeq + 1
  <2>1. job[w] \in Job
    BY DEF TypeOK
  <2>2. job[w] \in PayJobs(PayOps, {"cas", "number"}, Captures \cup {None}, Plans, PayableStatuses, {None}, {None})
    BY <1>2, <2>1 DEF Job, PayJobs, PayOps
  <2>3. job'[w] = [job[w] EXCEPT !.number = membershipSeq + 1, !.at = "receipt"]
    BY DEF AllocateMembershipNumber, TypeOK
  <2> QED BY <2>2, <2>3 DEF PayJobs
<1>5. membershipSeq \in Nat /\ "upgrade" \notin PayOps
  BY DEF TypeOK, PayOps
<1>6. ASSUME NEW v \in Workers
      PROVE  /\ InTx(v)' <=> InTx(v)
             /\ job'[v].op = job[v].op /\ job'[v].m = job[v].m
             /\ InTx(v) => job'[v].receipt = job[v].receipt
             /\ Receipting(v)' <=> Receipting(v)
             /\ At(v, PayOps, "award")' <=> At(v, PayOps, "award")
  BY <1>2, <1>3, <1>4, <1>6 DEF InTx, Receipting, At
<1>7. IsFiniteSet(payments)' /\ RecordedOnce' /\ OneRegistration' /\ NumberedOnceActivated' /\ AwardedOnce'
  BY <1>1 DEF RecordedOnce, OneRegistration, PaymentsOf, NumberedOnceActivated, AwardedOnce
<1>8. UnpaidUntilActivated'
  BY <1>1 DEF UnpaidUntilActivated, PaymentsOf
<1>9. TransactionsHold'
  BY <1>1, <1>2, <1>3, <1>4, <1>5, <1>6 DEF TransactionsHold
<1>10. NumbersIssued'
  <2>1. \A m \in Members : member[m].number # None => member[m].number \in Nat /\ member[m].number <= membershipSeq
    BY DEF NumbersIssued, TypeOK, MemberRow
  <2>2. \A v \in Workers : Numbering(v) => job[v].number \in Nat /\ job[v].number <= membershipSeq
    BY PayJobFields DEF NumbersIssued, Numbering
  <2>3. \A v \in Workers : v # w => (Numbering(v)' <=> Numbering(v)) /\ (Activates(v)' <=> Activates(v))
    BY <1>3, <1>6 DEF Numbering, Activates
  <2>4. ASSUME NEW v \in Workers, Numbering(v)'
        PROVE  /\ job'[v].number <= membershipSeq + 1
               /\ \A m \in Members : member[m].number # job'[v].number
               /\ \A u \in Workers : Numbering(u)' /\ job'[u].number = job'[v].number => u = v
    <3>1. CASE v = w
      BY <1>3, <1>4, <1>5, <2>1, <2>2, <2>3, <3>1
    <3>2. CASE v # w
      BY <1>3, <1>4, <1>5, <2>1, <2>2, <2>3, <2>4, <3>2 DEF NumbersIssued
    <3> QED BY <3>1, <3>2
  <2>5. ASSUME NEW v \in Workers, InTx(v)', job'[v].op \in PayOps
        PROVE  Activates(v)' <=> job'[v].at = "number" \/ job'[v].number # None
    <3>1. CASE v = w
      BY <1>2, <1>4, <1>5, <3>1 DEF NumbersIssued, InTx, Activates
    <3>2. CASE v # w
      BY <1>3, <1>6, <2>3, <2>5, <3>2 DEF NumbersIssued
    <3> QED BY <3>1, <3>2
  <2>6. \A m \in Members : member'[m].number # None => member'[m].number <= membershipSeq'
    BY <1>1, <1>5, <2>1
  <2> QED BY <1>1, <2>4, <2>5, <2>6 DEF NumbersIssued
<1>11. ReceiptsIssued'
  BY <1>1, <1>6 DEF ReceiptsIssued, Receipting
<1>12. AwardsOwed'
  BY <1>1, <1>3, <1>6 DEF AwardsOwed, Exists
<1> QED BY <1>7, <1>8, <1>9, <1>10, <1>11, <1>12 DEF FeesInv

\* The same for receipt numbers, which upgrades take as well.
LEMMA ReceiptInv ==
    ASSUME MembershipInv, TypeOK', NEW w \in Workers, AllocateReceipt(w)
    PROVE  FeesInv'
<1> USE DEF MembershipInv
<1>1. UNCHANGED <<member, payments, membershipSeq>> /\ receiptSeq' = receiptSeq + 1
  BY DEF AllocateReceipt
<1>2. job[w].op \in PayOps \cup {"upgrade"} /\ job[w].at = "receipt"
  BY DEF AllocateReceipt, At
<1>3. \A v \in Workers : v # w => job'[v] = job[v]
  BY DEF AllocateReceipt, TypeOK
<1>4. /\ job'[w].op = job[w].op /\ job'[w].m = job[w].m
      /\ job'[w].at = "commit" /\ job'[w].receipt = receiptSeq + 1
      /\ job[w].op = "upgrade" => job'[w].plan = job[w].plan
      /\ job[w].op # "upgrade" => job'[w].status = job[w].status /\ job'[w].number = job[w].number
  <2>1. job[w] \in Job
    BY DEF TypeOK
  <2>2. job'[w] = [job[w] EXCEPT !.receipt = receiptSeq + 1, !.at = "commit"]
    BY DEF AllocateReceipt, NextReceipt, TypeOK
  <2>3. CASE job[w].op = "upgrade"
    <3>1. job[w] \in [op : {"upgrade"}, at : {"cas", "receipt"}, m : Members, plan : Plans, fee : Nat, to : Plans,
               receipt : {None}]
      BY <1>2, <2>1, <2>3 DEF Job, PayJobs, PayOps
    <3> QED BY <2>2, <2>3, <3>1
  <2>4. CASE job[w].op \in PayOps
    <3>1. job[w] \in PayJobs(PayOps, {"receipt"}, Captures \cup {None}, Plans, PayableStatuses, Nat \cup {None}, {None})
      BY <1>2, <2>1, <2>4 DEF Job, PayJobs, PayOps
    <3>2. "upgrade" \notin PayOps
      BY DEF PayOps
    <3> QED BY <2>2, <2>4, <3>1, <3>2 DEF PayJobs
  <2> QED BY <1>2, <2>3, <2>4
<1>5. receiptSeq \in Nat /\ "upgrade" \notin PayOps
  BY DEF TypeOK, PayOps
<1>6. ASSUME NEW v \in Workers
      PROVE  /\ InTx(v)' <=> InTx(v)
             /\ job'[v].op = job[v].op /\ job'[v].m = job[v].m
             /\ job[v].op \in PayOps => job'[v].number = job[v].number /\ job'[v].status = job[v].status
             /\ At(v, PayOps, "award")' <=> At(v, PayOps, "award")
  BY <1>2, <1>3, <1>4, <1>5, <1>6 DEF InTx, At
<1>7. IsFiniteSet(payments)' /\ RecordedOnce' /\ OneRegistration' /\ NumberedOnceActivated' /\ AwardedOnce'
  BY <1>1 DEF RecordedOnce, OneRegistration, PaymentsOf, NumberedOnceActivated, AwardedOnce
<1>8. UnpaidUntilActivated'
  BY <1>1 DEF UnpaidUntilActivated, PaymentsOf
<1>9. TransactionsHold'
  BY <1>1, <1>2, <1>3, <1>4, <1>6 DEF TransactionsHold
<1>10. NumbersIssued'
  <2>1. ASSUME NEW v \in Workers, Numbering(v)' PROVE Numbering(v) /\ job'[v].number = job[v].number
    BY <1>6, <2>1 DEF Numbering
  <2>2. ASSUME NEW v \in Workers, InTx(v)', job'[v].op \in PayOps
        PROVE  Activates(v)' <=> job'[v].at = "number" \/ job'[v].number # None
    BY <1>2, <1>3, <1>4, <1>6, <2>2 DEF NumbersIssued, Activates
  <2> QED BY <1>1, <2>1, <2>2 DEF NumbersIssued
<1>11. ReceiptsIssued'
  <2>1. \A p \in payments : p.receipt \in Nat /\ p.receipt <= receiptSeq
    BY DEF ReceiptsIssued, TypeOK, PaymentRow
  <2>2. \A v \in Workers : Receipting(v) => job[v].receipt \in Nat /\ job[v].receipt <= receiptSeq
    BY PayJobFields, UpgradeJobFields DEF ReceiptsIssued, Receipting, InTx
  <2>3. \A v \in Workers : v # w => (Receipting(v)' <=> Receipting(v))
    BY <1>3, <1>6 DEF Receipting
  <2>4. ASSUME NEW v \in Workers, Receipting(v)'
        PROVE  /\ job'[v].receipt <= receiptSeq + 1
               /\ \A p \in payments : p.receipt # job'[v].receipt
               /\ \A u \in Workers : Receipting(u)' /\ job'[u].receipt = job'[v].receipt => u = v
    <3>1. CASE v = w
      BY <1>3, <1>4, <1>5, <2>1, <2>2, <2>3, <3>1
    <3>2. CASE v # w
      BY <1>3, <1>4, <1>5, <2>1, <2>2, <2>3, <2>4, <3>2 DEF ReceiptsIssued
    <3> QED BY <3>1, <3>2
  <2> QED BY <1>1, <1>5, <2>1, <2>4 DEF ReceiptsIssued
<1>12. AwardsOwed'
  BY <1>1, <1>6 DEF AwardsOwed, Exists
<1> QED BY <1>7, <1>8, <1>9, <1>10, <1>11, <1>12 DEF FeesInv

\* The points of an activation are awarded by the one worker that owes them.
LEMMA AwardInv ==
    ASSUME MembershipInv, TypeOK', NEW w \in Workers, AwardPoints(w)
    PROVE  FeesInv'
<1> USE DEF MembershipInv
<1>1. UNCHANGED <<payments, membershipSeq, receiptSeq>>
  BY DEF AwardPoints
<1>2. PICK m0 \in Members : m0 = job[w].m
  BY PayJobFields DEF AwardPoints, At
<1>3. /\ member[m0].awards = 0
      /\ Exists(m0) => member[m0].number # None
      /\ \A v \in Workers : At(v, PayOps, "award") /\ job[v].m = m0 => v = w
  BY <1>2 DEF AwardPoints, AwardsOwed
<1>4. ASSUME NEW m \in Members
      PROVE  /\ member'[m].status = member[m].status /\ member'[m].plan = member[m].plan
             /\ member'[m].number = member[m].number
             /\ m # m0 => member'[m] = member[m]
             /\ member'[m0].awards = IF Exists(m0) THEN 1 ELSE 0
  <2>1. member[m0] \in MemberRow
    BY <1>2 DEF TypeOK
  <2>2. /\ member' = [member EXCEPT ![m0] = [member[m0] EXCEPT !.awards = IF Exists(m0) THEN member[m0].awards + 1
                                                                          ELSE member[m0].awards]]
    BY <1>2 DEF AwardPoints, TypeOK
  <2> QED BY <1>3, <1>4, <2>1, <2>2 DEF TypeOK, MemberRow
<1>5. \A v \in Workers : Quiet(v)
  BY QuietFinish DEF AwardPoints
<1>6. ~InTx(w)' /\ ~At(w, PayOps, "award")'
  BY DEF AwardPoints, Finish, InTx, At, PayOps, TypeOK
<1>7. ASSUME NEW v \in Workers, InTx(v)' \/ At(v, PayOps, "award")'
      PROVE  /\ job'[v] = job[v] /\ v # w /\ job[v].m \in Members
             /\ InTx(v)' => InTx(v)
             /\ At(v, PayOps, "award")' => At(v, PayOps, "award") /\ job[v].m # m0
  <2>1. job'[v] = job[v]
    BY <1>5, <1>7 DEF Quiet, AwardDue
  <2>2. (InTx(v)' => InTx(v)) /\ (At(v, PayOps, "award")' => At(v, PayOps, "award"))
    BY <2>1 DEF InTx, At
  <2> QED BY <1>3, <1>6, <1>7, <2>1, <2>2, TxFields DEF AwardDue
<1>8. IsFiniteSet(payments)' /\ RecordedOnce' /\ OneRegistration' /\ NumberedOnceActivated'
  BY <1>1, <1>4 DEF RecordedOnce, OneRegistration, PaymentsOf, NumberedOnceActivated
<1>9. AwardedOnce'
  BY <1>4 DEF AwardedOnce
<1>10. UnpaidUntilActivated'
  <2>1. ASSUME NEW m \in Members, member'[m].number = None PROVE PaymentsOf(m)' = {} /\ member'[m].awards = 0
    BY <1>1, <1>3, <1>4, <2>1 DEF UnpaidUntilActivated, PaymentsOf
  <2> QED BY <2>1 DEF UnpaidUntilActivated
<1>11. TransactionsHold'
  BY <1>4, <1>7 DEF TransactionsHold
<1>12. NumbersIssued'
  <2>1. ASSUME NEW v \in Workers, Numbering(v)' PROVE Numbering(v) /\ job'[v] = job[v]
    BY <1>7, <2>1 DEF Numbering
  <2>2. ASSUME NEW v \in Workers, InTx(v)' PROVE InTx(v) /\ job'[v] = job[v]
    BY <1>7, <2>2
  <2> QED BY <1>1, <1>4, <2>1, <2>2 DEF NumbersIssued, Activates
<1>13. ReceiptsIssued'
  <2>1. ASSUME NEW v \in Workers, Receipting(v)' PROVE Receipting(v) /\ job'[v] = job[v]
    BY <1>7, <2>1 DEF Receipting
  <2> QED BY <1>1, <2>1 DEF ReceiptsIssued
<1>14. AwardsOwed'
  BY <1>4, <1>7 DEF AwardsOwed, Exists
<1> QED BY <1>8, <1>9, <1>10, <1>11, <1>12, <1>13, <1>14 DEF FeesInv

\* An upgrade is applied, and its fee recorded.
LEMMA UpgradeInv ==
    ASSUME MembershipInv, TypeOK', NEW w \in Workers, UpgradeCommit(w)
    PROVE  FeesInv'
<1> USE DEF MembershipInv
<1>0. job[w].op = "upgrade" /\ InTx(w) /\ "upgrade" \notin PayOps
  BY DEF UpgradeCommit, At, InTx, PayOps
<1>1. PICK m0 \in Members : m0 = job[w].m
  BY <1>0, UpgradeJobFields
<1>2. member[m0].status = "ACTIVE" /\ member[m0].number # None
  BY <1>0, <1>1 DEF TransactionsHold, NumberedOnceActivated, ActivatedStatuses
<1>3. ASSUME NEW m \in Members
      PROVE  /\ member'[m].status = member[m].status /\ member'[m].number = member[m].number
             /\ member'[m].awards = member[m].awards
             /\ m # m0 => member'[m] = member[m]
  <2>1. member[m0] \in MemberRow
    BY <1>1 DEF TypeOK
  <2>2. PICK p, r : member' = [member EXCEPT ![m0] = [member[m0] EXCEPT !.plan = p, !.override = None, !.rewards = r]]
    BY <1>1 DEF UpgradeCommit, TypeOK
  <2> QED BY <1>3, <2>1, <2>2 DEF TypeOK, MemberRow
<1>4. UNCHANGED <<membershipSeq, receiptSeq>>
  BY DEF UpgradeCommit
<1>5. PICK new : /\ payments' = payments \cup new
                 /\ new = {} \/ \E p : /\ new = {p} /\ Receipting(w)
                                       /\ p.m = m0 /\ p.g = None /\ p.kind = "upgrade"
                                       /\ p.receipt = job[w].receipt
  <2>1. CASE job[w].receipt = None
    BY <2>1 DEF UpgradeCommit
  <2>2. CASE job[w].receipt # None
    <3> DEFINE p == [receipt |-> job[w].receipt, m |-> job[w].m, g |-> None, plan |-> job[w].to, kind |-> "upgrade"]
    <3>1. payments' = payments \cup {p} /\ Receipting(w)
      BY <1>0, <2>2 DEF UpgradeCommit, Receipting
    <3>2. p.m = m0 /\ p.g = None /\ p.kind = "upgrade" /\ p.receipt = job[w].receipt
      BY <1>1
    <3> QED BY <3>1, <3>2
  <2> QED BY <2>1, <2>2
<1>6. ~InTx(w)' /\ ~At(w, PayOps, "award")'
  BY DEF UpgradeCommit, Finish, InTx, At, PayOps, TypeOK
<1>7. ASSUME NEW v \in Workers, InTx(v)' \/ At(v, PayOps, "award")'
      PROVE  /\ job'[v] = job[v] /\ v # w /\ job[v].m \in Members
             /\ InTx(v)' => InTx(v) /\ job[v].m # m0
             /\ At(v, PayOps, "award")' => At(v, PayOps, "award")
  <2>1. job'[v] = job[v]
    BY <1>6, <1>7 DEF UpgradeCommit, Finish, TypeOK
  <2>2. (InTx(v)' => InTx(v)) /\ (At(v, PayOps, "award")' => At(v, PayOps, "award"))
    BY <2>1 DEF InTx, At
  <2>3. InTx(v) /\ job[v].m = m0 => v = w
    BY <1>0, <1>1 DEF TransactionsHold
  <2> QED BY <1>6, <1>7, <2>1, <2>2, <2>3, TxFields DEF AwardDue
<1>8. IsFiniteSet(payments)'
  <2>1. ASSUME NEW p, new = {p} PROVE IsFiniteSet(payments \cup {p})
    BY FS_AddElement
  <2>2. payments \cup {} = payments
    OBVIOUS
  <2> QED BY <1>5, <2>1, <2>2
<1>9. RecordedOnce'
  <2>1. \A p \in payments : Receipting(w) => p.receipt # job[w].receipt
    BY DEF ReceiptsIssued
  <2> QED BY <1>3, <1>5, <2>1 DEF RecordedOnce
<1>10. NumberedOnceActivated' /\ AwardedOnce'
  BY <1>3 DEF NumberedOnceActivated, AwardedOnce
<1>11. UnpaidUntilActivated'
  <2>1. ASSUME NEW m \in Members, m # m0 PROVE PaymentsOf(m)' = PaymentsOf(m)
    BY <1>5, <2>1 DEF PaymentsOf
  <2> QED BY <1>2, <1>3, <2>1 DEF UnpaidUntilActivated
<1>12. OneRegistration'
  <2>1. \A m \in Members : PaymentsOf(m) \subseteq PaymentsOf(m)'
    BY <1>5 DEF PaymentsOf
  <2>2. \A p \in payments' : p.kind = "registration" => p \in payments
    BY <1>5
  <2> QED BY <1>3, <2>1, <2>2 DEF OneRegistration
<1>13. TransactionsHold'
  BY <1>3, <1>7 DEF TransactionsHold
<1>14. NumbersIssued'
  <2>1. ASSUME NEW v \in Workers, Numbering(v)' PROVE Numbering(v) /\ job'[v] = job[v]
    BY <1>7, <2>1 DEF Numbering
  <2>2. ASSUME NEW v \in Workers, InTx(v)' PROVE InTx(v) /\ job'[v] = job[v]
    BY <1>7, <2>2
  <2> QED BY <1>3, <1>4, <2>1, <2>2 DEF NumbersIssued, Activates
<1>15. ReceiptsIssued'
  <2>1. ASSUME NEW v \in Workers, Receipting(v)' PROVE Receipting(v) /\ job'[v] = job[v] /\ v # w
    BY <1>7, <2>1 DEF Receipting
  <2>2. \A p \in payments' : p \in payments \/ (p.receipt = job[w].receipt /\ Receipting(w))
    BY <1>5
  <2> QED BY <1>4, <2>1, <2>2 DEF ReceiptsIssued
<1>16. AwardsOwed'
  BY <1>3, <1>7 DEF AwardsOwed, Exists
<1> QED BY <1>8, <1>9, <1>10, <1>11, <1>12, <1>13, <1>14, <1>15, <1>16 DEF FeesInv

\* What a payment's commit does to the member and to the payments.
LEMMA CommitEffect ==
    ASSUME MembershipInv, NEW w \in Workers, FinalizeCommit(w)
    PROVE  LET m == job[w].m IN
           /\ m \in Members /\ InTx(w) /\ Receipting(w) /\ job[w].op \in PayOps
           /\ member[m].status = job[w].status
           /\ Activates(w) => Numbering(w) /\ member[m].number = None
           /\ ~Activates(w) => member[m].number # None
           /\ member'[m].status = "ACTIVE" /\ member'[m].awards = member[m].awards
           /\ member'[m].plan = member[m].plan
           /\ member'[m].number = IF Activates(w) THEN job[w].number ELSE member[m].number
           /\ \A k \in Members : k # m => member'[k] = member[k]
           /\ payments' = payments \cup {Payment(w)}
           /\ Payment(w).m = m /\ Payment(w).g = job[w].g /\ Payment(w).receipt = job[w].receipt
           /\ Payment(w).kind = IF Activates(w) THEN "registration" ELSE "renewal"
<1> USE DEF MembershipInv
<1>0. /\ job[w].op \in PayOps /\ job[w].at = "commit" /\ InTx(w) /\ "upgrade" \notin PayOps
      /\ "commit" # "number"
  BY DEF FinalizeCommit, At, InTx, PayOps
<1>1. job[w].m \in Members /\ job[w].status \in PayableStatuses /\ job[w].receipt \in Nat
  BY <1>0, PayJobFields
<1>2. member[job[w].m] \in MemberRow /\ member[job[w].m].status = job[w].status
  BY <1>0, <1>1 DEF TypeOK, TransactionsHold
<1>3. Receipting(w)
  BY <1>0, <1>1 DEF Receipting
<1>4. Activates(w) => Numbering(w) /\ member[job[w].m].number = None
  BY <1>0, <1>1, <1>2 DEF NumbersIssued, Numbering, Activates, NumberedOnceActivated, ActivatedStatuses
<1>5. ~Activates(w) => member[job[w].m].number # None
  BY <1>1, <1>2 DEF Activates, NumberedOnceActivated, ActivatedStatuses, PayableStatuses
<1>6. /\ payments' = payments \cup {Payment(w)}
      /\ member' = [member EXCEPT ![job[w].m] = IF Activates(w) THEN ActivatedRow(w) ELSE RenewedRow(w)]
  BY DEF FinalizeCommit
<1>7. /\ Payment(w).m = job[w].m /\ Payment(w).g = job[w].g /\ Payment(w).receipt = job[w].receipt
      /\ Payment(w).kind = IF Activates(w) THEN "registration" ELSE "renewal"
  BY DEF Payment
<1>8. /\ ActivatedRow(w).status = "ACTIVE" /\ RenewedRow(w).status = "ACTIVE"
      /\ ActivatedRow(w).number = job[w].number /\ RenewedRow(w).number = member[job[w].m].number
      /\ ActivatedRow(w).awards = member[job[w].m].awards /\ RenewedRow(w).awards = member[job[w].m].awards
      /\ ActivatedRow(w).plan = member[job[w].m].plan /\ RenewedRow(w).plan = member[job[w].m].plan
  BY <1>2 DEF ActivatedRow, RenewedRow, MemberRow
<1>9. /\ member'[job[w].m] = IF Activates(w) THEN ActivatedRow(w) ELSE RenewedRow(w)
      /\ \A k \in Members : k # job[w].m => member'[k] = member[k]
  BY <1>1, <1>6 DEF TypeOK
<1> QED BY <1>0, <1>1, <1>2, <1>3, <1>4, <1>5, <1>6, <1>7, <1>8, <1>9

\* A fee is recorded: the row is activated or renewed.
LEMMA CommitInv ==
    ASSUME MembershipInv, TypeOK', NEW w \in Workers, FinalizeCommit(w)
    PROVE  FeesInv'
<1> USE DEF MembershipInv
<1>0. PICK m0 \in Members, new \in {Payment(w)} : m0 = job[w].m
  BY CommitEffect
<1>1. /\ InTx(w) /\ Receipting(w) /\ job[w].op \in PayOps
      /\ member[m0].status = job[w].status
      /\ Activates(w) => Numbering(w) /\ member[m0].number = None
      /\ ~Activates(w) => member[m0].number # None
      /\ member'[m0].status = "ACTIVE" /\ member'[m0].awards = member[m0].awards
      /\ member'[m0].number = IF Activates(w) THEN job[w].number ELSE member[m0].number
      /\ \A k \in Members : k # m0 => member'[k] = member[k]
      /\ payments' = payments \cup {new}
      /\ new.m = m0 /\ new.g = job[w].g /\ new.receipt = job[w].receipt
      /\ new.kind = IF Activates(w) THEN "registration" ELSE "renewal"
  BY <1>0, CommitEffect
<1>2. UNCHANGED <<membershipSeq, receiptSeq>>
  BY DEF FinalizeCommit
<1>3. member'[m0].number # None
  BY <1>1 DEF Numbering
<1>4. Activates(w) => PaymentsOf(m0) = {} /\ member[m0].awards = 0
  BY <1>1 DEF UnpaidUntilActivated
<1>5. /\ \A v \in Workers : v # w => job'[v] = job[v]
      /\ ~InTx(w)'
      /\ At(w, PayOps, "award")' => Activates(w) /\ job'[w].m = m0
  <2>1. CASE Activates(w)
    <3>1. job' = [job EXCEPT ![w] = [job[w] EXCEPT !.at = "award"]]
      BY <2>1 DEF FinalizeCommit, Goto, TypeOK
    <3>2. job[w] \in Job
      BY DEF TypeOK
    <3>3. job[w] \in PayJobs(PayOps, {"commit", "award"}, Captures \cup {None}, Plans, PayableStatuses, Nat \cup {None}, Nat)
      BY <3>2 DEF FinalizeCommit, At, Job, PayJobs, PayOps
    <3> QED BY <1>0, <2>1, <3>1, <3>3 DEF TypeOK, PayJobs, InTx
  <2>2. CASE ~Activates(w)
    BY <2>2 DEF FinalizeCommit, Finish, InTx, At, PayOps, TypeOK
  <2> QED BY <2>1, <2>2
<1>6. ASSUME NEW v \in Workers, v # w, InTx(v)' \/ At(v, PayOps, "award")'
      PROVE  /\ job'[v] = job[v] /\ job[v].m \in Members
             /\ InTx(v)' => InTx(v) /\ job[v].m # m0
             /\ At(v, PayOps, "award")' => At(v, PayOps, "award") /\ (Activates(w) => job[v].m # m0)
  <2>1. job'[v] = job[v]
    BY <1>5, <1>6
  <2>2. (InTx(v)' => InTx(v)) /\ (At(v, PayOps, "award")' => At(v, PayOps, "award"))
    BY <2>1 DEF InTx, At
  <2>3. InTx(v) => job[v].m # m0
    BY <1>0, <1>1, <1>6 DEF TransactionsHold
  <2>4. At(v, PayOps, "award") /\ Activates(w) => job[v].m # m0
    BY <1>1 DEF AwardsOwed, Exists, Activates
  <2> QED BY <1>6, <2>1, <2>2, <2>3, <2>4, TxFields DEF AwardDue
<1>7. IsFiniteSet(payments)'
  BY <1>1, FS_AddElement
<1>8. RecordedOnce'
  <2>1. \A p \in payments : p.receipt # new.receipt
    BY <1>1 DEF ReceiptsIssued
  <2>2. \A p \in payments : p.g = new.g => new.g = None
    BY <1>0, <1>1 DEF FinalizeCommit, PaymentIsNew, Recorded
  <2>3. \A m \in Members : Activates(w) => member[m].number # job[w].number
    BY <1>1 DEF NumbersIssued
  <2> QED BY <1>1, <2>1, <2>2, <2>3 DEF RecordedOnce
<1>9. NumberedOnceActivated'
  BY <1>1, <1>3 DEF NumberedOnceActivated, ActivatedStatuses
<1>10. AwardedOnce'
  BY <1>1 DEF AwardedOnce
<1>11. UnpaidUntilActivated'
  <2>1. ASSUME NEW m \in Members, m # m0 PROVE PaymentsOf(m)' = PaymentsOf(m)
    BY <1>1, <2>1 DEF PaymentsOf
  <2> QED BY <1>1, <1>3, <2>1 DEF UnpaidUntilActivated
<1>12. OneRegistration'
  <2>1. ASSUME NEW m \in Members, member'[m].number # None
        PROVE  \E p \in PaymentsOf(m)' : p.kind = "registration"
    <3>1. CASE m = m0 /\ Activates(w)
      BY <1>1, <3>1 DEF PaymentsOf
    <3>2. CASE ~(m = m0 /\ Activates(w))
      BY <1>1, <2>1, <3>2 DEF OneRegistration, PaymentsOf
    <3> QED BY <3>1, <3>2
  <2>2. \A p, q \in payments' : p.m = q.m /\ p.kind = "registration" /\ q.kind = "registration" => p = q
    <3>1. \A p \in payments : Activates(w) => p.m # m0
      BY <1>4 DEF PaymentsOf
    <3> QED BY <1>1, <3>1 DEF OneRegistration
  <2> QED BY <2>1, <2>2 DEF OneRegistration
<1>13. TransactionsHold'
  BY <1>1, <1>5, <1>6 DEF TransactionsHold
<1>14. NumbersIssued'
  <2>1. ASSUME NEW v \in Workers, Numbering(v)' PROVE Numbering(v) /\ job'[v] = job[v] /\ v # w
    BY <1>5, <1>6, <2>1 DEF Numbering
  <2>2. ASSUME NEW v \in Workers, InTx(v)' PROVE InTx(v) /\ job'[v] = job[v]
    BY <1>5, <1>6, <2>2
  <2>3. \A v \in Workers : Numbering(v)' /\ Activates(w) => job[v].number # job[w].number
    BY <1>1, <2>1 DEF NumbersIssued
  <2> QED BY <1>1, <1>2, <2>1, <2>2, <2>3 DEF NumbersIssued, Activates
<1>15. ReceiptsIssued'
  <2>1. ASSUME NEW v \in Workers, Receipting(v)' PROVE Receipting(v) /\ job'[v] = job[v] /\ v # w
    BY <1>5, <1>6, <2>1 DEF Receipting
  <2> QED BY <1>1, <1>2, <2>1 DEF ReceiptsIssued
<1>16. AwardsOwed'
  BY <1>1, <1>3, <1>4, <1>5, <1>6 DEF AwardsOwed, Exists
<1> QED BY <1>7, <1>8, <1>9, <1>10, <1>11, <1>12, <1>13, <1>14, <1>15, <1>16 DEF FeesInv

\* Before the first step nothing is numbered, paid or open.
LEMMA InitInv == Init => FeesInv
<1> SUFFICES ASSUME Init PROVE FeesInv
  OBVIOUS
<1>1. \A m \in Members : member[m].status = "DRAFT" /\ member[m].number = None /\ member[m].awards = 0
  BY InitRows
<1>2. payments = {} /\ IsFiniteSet(payments)
  BY FS_EmptySet DEF Init
<1>3. \A w \in Workers : ~InTx(w) /\ \A at : ~At(w, PayOps, at)
  BY DEF Init, InTx, At, PayOps
<1>4. RecordedOnce /\ AwardedOnce /\ UnpaidUntilActivated /\ OneRegistration
  BY <1>1, <1>2 DEF RecordedOnce, AwardedOnce, UnpaidUntilActivated, OneRegistration, PaymentsOf
<1>5. NumberedOnceActivated
  BY <1>1 DEF NumberedOnceActivated, ActivatedStatuses
<1>6. TransactionsHold /\ NumbersIssued /\ ReceiptsIssued /\ AwardsOwed
  BY <1>1, <1>2, <1>3 DEF TransactionsHold, NumbersIssued, Numbering, ReceiptsIssued, Receipting, AwardsOwed
<1> QED BY <1>2, <1>4, <1>5, <1>6 DEF FeesInv

\* The invariant of this specification: what a transaction has found and taken
\* stays its own until it commits.
THEOREM Invariant == Spec => []MembershipInv
<1>1. Init => MembershipInv
  BY InitType, InitInv DEF MembershipInv, FeesInv
<1>2. MembershipInv /\ [Next]_vars => MembershipInv'
  <2> SUFFICES ASSUME MembershipInv, [Next]_vars PROVE MembershipInv'
    OBVIOUS
  <2>1. TypeOK'
    BY NextType DEF MembershipInv
  <2>2. Background \/ \E w \in Workers : FeeStep(w) \/ RemoveWrite(w)
    BY NextKinds DEF MembershipInv
  <2>3. FeesInv'
    BY <2>1, <2>2, BackgroundInv, RemoveInv, OpenInv, NumberInv, ReceiptInv, CommitInv, UpgradeInv, AwardInv
       DEF FeeStep
  <2> QED BY <2>1, <2>3 DEF MembershipInv, FeesInv
<1> QED BY <1>1, <1>2, PTL DEF Spec

-----------------------------------------------------------------------------
(* What follows from it.                                                   *)

\* A captured payment has one row, and no receipt and no membership number is
\* given out twice, however often and with whatever crashes it is reported.
THEOREM NothingRecordedTwice == Spec => []RecordedOnce
<1>1. MembershipInv => RecordedOnce
  BY DEF MembershipInv
<1> QED BY <1>1, Invariant, PTL

\* A member is activated by one registration fee, and awarded once for it.
THEOREM OneActivation == Spec => []ActivatedOnce
<1>1. MembershipInv => ActivatedOnce
  <2> SUFFICES ASSUME MembershipInv, NEW m \in Members
               PROVE  /\ Cardinality({p \in PaymentsOf(m) : p.kind = "registration"})
                            = IF member[m].number = None THEN 0 ELSE 1
                      /\ member[m].awards <= IF member[m].number = None THEN 0 ELSE 1
    BY DEF ActivatedOnce
  <2> DEFINE R == {p \in PaymentsOf(m) : p.kind = "registration"}
  <2>1. CASE member[m].number = None
    <3>1. R = {} /\ member[m].awards = 0
      BY <2>1 DEF MembershipInv, UnpaidUntilActivated
    <3>2. Cardinality(R) = 0
      BY <3>1, FS_EmptySet
    <3> HIDE DEF R
    <3>3. /\ Cardinality(R) = IF member[m].number = None THEN 0 ELSE 1
          /\ member[m].awards <= IF member[m].number = None THEN 0 ELSE 1
      BY <2>1, <3>1, <3>2
    <3> QED BY <3>3 DEF R
  <2>2. CASE member[m].number # None
    <3>1. PICK p \in R : TRUE
      BY <2>2 DEF MembershipInv, OneRegistration
    <3>2. \A q \in R : q = p
      BY <3>1 DEF MembershipInv, OneRegistration, PaymentsOf
    <3>3. R = {p}
      BY <3>1, <3>2
    <3>4. Cardinality({p}) = 1
      BY FS_Singleton
    <3>5. member[m].awards <= 1
      BY DEF MembershipInv, AwardedOnce
    <3> QED BY <2>2, <3>3, <3>4, <3>5
  <2> QED BY <2>1, <2>2
<1> QED BY <1>1, Invariant, PTL

\* An upgrade is applied to a member who is ACTIVE and on the plan whose tier and
\* fee it went by; of a fee override it says nothing.
THEOREM UpgradesFromThePlanPriced == Spec => UpgradePricedFromPlan
<1>1. ASSUME MembershipInv, NEW w \in Workers, At(w, {"upgrade"}, "commit")
      PROVE  member[job[w].m].plan = job[w].plan /\ member[job[w].m].status = "ACTIVE"
  BY <1>1 DEF MembershipInv, TransactionsHold, InTx, At
<1>2. MembershipInv /\ [Next]_vars =>
        [\A w \in Workers :
           At(w, {"upgrade"}, "commit") /\ member'[job[w].m].plan # member[job[w].m].plan =>
             member[job[w].m].plan = job[w].plan /\ member[job[w].m].status = "ACTIVE"]_vars
  BY <1>1
<1> QED BY <1>2, Invariant, PTL DEF Spec, UpgradePricedFromPlan

\* Without deletions no handler deletes.
LEMMA NoRemoval ==
    ASSUME "remove" \notin Handlers, TypeOK, NEW w \in Workers
    PROVE  ~RemoveWrite(w)
<1>1. job[w] \in Job
  BY DEF TypeOK
<1> QED BY <1>1 DEF RemoveWrite, Job, PayJobs, PayOps

\* The other fee steps leave status, number, end and fees alone.
LEMMA FeeStepFrame ==
    ASSUME MembershipInv, NEW w \in Workers, FeeStep(w), ~FinalizeCommit(w)
    PROVE  /\ \A m \in Members : /\ member'[m].status = member[m].status
                                 /\ member'[m].number = member[m].number
                                 /\ member'[m].until = member[m].until
           /\ \A p \in payments' \ payments : p.kind = "upgrade" /\ p.g = None
           /\ payments \subseteq payments'
<1> USE DEF MembershipInv
<1>1. CASE AwardPoints(w)
  <2>1. job[w].m \in Members
    BY <1>1, PayJobFields DEF AwardPoints, At
  <2>2. member[job[w].m] \in MemberRow
    BY <2>1 DEF TypeOK
  <2>3. PICK n : member' = [member EXCEPT ![job[w].m] = [member[job[w].m] EXCEPT !.awards = n]]
    <3>1. member' = [member EXCEPT ![job[w].m] =
                       [member[job[w].m] EXCEPT !.awards = IF Exists(job[w].m) THEN member[job[w].m].awards + 1
                                                           ELSE member[job[w].m].awards]]
      BY <1>1, <2>1 DEF AwardPoints, TypeOK
    <3> QED BY <3>1
  <2> QED BY <1>1, <2>1, <2>2, <2>3 DEF AwardPoints, TypeOK, MemberRow
<1>2. CASE UpgradeCommit(w)
  <2>1. job[w].m \in Members
    BY <1>2, UpgradeJobFields DEF UpgradeCommit, At
  <2>2. member[job[w].m] \in MemberRow
    BY <2>1 DEF TypeOK
  <2>3. PICK p, r : member' = [member EXCEPT ![job[w].m] = [member[job[w].m] EXCEPT !.plan = p, !.override = None, !.rewards = r]]
    BY <1>2, <2>1 DEF UpgradeCommit, TypeOK
  <2>4. \A m \in Members : /\ member'[m].status = member[m].status
                           /\ member'[m].number = member[m].number
                           /\ member'[m].until = member[m].until
    BY <2>1, <2>2, <2>3 DEF TypeOK, MemberRow
  <2> DEFINE paid == [receipt |-> job[w].receipt, m |-> job[w].m, g |-> None, plan |-> job[w].to, kind |-> "upgrade"]
  <2>5. payments' = payments \/ payments' = payments \cup {paid}
    BY <1>2 DEF UpgradeCommit
  <2>6. paid.kind = "upgrade" /\ paid.g = None
    OBVIOUS
  <2> HIDE DEF paid
  <2> QED BY <2>4, <2>5, <2>6
<1>3. CASE OpensPayment(w) \/ OpensUpgrade(w) \/ AllocateMembershipNumber(w) \/ AllocateReceipt(w)
  BY <1>3 DEF OpensPayment, OpensUpgrade, FinalizeCas, UpgradeCas, AllocateMembershipNumber, AllocateReceipt, database
<1> QED BY <1>1, <1>2, <1>3 DEF FeeStep

\* A commit's payment is a new one, and renews or activates what was payable.
LEMMA CommitIsNew ==
    ASSUME MembershipInv, NEW w \in Workers, FinalizeCommit(w)
    PROVE  Payment(w) \notin payments /\ member[job[w].m].status \in PayableStatuses
<1>1. Receipting(w) /\ Payment(w).receipt = job[w].receipt /\ member[job[w].m].status = job[w].status
  BY CommitEffect
<1>2. job[w].status \in PayableStatuses
  BY PayJobFields DEF MembershipInv, FinalizeCommit, At
<1> QED BY <1>1, <1>2 DEF MembershipInv, ReceiptsIssued

\* Without deletions, a status changes only along the lifecycle, and into
\* ACTIVE only by a fee or from SUSPENDED.
THEOREM Lifecycle == "remove" \notin Handlers => (Spec => StatusChanges)
<1> SUFFICES ASSUME "remove" \notin Handlers PROVE Spec => StatusChanges
  OBVIOUS
<1> DEFINE Change(m) ==
       LET from == member[m].status
           to == member'[m].status
           paid == \E p \in payments' \ payments : p.m = m
       IN  \/ from = to
           \/ from = "DRAFT" /\ to = "AWAITING_PAYMENT"
           \/ from \in {"AWAITING_PAYMENT", "EXPIRED"} /\ to = "ACTIVE" /\ paid
           \/ from = "SUSPENDED" /\ to = "ACTIVE" /\ ~paid
           \/ from = "ACTIVE" /\ to \in {"EXPIRED", "SUSPENDED", "DECEASED"}
           \/ from = "SUSPENDED" /\ to = "DECEASED"
<1>1. ASSUME MembershipInv, [Next]_vars PROVE \A m \in Members : Change(m)
  <2>1. CASE Background
    BY <2>1 DEF Background, KeepsFees, StatusMove
  <2>2. ASSUME NEW w \in Workers, FinalizeCommit(w) PROVE \A m \in Members : Change(m)
    <3>1. PICK m0 \in Members, new \in {Payment(w)} : m0 = job[w].m
      BY <1>1, <2>2, CommitEffect
    <3>2. /\ new.m = m0 /\ payments' = payments \cup {new} /\ member'[m0].status = "ACTIVE"
          /\ \A m \in Members : m # m0 => member'[m] = member[m]
      BY <1>1, <2>2, <3>1, CommitEffect
    <3>3. new \notin payments /\ member[m0].status \in {"AWAITING_PAYMENT", "ACTIVE", "EXPIRED"}
      BY <1>1, <2>2, <3>1, CommitIsNew DEF PayableStatuses
    <3>4. Change(m0)
      BY <3>2, <3>3
    <3> QED BY <3>2, <3>4
  <2>3. ASSUME NEW w \in Workers, FeeStep(w), ~FinalizeCommit(w) PROVE \A m \in Members : Change(m)
    BY <1>1, <2>3, FeeStepFrame
  <2> QED BY <1>1, <2>1, <2>2, <2>3, NextKinds, NoRemoval DEF MembershipInv
<1>2. MembershipInv /\ [Next]_vars =>
        [\A m \in Members :
           LET from == member[m].status
               to == member'[m].status
               paid == \E p \in payments' \ payments : p.m = m
           IN  \/ from = to
               \/ from = "DRAFT" /\ to = "AWAITING_PAYMENT"
               \/ from \in {"AWAITING_PAYMENT", "EXPIRED"} /\ to = "ACTIVE" /\ paid
               \/ from = "SUSPENDED" /\ to = "ACTIVE" /\ ~paid
               \/ from = "ACTIVE" /\ to \in {"EXPIRED", "SUSPENDED", "DECEASED"}
               \/ from = "SUSPENDED" /\ to = "DECEASED"]_vars
  BY <1>1
<1> QED BY <1>2, Invariant, PTL DEF Spec, StatusChanges

-----------------------------------------------------------------------------
(* Refinement of FeeCollection.                                            *)

\* The fees of every member are finitely many, and a step that adds no fee of
\* them adds none to their number.
LEMMA FeesFinite ==
    ASSUME MembershipInv, NEW m \in Members
    PROVE  IsFiniteSet(FeesOf(m))
  BY FS_Subset DEF MembershipInv, FeesOf, PaymentsOf

\* A step that adds no fee is one that FeeCollection does not see.
LEMMA FeesStutter ==
    ASSUME /\ \A m \in Members : member'[m].number = member[m].number /\ member'[m].until = member[m].until
           /\ \A p \in payments' \ payments : p.kind = "upgrade" /\ p.g = None
           /\ payments \subseteq payments'
    PROVE  UNCHANGED <<{g \in Captures : Recorded(g)}, [m \in Members |-> Cardinality(FeesOf(m))],
                       [m \in Members |-> member[m].number], [m \in Members |-> member[m].until]>>
<1>1. ASSUME NEW m \in Members PROVE FeesOf(m)' = FeesOf(m)
  BY DEF FeesOf, PaymentsOf
<1>2. ASSUME NEW g \in Captures PROVE Recorded(g)' <=> Recorded(g)
  BY DEF Recorded
<1> QED BY <1>1, <1>2

\* A commit takes a fee: in cash, or the one captured payment.
LEMMA CommitTakes ==
    ASSUME MembershipInv, TypeOK', NEW w \in Workers, FinalizeCommit(w)
    PROVE  Fees!Next
<1> USE DEF MembershipInv
<1>0. PICK m0 \in Members, new \in {Payment(w)}, g \in {job[w].g} : m0 = job[w].m
  BY CommitEffect
<1>1. /\ Activates(w) => Numbering(w) /\ member[m0].number = None
      /\ ~Activates(w) => member[m0].number # None
      /\ member'[m0].number = IF Activates(w) THEN job[w].number ELSE member[m0].number
      /\ \A k \in Members : k # m0 => member'[k] = member[k]
      /\ payments' = payments \cup {new}
      /\ new.m = m0 /\ new.g = g /\ new.kind # "upgrade" /\ new \notin payments
  BY <1>0, CommitEffect, CommitIsNew
<1>2. g \in Captures \cup {None} /\ ~(g \in Captures /\ Recorded(g))
  BY <1>0, PayJobFields DEF FinalizeCommit, At, PaymentIsNew
<1> DEFINE S == {h \in Captures : h = g}
           taken == {h \in Captures : Recorded(h)}
           fees == [m \in Members |-> Cardinality(FeesOf(m))]
           number == [m \in Members |-> member[m].number]
           until == [m \in Members |-> member[m].until]
<1>3. S \in SUBSET Captures /\ S \cap taken = {} /\ \A h, k \in S : h = k
  BY <1>2
<1>4. taken' = taken \cup S
  <2>1. ASSUME NEW h \in Captures PROVE Recorded(h)' <=> Recorded(h) \/ h = g
    BY <1>1 DEF Recorded
  <2> QED BY <2>1
<1>5. fees' = [fees EXCEPT ![m0] = @ + 1]
  <2>1. ASSUME NEW m \in Members, m # m0 PROVE FeesOf(m)' = FeesOf(m)
    BY <1>1, <2>1 DEF FeesOf, PaymentsOf
  <2>2. FeesOf(m0)' = FeesOf(m0) \cup {new} /\ new \notin FeesOf(m0)
    BY <1>1 DEF FeesOf, PaymentsOf
  <2>3. Cardinality(FeesOf(m0)') = Cardinality(FeesOf(m0)) + 1
    BY <2>2, FeesFinite, FS_AddElement
  <2> QED BY <2>1, <2>3
<1>6. number' = [number EXCEPT ![m0] = number'[m0]] /\ until' = [until EXCEPT ![m0] = until'[m0]]
  BY <1>1
<1>7. number'[m0] \in Nat
  <2>1. member'[m0].number \in Nat \cup {None} /\ member[m0].number \in Nat \cup {None}
    BY DEF TypeOK, MemberRow
  <2> QED BY <1>1, <2>1 DEF Numbering
<1>8. IF number[m0] = None THEN \A k \in Members : number[k] # number'[m0] ELSE number'[m0] = number[m0]
  BY <1>0, <1>1 DEF NumbersIssued
<1>9. Fees!Take(m0, S)
  BY <1>3, <1>4, <1>5, <1>6, <1>7, <1>8 DEF Fees!Take
<1> QED BY <1>3, <1>9 DEF Fees!Next

\* Without deletions, every behaviour of the handlers is one of FeeCollection.
THEOREM ImplementsFeeCollection == "remove" \notin Handlers => (Spec => FeesSpec)
<1> SUFFICES ASSUME "remove" \notin Handlers PROVE Spec => FeesSpec
  OBVIOUS
<1>1. Init => Fees!Init
  <2> SUFFICES ASSUME Init PROVE Fees!Init
    OBVIOUS
  <2>1. \A m \in Members : FeesOf(m) = {} /\ member[m].number = None /\ member[m].until = None
    BY InitRows DEF Init, FeesOf, PaymentsOf
  <2>2. \A g \in Captures : ~Recorded(g)
    BY DEF Init, Recorded
  <2> QED BY <2>1, <2>2, FS_EmptySet DEF Fees!Init
<1>2. MembershipInv /\ MembershipInv' /\ [Next]_vars =>
        [Fees!Next]_<<{g \in Captures : Recorded(g)}, [m \in Members |-> Cardinality(FeesOf(m))],
                      [m \in Members |-> member[m].number], [m \in Members |-> member[m].until]>>
  <2> SUFFICES ASSUME MembershipInv, MembershipInv', [Next]_vars
               PROVE  Fees!Next \/ UNCHANGED <<{g \in Captures : Recorded(g)},
                                               [m \in Members |-> Cardinality(FeesOf(m))],
                                               [m \in Members |-> member[m].number],
                                               [m \in Members |-> member[m].until]>>
    OBVIOUS
  <2>1. CASE Background
    BY <2>1, FeesStutter DEF Background, KeepsFees
  <2>2. ASSUME NEW w \in Workers, FinalizeCommit(w) PROVE Fees!Next
    BY <2>2, CommitTakes DEF MembershipInv
  <2>3. ASSUME NEW w \in Workers, FeeStep(w), ~FinalizeCommit(w)
        PROVE  UNCHANGED <<{g \in Captures : Recorded(g)}, [m \in Members |-> Cardinality(FeesOf(m))],
                           [m \in Members |-> member[m].number], [m \in Members |-> member[m].until]>>
    BY <2>3, FeeStepFrame, FeesStutter
  <2> QED BY <2>1, <2>2, <2>3, NextKinds, NoRemoval DEF MembershipInv
<1> QED BY <1>1, <1>2, Invariant, PTL DEF Spec, FeesSpec, Fees!Spec

-----------------------------------------------------------------------------
(* The status history.                                                     *)

\* A handler that has changed a status and owes the history row.
Owing(j) == j.op \in {"submit", "sweep"} /\ j.at = "history"

\* What the handlers owe stays the same, and no second daily job begins.
Calm ==
    /\ \A v \in Workers, op \in {"submit", "sweep"}, m \in Members : Owes(v, op, m)' <=> Owes(v, op, m)
    /\ OneSweep => OneSweep'

LEMMA SweepStep ==
    ASSUME TypeOK, OneSweep, NEW w \in Workers, NEW j, job' = [job EXCEPT ![w] = j],
           j.op = "sweep" => job[w].op = "sweep" \/ \A v \in Workers : job[v].op # "sweep"
    PROVE  OneSweep'
<1>1. job'[w] = j /\ \A v \in Workers : v # w => job'[v] = job[v]
  BY DEF TypeOK
<1>2. ASSUME NEW u \in Workers, NEW v \in Workers, job'[u].op = "sweep", job'[v].op = "sweep" PROVE u = v
  BY <1>1, <1>2 DEF OneSweep
<1> QED BY <1>2 DEF OneSweep

LEMMA CalmStep ==
    ASSUME TypeOK, NEW w \in Workers, NEW j, job' = [job EXCEPT ![w] = j], ~Owing(job[w]), ~Owing(j),
           j.op = "sweep" => job[w].op = "sweep" \/ \A v \in Workers : job[v].op # "sweep"
    PROVE  Calm
<1>1. job'[w] = j /\ \A v \in Workers : v # w => job'[v] = job[v]
  BY DEF TypeOK
<1>2. ASSUME NEW v \in Workers, NEW op \in {"submit", "sweep"}, NEW m \in Members
      PROVE  Owes(v, op, m)' <=> Owes(v, op, m)
  BY <1>1 DEF Owes, At, Owing
<1> QED BY <1>2, SweepStep DEF Calm

LEMMA CalmFinish ==
    ASSUME TypeOK, NEW w \in Workers, Finish(w), ~Owing(job[w])
    PROVE  Calm
<1>1. ~Owing([op |-> "idle"]) /\ [op |-> "idle"].op # "sweep"
  BY DEF Owing
<1> QED BY <1>1, CalmStep DEF Finish

LEMMA CalmUnchanged == UNCHANGED job => Calm
  BY DEF Calm, Owes, At, OneSweep

\* A payment or an upgrade stays one as it goes on.
LEMMA KeptOp ==
    ASSUME NEW j \in Job, j.op \in PayOps \cup {"upgrade"}, NEW a, NEW b
    PROVE  /\ [j EXCEPT !.at = a].op = j.op
           /\ [j EXCEPT !.at = a, !.day = b].op = j.op
           /\ [j EXCEPT !.number = b, !.at = a].op = j.op
           /\ [j EXCEPT !.receipt = b, !.at = a].op = j.op
<1>1. CASE j.op = "upgrade"
  <2>1. \/ j \in [op : {"upgrade"}, at : {"cas", "receipt"}, m : Members, plan : Plans, fee : Nat, to : Plans,
               receipt : {None}]
        \/ j \in [op : {"upgrade"}, at : {"commit"}, m : Members, plan : Plans, fee : Nat, to : Plans,
               receipt : Nat \cup {None}]
    BY <1>1 DEF Job, PayJobs, PayOps
  <2> QED BY <2>1
<1>2. CASE j.op \in PayOps
  <2>1. \/ j \in PayJobs({"verify", "webhook"}, {"member"}, Captures, Plans \cup {None}, Status, {None}, {None})
        \/ j \in PayJobs(PayOps, {"cas", "number"}, Captures \cup {None}, Plans, PayableStatuses, {None}, {None})
        \/ j \in PayJobs(PayOps, {"receipt"}, Captures \cup {None}, Plans, PayableStatuses, Nat \cup {None}, {None})
        \/ j \in PayJobs(PayOps, {"commit", "award"}, Captures \cup {None}, Plans, PayableStatuses, Nat \cup {None}, Nat)
    BY <1>2 DEF Job, PayJobs, PayOps
  <2> QED BY <2>1 DEF PayJobs
<1> QED BY <1>1, <1>2

LEMMA CalmPaying ==
    ASSUME TypeOK, NEW w \in Workers, job[w].op \in PayOps \cup {"upgrade"},
           NEW j, job' = [job EXCEPT ![w] = j], j.op = job[w].op
    PROVE  Calm
<1>1. ~Owing(job[w]) /\ ~Owing(j) /\ j.op # "sweep"
  BY DEF Owing, PayOps
<1> QED BY <1>1, CalmStep

\* Reading starts a handler that owes nothing yet.
LEMMA CalmStart ==
    ASSUME TypeOK, NEW w \in Workers, Start(w)
    PROVE  Calm /\ UNCHANGED database
<1>1. UNCHANGED database
  BY DEF Start, SelectPlanRead, EditPlanRead, UpgradeRead, SubmitRead, RemoveRead, RecordPaymentRead, DeceasedRead,
         GatewayFind, SweepFind
<1>2. ASSUME NEW j, Begin(w, j), ~Owing(j), j.op = "sweep" => \A v \in Workers : job[v].op # "sweep" PROVE Calm
  BY <1>2, CalmStep DEF Begin, Idle, Owing
<1>3. ASSUME NEW m \in Members, NEW sets, NEW p, NEW o, SelectPlanRead(w, m, p) \/ EditPlanRead(w, m, sets, p, o)
      PROVE  Calm
  <2>1. ASSUME NEW j, j.op = "plan", Begin(w, j) PROVE Calm
    <3>1. ~Owing(j) /\ j.op # "sweep"
      BY <2>1 DEF Owing
    <3> QED BY <1>2, <2>1, <3>1
  <2> QED BY <1>3, <2>1 DEF SelectPlanRead, EditPlanRead
<1>4. ASSUME NEW m \in Members, SubmitRead(w, m) PROVE Calm
  <2>1. ~Owing([op |-> "submit", at |-> "cas", m |-> m]) /\ [op |-> "submit", at |-> "cas", m |-> m].op # "sweep"
    BY DEF Owing
  <2> QED BY <1>2, <1>4, <2>1 DEF SubmitRead
<1>5. ASSUME NEW m \in Members, RemoveRead(w, m) PROVE Calm
  <2>1. ~Owing([op |-> "remove", m |-> m]) /\ [op |-> "remove", m |-> m].op # "sweep"
    BY DEF Owing
  <2> QED BY <1>2, <1>5, <2>1 DEF RemoveRead
<1>6. ASSUME NEW m \in Members, NEW p, UpgradeRead(w, m, p) PROVE Calm
  <2>1. ASSUME NEW j, j.op = "upgrade", Begin(w, j) PROVE Calm
    <3>1. ~Owing(j) /\ j.op # "sweep"
      BY <2>1 DEF Owing
    <3> QED BY <1>2, <2>1, <3>1
  <2> QED BY <1>6, <2>1 DEF UpgradeRead
<1>7. ASSUME NEW op \in PayOps, NEW at, NEW m, NEW g, NEW q, Begin(w, PayJob(op, at, m, g, q)) PROVE Calm
  <2>1. ~Owing(PayJob(op, at, m, g, q)) /\ PayJob(op, at, m, g, q).op # "sweep"
    BY DEF Owing, PayJob, PayOps
  <2> QED BY <1>2, <1>7, <2>1
<1>8. CASE SweepFind(w)
  <2>1. ~Owing([op |-> "sweep", at |-> "expire", todo |-> OverdueMembers, m |-> None])
    BY DEF Owing
  <2> QED BY <1>2, <1>8, <2>1 DEF SweepFind
<1>9. ASSUME NEW m \in Members, DeceasedRead(w, m) PROVE Calm
  <2>1. ~Owing([op |-> "deceased", m |-> m, status |-> member[m].status]) /\ [op |-> "deceased", m |-> m, status |-> member[m].status].op # "sweep"
    BY DEF Owing
  <2> QED BY <1>2, <1>9, <2>1 DEF DeceasedRead
<1>10. Calm
  BY <1>3, <1>4, <1>5, <1>6, <1>7, <1>8, <1>9 DEF Start, RecordPaymentRead, GatewayFind, PayOps
<1> QED BY <1>1, <1>10

\* The steps as the history sees them: one that changes no status, or only deletes
\* a member; one that changes a status and writes the row at once; one that
\* changes a status and owes the row; one that writes a row that was owed.
Still == Calm /\ \A m \in Members : \/ member'[m].status = "NONE"
                                    \/ trail'[m] = trail[m] /\ member'[m].status = member[m].status
Logged(m, to) ==
    /\ Calm /\ Exists(m) /\ to \in Status \ {"NONE", "DRAFT"}
    /\ member'[m].status = to /\ MoveTrail(m, member[m].status, to)
    /\ \A k \in Members : k # m => member'[k] = member[k]

Debt(op, m) == \E v \in Workers : Owes(v, op, m)
SameDebts(op, m) ==
    \A k \in Members, o \in {"submit", "sweep"} : k # m \/ o # op => (Debt(o, k)' <=> Debt(o, k))
FirstMove(op) == IF op = "submit" THEN "DRAFT" ELSE "ACTIVE"
LastMove(op) == IF op = "submit" THEN "AWAITING_PAYMENT" ELSE "EXPIRED"

Incurred(w, op, m) ==
    /\ \A v \in Workers, k \in Members, o \in {"submit", "sweep"} :
          Owes(v, o, k)' <=> Owes(v, o, k) \/ (v = w /\ o = op /\ k = m)
    /\ ~Debt(op, m) /\ member[m].status = FirstMove(op)
    /\ UNCHANGED trail
    /\ member' = [member EXCEPT ![m].status = LastMove(op)]
Settled(w, op, m) ==
    /\ \A v \in Workers, k \in Members, o \in {"submit", "sweep"} :
          Owes(v, o, k)' <=> Owes(v, o, k) /\ ~(v = w /\ o = op /\ k = m)
    /\ Owes(w, op, m) /\ \A v \in Workers : Owes(v, op, m) => v = w
    /\ UNCHANGED member
    /\ IF Exists(m) THEN MoveTrail(m, FirstMove(op), LastMove(op)) ELSE UNCHANGED trail

\* A crash may leave a row unwritten for ever.
Crashed == aborts' # 0 /\ UNCHANGED member /\ (OneSweep => OneSweep')
           /\ \A v \in Workers, op \in {"submit", "sweep"}, m \in Members : Owes(v, op, m)' => Owes(v, op, m)

HistoryStep(w, m) == OneSweep' /\ \E op \in {"submit", "sweep"} : Incurred(w, op, m) \/ Settled(w, op, m)
TrailStep ==
    \/ Crashed
    \/ /\ aborts' = aborts
       /\ \/ Still
          \/ \E m \in Members, to \in Status : Logged(m, to)
          \/ \E w \in Workers, m \in Members : HistoryStep(w, m)

\* A handler that stops has crashed.
LEMMA AbortTrail ==
    ASSUME TypeOK, NEW w \in Workers, Abort(w)
    PROVE  Crashed
<1> DEFINE j == [op |-> "idle"]
<1>1. job' = [job EXCEPT ![w] = j] /\ j.op = "idle" /\ aborts' = aborts + 1 /\ aborts \in Nat /\ UNCHANGED member
  BY DEF Abort, Finish, TypeOK
<1>2. job'[w] = j /\ \A v \in Workers : v # w => job'[v] = job[v]
  BY <1>1 DEF TypeOK
<1>3. ASSUME NEW v \in Workers, NEW op \in {"submit", "sweep"}, NEW m \in Members, Owes(v, op, m)'
      PROVE  Owes(v, op, m)
  BY <1>1, <1>2, <1>3 DEF Owes, At
<1>4. OneSweep => OneSweep'
  BY <1>1, SweepStep
<1> QED BY <1>1, <1>3, <1>4 DEF Crashed

\* What the history's handlers remember.
LEMMA OwingFields ==
    ASSUME TypeOK, NEW w \in Workers
    PROVE  /\ job[w].op = "submit" => job[w].m \in Members
           /\ At(w, {"sweep"}, "history") => job[w].m \in Members
           /\ At(w, {"submit"}, "cas") => job[w] \in [op : {"submit"}, at : {"cas", "history"}, m : Members]
           /\ At(w, {"sweep"}, "expire") => job[w] \in [op : {"sweep"}, at : {"expire"}, todo : SUBSET Members, m : {None}]
           /\ job[w].op = "plan" => job[w].m \in Members
<1>1. job[w] \in Job
  BY DEF TypeOK
<1> QED BY <1>1 DEF Job, At, PayJobs, PayOps

\* Submitting: the status, then the row.
LEMMA SubmitTrail ==
    ASSUME MembershipInv, TrailKept, NEW w \in Workers, SubmitCas(w) \/ SubmitHistory(w)
    PROVE  TrailStep
<1> USE DEF MembershipInv
<1>1. CASE SubmitCas(w) /\ member[job[w].m].status = "DRAFT"
  <2> DEFINE m == job[w].m
             j == [job[w] EXCEPT !.at = "history"]
  <2>1. job[w] \in [op : {"submit"}, at : {"cas", "history"}, m : Members] /\ job[w].at = "cas"
    BY <1>1, OwingFields DEF SubmitCas, At
  <2>2. job' = [job EXCEPT ![w] = j]
    BY <1>1 DEF SubmitCas, Goto, TypeOK
  <2>3. j.op = "submit" /\ j.at = "history" /\ j.m = m /\ m \in Members
    BY <2>1
  <2> HIDE DEF j
  <2>4. job'[w] = j /\ \A v \in Workers : v # w => job'[v] = job[v]
    BY <2>2 DEF TypeOK
  <2>5. ASSUME NEW v \in Workers, NEW k \in Members, NEW o \in {"submit", "sweep"}
        PROVE  Owes(v, o, k)' <=> Owes(v, o, k) \/ (v = w /\ o = "submit" /\ k = m)
    BY <2>1, <2>3, <2>4 DEF Owes, At
  <2>6. OneSweep'
    BY <2>2, <2>3, SweepStep DEF TrailKept
  <2>7. ~Debt("submit", m)
    BY <1>1, <2>3 DEF Debt, TrailKept
  <2>8. Incurred(w, "submit", m)
    BY <1>1, <2>5, <2>7 DEF Incurred, SubmitCas, FirstMove, LastMove
  <2> QED BY <1>1, <2>3, <2>6, <2>8 DEF TrailStep, HistoryStep, SubmitCas
<1>2. CASE SubmitCas(w) /\ member[job[w].m].status # "DRAFT"
  <2>1. ~Owing(job[w])
    BY <1>2 DEF SubmitCas, At, Owing
  <2> QED BY <1>2, <2>1, CalmFinish DEF SubmitCas, Still, TrailStep
<1>3. CASE SubmitHistory(w)
  <2> DEFINE m == job[w].m
             j == [op |-> "idle"]
  <2>1. job[w].op = "submit" /\ job[w].at = "history" /\ m \in Members
    BY <1>3, OwingFields DEF SubmitHistory, At
  <2>2. job' = [job EXCEPT ![w] = j] /\ j.op = "idle"
    BY <1>3 DEF SubmitHistory, Finish
  <2> HIDE DEF j
  <2>3. job'[w] = j /\ \A v \in Workers : v # w => job'[v] = job[v]
    BY <2>2 DEF TypeOK
  <2>4. ASSUME NEW v \in Workers, NEW k \in Members, NEW o \in {"submit", "sweep"}
        PROVE  Owes(v, o, k)' <=> Owes(v, o, k) /\ ~(v = w /\ o = "submit" /\ k = m)
    BY <2>1, <2>2, <2>3 DEF Owes, At
  <2>5. OneSweep'
    BY <2>2, SweepStep DEF TrailKept
  <2>6. Owes(w, "submit", m) /\ \A v \in Workers : Owes(v, "submit", m) => v = w
    BY <2>1 DEF Owes, At, TrailKept
  <2>7. Settled(w, "submit", m)
    BY <1>3, <2>4, <2>6 DEF Settled, SubmitHistory, FirstMove, LastMove
  <2> QED BY <1>3, <2>1, <2>5, <2>7 DEF TrailStep, HistoryStep, SubmitHistory
<1> QED BY <1>1, <1>2, <1>3

\* The daily job goes on to the next member, or ends.
LEMMA ContinueJob ==
    ASSUME NEW w \in Workers, NEW todo, Continue(w, todo)
    PROVE  \E j : job' = [job EXCEPT ![w] = j] /\ ~Owing(j)
<1>1. ~Owing([op |-> "idle"]) /\ ~Owing([op |-> "sweep", at |-> "expire", todo |-> todo, m |-> None])
  BY DEF Owing
<1> QED BY <1>1 DEF Continue, Finish

\* The daily job: the status, then the row, of one member after the other.
LEMMA SweepTrail ==
    ASSUME MembershipInv, TrailKept, NEW w \in Workers, SweepHistory(w) \/ \E m \in Members : SweepExpire(w, m)
    PROVE  TrailStep
<1> USE DEF MembershipInv
<1>1. job[w].op = "sweep" /\ \A v \in Workers : job[v].op = "sweep" => v = w
  BY DEF SweepHistory, SweepExpire, At, TrailKept, OneSweep
<1>2. ASSUME NEW m \in Members, SweepExpire(w, m), member[m].status = "ACTIVE" PROVE TrailStep
  <2> DEFINE j == [job[w] EXCEPT !.at = "history", !.m = m, !.todo = @ \ {m}]
  <2>1. job[w] \in [op : {"sweep"}, at : {"expire"}, todo : SUBSET Members, m : {None}]
    BY <1>2, OwingFields DEF SweepExpire
  <2>2. job' = [job EXCEPT ![w] = j]
    BY <1>2 DEF SweepExpire, TypeOK
  <2>3. j.op = "sweep" /\ j.at = "history" /\ j.m = m
    BY <2>1
  <2> HIDE DEF j
  <2>4. job'[w] = j /\ \A v \in Workers : v # w => job'[v] = job[v]
    BY <2>2 DEF TypeOK
  <2>5. ASSUME NEW v \in Workers, NEW k \in Members, NEW o \in {"submit", "sweep"}
        PROVE  Owes(v, o, k)' <=> Owes(v, o, k) \/ (v = w /\ o = "sweep" /\ k = m)
    BY <2>1, <2>3, <2>4 DEF Owes, At
  <2>6. OneSweep'
    BY <1>1, <2>2, SweepStep DEF TrailKept
  <2>7. ~Debt("sweep", m)
    BY <1>1, <2>1 DEF Debt, Owes, At
  <2>8. Incurred(w, "sweep", m)
    BY <1>2, <2>5, <2>7 DEF Incurred, SweepExpire, FirstMove, LastMove
  <2> QED BY <1>2, <2>6, <2>8 DEF TrailStep, HistoryStep, SweepExpire
<1>3. ASSUME NEW m \in Members, SweepExpire(w, m), member[m].status # "ACTIVE" PROVE TrailStep
  <2>1. PICK j : job' = [job EXCEPT ![w] = j] /\ ~Owing(j)
    BY <1>3, ContinueJob DEF SweepExpire
  <2>2. ~Owing(job[w])
    BY <1>3 DEF SweepExpire, At, Owing
  <2>3. Calm
    BY <1>1, <2>1, <2>2, CalmStep
  <2> QED BY <1>3, <2>3 DEF SweepExpire, Still, TrailStep
<1>4. CASE SweepHistory(w)
  <2> DEFINE m == job[w].m
  <2>1. job[w].at = "history" /\ m \in Members
    BY <1>4, OwingFields DEF SweepHistory, At
  <2>2. PICK j : job' = [job EXCEPT ![w] = j] /\ ~Owing(j)
    <3>1. ~Owing([op |-> "idle"])
      BY DEF Owing
    <3> QED BY <1>4, <3>1, ContinueJob DEF SweepHistory, Finish
  <2>3. job'[w] = j /\ \A v \in Workers : v # w => job'[v] = job[v]
    BY <2>2 DEF TypeOK
  <2>4. ASSUME NEW v \in Workers, NEW k \in Members, NEW o \in {"submit", "sweep"}
        PROVE  Owes(v, o, k)' <=> Owes(v, o, k) /\ ~(v = w /\ o = "sweep" /\ k = m)
    BY <1>1, <2>1, <2>2, <2>3 DEF Owes, At, Owing
  <2>5. OneSweep'
    BY <1>1, <2>2, SweepStep DEF TrailKept
  <2>6. Owes(w, "sweep", m) /\ \A v \in Workers : Owes(v, "sweep", m) => v = w
    BY <1>1, <2>1 DEF Owes, At
  <2>7. Settled(w, "sweep", m)
    BY <1>4, <2>4, <2>6 DEF Settled, SweepHistory, FirstMove, LastMove
  <2> QED BY <1>4, <2>1, <2>5, <2>7 DEF TrailStep, HistoryStep, SweepHistory
<1> QED BY <1>2, <1>3, <1>4

\* The handlers of payments and upgrades owe no history row at any time.
LEMMA PayingTrail ==
    ASSUME MembershipInv, NEW w \in Workers,
           \/ GatewayReadMember(w) \/ FinalizeCas(w) \/ AllocateMembershipNumber(w) \/ AllocateReceipt(w)
           \/ FinalizeCommit(w) \/ FinalizeDuplicate(w) \/ AwardPoints(w) \/ UpgradeCas(w) \/ UpgradeCommit(w)
    PROVE  Calm
<1> USE DEF MembershipInv
<1>1. job[w].op \in PayOps \cup {"upgrade"} /\ job[w] \in Job
  BY DEF At, TypeOK, GatewayReadMember, FinalizeCas, AllocateMembershipNumber, AllocateReceipt,
         FinalizeCommit, FinalizeDuplicate, AwardPoints, UpgradeCas, UpgradeCommit
<1>2. ~Owing(job[w])
  BY <1>1 DEF Owing, PayOps
<1>3. ASSUME Finish(w) PROVE Calm
  BY <1>2, <1>3, CalmFinish
<1>4. ASSUME NEW a, job' = [job EXCEPT ![w] = [job[w] EXCEPT !.at = a]] PROVE Calm
  BY <1>1, <1>4, KeptOp, CalmPaying
<1>5. CASE GatewayReadMember(w)
  <2> DEFINE j == PayJob(job[w].op, "cas", job[w].m, job[w].g, job[w].quoted)
  <2>1. CASE IsPayable(job[w].m)
    <3>1. job' = [job EXCEPT ![w] = j]
      BY <1>5, <2>1 DEF GatewayReadMember, TypeOK
    <3>2. j.op = job[w].op
      BY DEF PayJob
    <3> QED BY <1>1, <3>1, <3>2, CalmPaying
  <2> QED BY <1>3, <1>5, <2>1 DEF GatewayReadMember
<1>6. CASE FinalizeCas(w)
  <2> DEFINE a == IF Activates(w) THEN "number" ELSE "receipt"
             d == IF Activates(w) THEN today ELSE job[w].day
  <2>1. CASE CasMatches(w) /\ (Activates(w) \/ HasValidity(job[w].plan))
    <3>1. job' = [job EXCEPT ![w] = [job[w] EXCEPT !.at = a, !.day = d]]
      BY <1>6, <2>1 DEF FinalizeCas, TypeOK
    <3> HIDE DEF a, d
    <3>2. [job[w] EXCEPT !.at = a, !.day = d].op = job[w].op
      BY <1>1, KeptOp
    <3> QED BY <1>1, <3>1, <3>2, CalmPaying
  <2> QED BY <1>3, <1>6, <2>1 DEF FinalizeCas
<1>7. CASE AllocateMembershipNumber(w)
  <2>1. job' = [job EXCEPT ![w] = [job[w] EXCEPT !.number = membershipSeq + 1, !.at = "receipt"]]
    BY <1>7 DEF AllocateMembershipNumber, TypeOK
  <2> QED BY <1>1, <2>1, KeptOp, CalmPaying
<1>8. CASE AllocateReceipt(w)
  <2>1. job' = [job EXCEPT ![w] = [job[w] EXCEPT !.receipt = NextReceipt, !.at = "commit"]]
    BY <1>8 DEF AllocateReceipt, TypeOK
  <2> QED BY <1>1, <2>1, KeptOp, CalmPaying
<1>9. CASE FinalizeCommit(w)
  <2>1. Goto(w, "award") \/ Finish(w)
    BY <1>9 DEF FinalizeCommit
  <2> QED BY <1>3, <1>4, <2>1 DEF Goto, TypeOK
<1>10. CASE UpgradeCas(w)
  <2>1. Finish(w) \/ \E a : Goto(w, a)
    BY <1>10 DEF UpgradeCas
  <2> QED BY <1>3, <1>4, <2>1 DEF Goto, TypeOK
<1> QED BY <1>3, <1>5, <1>6, <1>7, <1>8, <1>9, <1>10 DEF FinalizeDuplicate, AwardPoints, UpgradeCommit

\* A payment's commit writes its row in the transaction that changes the status.
LEMMA CommitTrail ==
    ASSUME MembershipInv, NEW w \in Workers, FinalizeCommit(w)
    PROVE  TrailStep
<1>1. PICK m \in Members : m = job[w].m
  BY CommitEffect
<1>2. /\ member[m].status = job[w].status /\ member'[m].status = "ACTIVE"
      /\ \A k \in Members : k # m => member'[k] = member[k]
  BY <1>1, CommitEffect
<1>3. Exists(m)
  BY <1>1, CommitIsNew DEF Exists, PayableStatuses
<1>4. MoveTrail(m, member[m].status, "ACTIVE") /\ aborts' = aborts
  BY <1>1, <1>2 DEF FinalizeCommit, HistoryFrom
<1>5. Logged(m, "ACTIVE") /\ "ACTIVE" \in Status
  BY <1>2, <1>3, <1>4, PayingTrail DEF Logged, Status
<1> QED BY <1>4, <1>5 DEF TrailStep

\* Every step is one of these, when no death is recorded.
LEMMA TrailKinds ==
    ASSUME MembershipInv, TrailKept, "deceased" \notin Handlers, [Next]_vars
    PROVE  TrailStep
<1> USE DEF MembershipInv
<1>1. ASSUME NEW w \in Workers, Proceed(w) PROVE TrailStep
  <2>1. CASE PlanWrite(w)
    <3>1. job[w].m \in Members /\ ~Owing(job[w])
      BY <2>1, OwingFields DEF PlanWrite, Owing
    <3>2. member[job[w].m] \in MemberRow
      BY <3>1 DEF TypeOK
    <3>3. member'[job[w].m] = PlannedRow(w) \/ member'[job[w].m] = member[job[w].m]
      BY <2>1, <3>1 DEF PlanWrite, TypeOK
    <3>4. member'[job[w].m].status = member[job[w].m].status
      BY <3>2, <3>3 DEF PlannedRow, MemberRow
    <3>5. \A k \in Members : k # job[w].m => member'[k] = member[k]
      BY <2>1, <3>1 DEF PlanWrite, TypeOK
    <3> QED BY <2>1, <3>1, <3>4, <3>5, CalmFinish DEF PlanWrite, Still, TrailStep
  <2>2. CASE RemoveWrite(w)
    <3>1. ~Owing(job[w]) /\ NoRow.status = "NONE"
      BY <2>2 DEF RemoveWrite, Owing, NoRow, NewDraft
    <3>2. \A k \in Members : \/ member'[k] = NoRow
                             \/ member'[k] = member[k] /\ trail'[k] = trail[k]
      BY <2>2 DEF RemoveWrite, TypeOK
    <3> QED BY <2>2, <3>1, <3>2, CalmFinish DEF RemoveWrite, Still, TrailStep
  <2>3. ASSUME FeeStep(w), ~FinalizeCommit(w) PROVE TrailStep
    <3>1. /\ Calm /\ UNCHANGED <<trail, aborts>>
      BY <2>3, PayingTrail DEF FeeStep, OpensPayment, OpensUpgrade, FinalizeCas, UpgradeCas, AllocateMembershipNumber,
                               AllocateReceipt, UpgradeCommit, AwardPoints, database
    <3> QED BY <2>3, <3>1, FeeStepFrame DEF Still, TrailStep
  <2>4. CASE GatewayReadMember(w) \/ FinalizeDuplicate(w) \/ FinalizeCas(w) \/ UpgradeCas(w)
    BY <2>4, PayingTrail DEF GatewayReadMember, FinalizeDuplicate, FinalizeCas, UpgradeCas, database, Still, TrailStep
  <2>5. ~DeceasedCas(w)
    <3>1. job[w] \in Job
      BY DEF TypeOK
    <3> QED BY <3>1 DEF DeceasedCas, Job, PayJobs, PayOps
  <2> QED BY <1>1, <2>1, <2>2, <2>3, <2>4, <2>5, CommitTrail, SubmitTrail, SweepTrail DEF Proceed, FeeStep
<1>2. ASSUME NEW w \in Workers, Start(w) PROVE TrailStep
  BY <1>2, CalmStart DEF database, Still, TrailStep
<1>3. ASSUME NEW m \in Members, Suspend(m) \/ Reactivate(m) PROVE TrailStep
  <2>1. PICK to \in {"ACTIVE", "SUSPENDED"} : Transition(m, member[m].status, to) /\ member[m].status \in {"ACTIVE", "SUSPENDED"}
    BY <1>3 DEF Suspend, Reactivate, Transition
  <2>2. member[m] \in MemberRow
    BY DEF TypeOK
  <2>3. member'[m].status = to
    BY <2>1, <2>2 DEF Transition, TypeOK, MemberRow
  <2>4. \A k \in Members : k # m => member'[k] = member[k]
    BY <2>1 DEF Transition, TypeOK
  <2>5. Logged(m, to) /\ to \in Status
    BY <2>1, <2>3, <2>4, CalmUnchanged DEF Logged, Transition, Exists, Status
  <2> QED BY <2>1, <2>5 DEF TrailStep, Transition
<1>4. CASE Environment
  BY <1>3, <1>4, CalmUnchanged DEF Environment, CreateOrder, Capture, NextDay, Still, TrailStep
<1>5. CASE UNCHANGED vars
  BY <1>5, CalmUnchanged DEF vars, database, Still, TrailStep
<1> QED BY <1>1, <1>2, <1>4, <1>5, AbortTrail DEF Next, TrailStep

\* Where the rows lead from and to.
LEMMA MovedSum ==
    ASSUME NEW s, NEW a, NEW b, NEW c
    PROVE  /\ Moved(s, a, b) \in Int /\ Moved(s, a, a) = 0
           /\ Moved(s, a, b) + Moved(s, b, c) = Moved(s, a, c)
  BY DEF Moved

LEMMA TrailInt ==
    ASSUME TypeOK, NEW m \in Members, NEW s \in Status
    PROVE  trail[m][s] \in Int
  BY DEF TypeOK

LEMMA MoveTrailRows ==
    ASSUME TypeOK, NEW m \in Members, NEW from, NEW to, MoveTrail(m, from, to)
    PROVE  /\ \A s \in Status : trail'[m][s] = trail[m][s] + Moved(s, from, to)
           /\ \A k \in Members : k # m => trail'[k] = trail[k]
<1> DEFINE row == [s \in Status |-> trail[m][s] + (IF s = to THEN 1 ELSE 0) - (IF s = from THEN 1 ELSE 0)]
<1>1. trail' = [trail EXCEPT ![m] = row]
  BY DEF MoveTrail
<1>2. trail'[m] = row /\ \A k \in Members : k # m => trail'[k] = trail[k]
  BY <1>1 DEF TypeOK
<1>3. \A s \in Status : trail[m][s] \in Int
  BY DEF TypeOK
<1> QED BY <1>2, <1>3 DEF Moved

\* The rows of one member, with what is owed of them.
LEMMA LeadsSum ==
    ASSUME NEW m \in Members
    PROVE  TrailLeads(m) <=>
             \A s \in Status :
                 trail[m][s] + (IF Debt("submit", m) THEN Moved(s, "DRAFT", "AWAITING_PAYMENT") ELSE 0)
                             + (IF Debt("sweep", m) THEN Moved(s, "ACTIVE", "EXPIRED") ELSE 0)
                     = Moved(s, "DRAFT", member[m].status)
  BY DEF TrailLeads, OwedMove, Debt

\* Whatever happens to others leaves them alone.
LEMMA LeadsSame ==
    ASSUME NEW m \in Members, TrailLeads(m), trail'[m] = trail[m], member'[m].status = member[m].status,
           Debt("submit", m)' <=> Debt("submit", m), Debt("sweep", m)' <=> Debt("sweep", m)
    PROVE  TrailLeads(m)'
<1>1. \A s \in Status :
         trail'[m][s] + (IF Debt("submit", m)' THEN Moved(s, "DRAFT", "AWAITING_PAYMENT") ELSE 0)
                      + (IF Debt("sweep", m)' THEN Moved(s, "ACTIVE", "EXPIRED") ELSE 0)
             = Moved(s, "DRAFT", member'[m].status)
  BY LeadsSum
<1> QED BY <1>1 DEF TrailLeads, OwedMove, Debt

\* A row written with its status.
LEMMA LeadsLogged ==
    ASSUME TypeOK, NEW m \in Members, NEW to, TrailLeads(m), Logged(m, to)
    PROVE  TrailLeads(m)'
<1>1. \A s \in Status : trail'[m][s] = trail[m][s] + Moved(s, member[m].status, to)
  BY MoveTrailRows DEF Logged
<1>2. member'[m].status = to /\ (Debt("submit", m)' <=> Debt("submit", m)) /\ (Debt("sweep", m)' <=> Debt("sweep", m))
  BY DEF Logged, Calm, Debt
<1>3. ASSUME NEW s \in Status
      PROVE  trail'[m][s] + (IF Debt("submit", m)' THEN Moved(s, "DRAFT", "AWAITING_PAYMENT") ELSE 0)
                          + (IF Debt("sweep", m)' THEN Moved(s, "ACTIVE", "EXPIRED") ELSE 0)
                 = Moved(s, "DRAFT", member'[m].status)
  <2> DEFINE a == IF Debt("submit", m) THEN Moved(s, "DRAFT", "AWAITING_PAYMENT") ELSE 0
             b == IF Debt("sweep", m) THEN Moved(s, "ACTIVE", "EXPIRED") ELSE 0
             st == member[m].status
  <2>1. trail[m][s] + a + b = Moved(s, "DRAFT", st)
    BY LeadsSum
  <2>2. a \in Int /\ b \in Int /\ trail[m][s] \in Int
    BY MovedSum, TrailInt
  <2>3. Moved(s, "DRAFT", st) + Moved(s, st, to) = Moved(s, "DRAFT", to) /\ Moved(s, st, to) \in Int
    BY MovedSum
  <2>4. trail'[m][s] + a + b = Moved(s, "DRAFT", to)
    <3>1. trail'[m][s] = trail[m][s] + Moved(s, st, to)
      BY <1>1
    <3> HIDE DEF a, b, st
    <3> QED BY <2>1, <2>2, <2>3, <3>1
  <2> QED BY <1>2, <2>4
<1> QED BY <1>3 DEF TrailLeads, OwedMove, Debt

\* A status changed with its row owed.
LEMMA LeadsIncurred ==
    ASSUME TypeOK, NEW w \in Workers, NEW m \in Members, NEW op \in {"submit", "sweep"}, TrailLeads(m), Incurred(w, op, m)
    PROVE  TrailLeads(m)'
<1>1. /\ Debt(op, m)' /\ ~Debt(op, m)
      /\ \A o \in {"submit", "sweep"} : o # op => (Debt(o, m)' <=> Debt(o, m))
  BY DEF Incurred, Debt
<1>2. member[m].status = FirstMove(op) /\ member'[m].status = LastMove(op)
  <2>1. member[m] \in MemberRow
    BY DEF TypeOK
  <2> QED BY <2>1 DEF Incurred, TypeOK, MemberRow
<1>3. ASSUME NEW s \in Status
      PROVE  trail'[m][s] + (IF Debt("submit", m)' THEN Moved(s, "DRAFT", "AWAITING_PAYMENT") ELSE 0)
                          + (IF Debt("sweep", m)' THEN Moved(s, "ACTIVE", "EXPIRED") ELSE 0)
                 = Moved(s, "DRAFT", member'[m].status)
  <2>0. Moved(s, "DRAFT", FirstMove(op)) + Moved(s, FirstMove(op), LastMove(op)) = Moved(s, "DRAFT", LastMove(op))
    BY MovedSum
  <2>1. /\ Moved(s, "DRAFT", "AWAITING_PAYMENT") \in Int /\ Moved(s, "ACTIVE", "EXPIRED") \in Int
        /\ Moved(s, "DRAFT", "ACTIVE") \in Int /\ trail[m][s] \in Int
    BY MovedSum, TrailInt
  <2>2. trail[m][s] + (IF Debt("submit", m) THEN Moved(s, "DRAFT", "AWAITING_PAYMENT") ELSE 0)
                    + (IF Debt("sweep", m) THEN Moved(s, "ACTIVE", "EXPIRED") ELSE 0)
          = Moved(s, "DRAFT", FirstMove(op))
    BY <1>2, LeadsSum
  <2>3. trail' = trail
    BY DEF Incurred
  <2>4. CASE op = "submit"
    BY <1>1, <1>2, <2>0, <2>1, <2>2, <2>3, <2>4, MovedSum DEF FirstMove, LastMove
  <2>5. CASE op = "sweep"
    BY <1>1, <1>2, <2>0, <2>1, <2>2, <2>3, <2>5 DEF FirstMove, LastMove
  <2> QED BY <2>4, <2>5
<1> QED BY <1>3 DEF TrailLeads, OwedMove, Debt

\* A row written that was owed.
LEMMA LeadsSettled ==
    ASSUME TypeOK, NEW w \in Workers, NEW m \in Members, NEW op \in {"submit", "sweep"}, TrailLeads(m), Settled(w, op, m), Exists(m)
    PROVE  TrailLeads(m)'
<1>1. /\ Debt(op, m) /\ ~Debt(op, m)'
      /\ \A o \in {"submit", "sweep"} : o # op => (Debt(o, m)' <=> Debt(o, m))
  BY DEF Settled, Debt
<1>2. \A s \in Status : trail'[m][s] = trail[m][s] + Moved(s, FirstMove(op), LastMove(op))
  BY MoveTrailRows DEF Settled
<1>3. ASSUME NEW s \in Status
      PROVE  trail'[m][s] + (IF Debt("submit", m)' THEN Moved(s, "DRAFT", "AWAITING_PAYMENT") ELSE 0)
                          + (IF Debt("sweep", m)' THEN Moved(s, "ACTIVE", "EXPIRED") ELSE 0)
                 = Moved(s, "DRAFT", member'[m].status)
  <2>1. Moved(s, "DRAFT", "AWAITING_PAYMENT") \in Int /\ Moved(s, "ACTIVE", "EXPIRED") \in Int /\ trail[m][s] \in Int
    BY MovedSum, TrailInt
  <2>2. trail[m][s] + (IF Debt("submit", m) THEN Moved(s, "DRAFT", "AWAITING_PAYMENT") ELSE 0)
                    + (IF Debt("sweep", m) THEN Moved(s, "ACTIVE", "EXPIRED") ELSE 0)
          = Moved(s, "DRAFT", member[m].status)
    BY LeadsSum
  <2>3. member' = member
    BY DEF Settled
  <2>4. CASE op = "submit"
    BY <1>1, <1>2, <2>1, <2>2, <2>3, <2>4 DEF FirstMove, LastMove
  <2>5. CASE op = "sweep"
    BY <1>1, <1>2, <2>1, <2>2, <2>3, <2>5 DEF FirstMove, LastMove
  <2> QED BY <2>4, <2>5
<1> QED BY <1>3 DEF TrailLeads, OwedMove, Debt

\* The history rows, those there and those owed, account for every status.
LEMMA NextTrail ==
    ASSUME MembershipInv, MembershipInv', TrailKept, "deceased" \notin Handlers, [Next]_vars
    PROVE  TrailKept'
<1> USE DEF MembershipInv
<1>0. /\ OneSweep
      /\ \A v, w \in Workers, m \in Members : Owes(v, "submit", m) /\ Owes(w, "submit", m) => v = w
      /\ \A w \in Workers, m \in Members : Owes(w, "submit", m) => member[m].status # "DRAFT"
  BY DEF TrailKept
<1>1. CASE Crashed
  BY <1>0, <1>1 DEF Crashed, TrailKept
<1>2. ASSUME Still, aborts' = aborts PROVE TrailKept'
  <2>1. OneSweep' /\ \A v \in Workers, op \in {"submit", "sweep"}, m \in Members : Owes(v, op, m)' <=> Owes(v, op, m)
    BY <1>0, <1>2 DEF Still, Calm
  <2>2. \A v, w \in Workers, m \in Members : Owes(v, "submit", m)' /\ Owes(w, "submit", m)' => v = w
    BY <1>0, <2>1
  <2>3. \A w \in Workers, m \in Members : Owes(w, "submit", m)' => member'[m].status # "DRAFT"
    BY <1>0, <1>2, <2>1 DEF Still
  <2>4. ASSUME aborts' = 0, NEW m \in Members, Exists(m)' PROVE TrailLeads(m)'
    <3>1. trail'[m] = trail[m] /\ member'[m].status = member[m].status /\ Exists(m)
      BY <1>2, <2>4 DEF Still, Exists
    <3>2. TrailLeads(m)
      BY <1>2, <2>4, <3>1 DEF TrailKept
    <3>3. (Debt("submit", m)' <=> Debt("submit", m)) /\ (Debt("sweep", m)' <=> Debt("sweep", m))
      BY <2>1 DEF Debt
    <3> QED BY <3>1, <3>2, <3>3, LeadsSame
  <2> QED BY <2>1, <2>2, <2>3, <2>4 DEF TrailKept
<1>3. ASSUME NEW m \in Members, NEW to \in Status, Logged(m, to), aborts' = aborts PROVE TrailKept'
  <2>1. OneSweep' /\ \A v \in Workers, op \in {"submit", "sweep"}, k \in Members : Owes(v, op, k)' <=> Owes(v, op, k)
    BY <1>0, <1>3 DEF Logged, Calm
  <2>2. \A v, w \in Workers, k \in Members : Owes(v, "submit", k)' /\ Owes(w, "submit", k)' => v = w
    BY <1>0, <2>1
  <2>3. \A w \in Workers, k \in Members : Owes(w, "submit", k)' => member'[k].status # "DRAFT"
    BY <1>0, <1>3, <2>1 DEF Logged
  <2>4. ASSUME aborts' = 0, NEW k \in Members, Exists(k)' PROVE TrailLeads(k)'
    <3>1. CASE k = m
      BY <1>3, <2>4, <3>1, LeadsLogged DEF TrailKept, Logged
    <3>2. CASE k # m
      <4>1. trail'[k] = trail[k] /\ member'[k] = member[k] /\ Exists(k)
        BY <1>3, <2>4, <3>2, MoveTrailRows DEF Logged, Exists
      <4>2. TrailLeads(k)
        BY <1>3, <2>4, <4>1 DEF TrailKept
      <4>3. (Debt("submit", k)' <=> Debt("submit", k)) /\ (Debt("sweep", k)' <=> Debt("sweep", k))
        BY <2>1 DEF Debt
      <4> QED BY <4>1, <4>2, <4>3, LeadsSame
    <3> QED BY <3>1, <3>2
  <2> QED BY <2>1, <2>2, <2>3, <2>4 DEF TrailKept
<1>4. ASSUME NEW w \in Workers, NEW m \in Members, NEW op \in {"submit", "sweep"}, OneSweep', aborts' = aborts,
             Incurred(w, op, m)
      PROVE  TrailKept'
  <2>1. \A v \in Workers, k \in Members, o \in {"submit", "sweep"} :
           Owes(v, o, k)' <=> Owes(v, o, k) \/ (v = w /\ o = op /\ k = m)
    BY <1>4 DEF Incurred
  <2>2. \A u, v \in Workers, k \in Members : Owes(u, "submit", k)' /\ Owes(v, "submit", k)' => u = v
    BY <1>0, <1>4, <2>1 DEF Incurred, Debt
  <2>3. /\ member'[m].status = LastMove(op) /\ \A k \in Members : k # m => member'[k] = member[k]
    <3>1. member[m] \in MemberRow
      BY DEF TypeOK
    <3> QED BY <1>4, <3>1 DEF Incurred, TypeOK, MemberRow
  <2>4. \A v \in Workers, k \in Members : Owes(v, "submit", k)' => member'[k].status # "DRAFT"
    BY <1>0, <2>1, <2>3 DEF LastMove
  <2>5. ASSUME aborts' = 0, NEW k \in Members, Exists(k)' PROVE TrailLeads(k)'
    <3>1. CASE k = m
      <4>1. TrailLeads(m)
        BY <1>4, <2>5 DEF TrailKept, Incurred, Exists, FirstMove
      <4> QED BY <1>4, <3>1, <4>1, LeadsIncurred
    <3>2. CASE k # m
      <4>1. trail'[k] = trail[k] /\ member'[k] = member[k] /\ Exists(k)
        BY <1>4, <2>3, <2>5, <3>2 DEF Incurred, Exists
      <4>2. TrailLeads(k)
        BY <1>4, <2>5, <4>1 DEF TrailKept
      <4>3. (Debt("submit", k)' <=> Debt("submit", k)) /\ (Debt("sweep", k)' <=> Debt("sweep", k))
        BY <2>1, <3>2 DEF Debt
      <4> QED BY <4>1, <4>2, <4>3, LeadsSame
    <3> QED BY <3>1, <3>2
  <2> QED BY <1>4, <2>2, <2>4, <2>5 DEF TrailKept
<1>5. ASSUME NEW w \in Workers, NEW m \in Members, NEW op \in {"submit", "sweep"}, OneSweep', aborts' = aborts,
             Settled(w, op, m)
      PROVE  TrailKept'
  <2>1. \A v \in Workers, k \in Members, o \in {"submit", "sweep"} :
           Owes(v, o, k)' <=> Owes(v, o, k) /\ ~(v = w /\ o = op /\ k = m)
    BY <1>5 DEF Settled
  <2>2. \A u, v \in Workers, k \in Members : Owes(u, "submit", k)' /\ Owes(v, "submit", k)' => u = v
    BY <1>0, <2>1
  <2>3. member' = member
    BY <1>5 DEF Settled
  <2>4. \A v \in Workers, k \in Members : Owes(v, "submit", k)' => member'[k].status # "DRAFT"
    BY <1>0, <2>1, <2>3
  <2>5. ASSUME aborts' = 0, NEW k \in Members, Exists(k)' PROVE TrailLeads(k)'
    <3>0. Exists(k) /\ TrailLeads(k)
      BY <1>5, <2>3, <2>5 DEF TrailKept, Exists
    <3>1. CASE k = m
      BY <1>5, <3>0, <3>1, LeadsSettled
    <3>2. CASE k # m
      <4>1. trail'[k] = trail[k] /\ member'[k] = member[k]
        BY <1>5, <2>3, <3>2, MoveTrailRows DEF Settled
      <4>2. (Debt("submit", k)' <=> Debt("submit", k)) /\ (Debt("sweep", k)' <=> Debt("sweep", k))
        BY <2>1, <3>2 DEF Debt
      <4> QED BY <3>0, <4>1, <4>2, LeadsSame
    <3> QED BY <3>1, <3>2
  <2> QED BY <1>5, <2>2, <2>4, <2>5 DEF TrailKept
<1> QED BY <1>1, <1>2, <1>3, <1>4, <1>5, TrailKinds DEF TrailStep, HistoryStep

LEMMA InitTrail == Init => TrailKept
<1> SUFFICES ASSUME Init PROVE TrailKept
  OBVIOUS
<1>1. \A w \in Workers : job[w].op = "idle"
  BY DEF Init
<1>2. \A w \in Workers, m \in Members, op \in {"submit", "sweep"} : ~Owes(w, op, m)
  BY <1>1 DEF Owes, At
<1>3. ASSUME NEW m \in Members PROVE TrailLeads(m)
  <2>1. \A s \in Status : trail[m][s] = 0
    BY DEF Init, EmptyTrail
  <2>2. member[m].status = "DRAFT" /\ ~Debt("submit", m) /\ ~Debt("sweep", m)
    BY <1>2, InitRows DEF Debt
  <2> QED BY <2>1, <2>2, LeadsSum, MovedSum
<1> QED BY <1>1, <1>2, <1>3 DEF TrailKept, OneSweep

\* Without crashes, once no handler still owes its row, the rows of the status
\* history lead from DRAFT to the status of the member, in whatever order the
\* daily job, renewals, suspensions, edits and deletions interleaved; a death, whose
\* handler writes the status that it read before its transaction, is left out.
THEOREM HistoryAccounts == "deceased" \notin Handlers => (Spec => []TrailAccountsForStatus)
<1> SUFFICES ASSUME "deceased" \notin Handlers PROVE Spec => []TrailAccountsForStatus
  OBVIOUS
<1>1. MembershipInv /\ MembershipInv' /\ TrailKept /\ [Next]_vars => TrailKept'
  BY NextTrail
<1>2. MembershipInv /\ TrailKept => TrailAccountsForStatus
  <2> SUFFICES ASSUME MembershipInv, TrailKept, NEW m \in Members, aborts = 0, Exists(m), Owed(m) = {}, NEW s \in Status
               PROVE  trail[m][s] = (IF s = member[m].status THEN 1 ELSE 0) - (IF s = "DRAFT" THEN 1 ELSE 0)
    BY DEF TrailAccountsForStatus
  <2>1. ~Debt("submit", m) /\ ~Debt("sweep", m)
    BY DEF Owed, Debt, Owes, At
  <2>2. trail[m][s] = Moved(s, "DRAFT", member[m].status)
    <3>1. trail[m][s] + 0 + 0 = Moved(s, "DRAFT", member[m].status)
      BY <2>1, LeadsSum DEF TrailKept
    <3> QED BY <3>1, TrailInt DEF MembershipInv
  <2> QED BY <2>2 DEF Moved
<1> QED BY <1>1, <1>2, InitTrail, Invariant, PTL DEF Spec

-----------------------------------------------------------------------------
(* The membership numbers.                                                 *)

\* What a payment keeps as it goes on, and what it gains.
LEMMA KeptPay ==
    ASSUME NEW j \in Job, j.op \in PayOps, NEW a, NEW b
    PROVE  /\ \A k \in {[j EXCEPT !.at = a], [j EXCEPT !.at = a, !.day = b], [j EXCEPT !.receipt = b, !.at = a]} :
                 k.op = j.op /\ k.m = j.m /\ k.g = j.g /\ k.number = j.number /\ k.at = a
           /\ \A k \in {[j EXCEPT !.number = b, !.at = a]} :
                 k.op = j.op /\ k.m = j.m /\ k.g = j.g /\ k.number = b /\ k.at = a
<1>1. \/ j \in PayJobs({"verify", "webhook"}, {"member"}, Captures, Plans \cup {None}, Status, {None}, {None})
      \/ j \in PayJobs(PayOps, {"cas", "number"}, Captures \cup {None}, Plans, PayableStatuses, {None}, {None})
      \/ j \in PayJobs(PayOps, {"receipt"}, Captures \cup {None}, Plans, PayableStatuses, Nat \cup {None}, {None})
      \/ j \in PayJobs(PayOps, {"commit", "award"}, Captures \cup {None}, Plans, PayableStatuses, Nat \cup {None}, Nat)
  BY DEF Job, PayJobs, PayOps
<1>2. \E ops, ats, gs, plans, statuses, numbers, receipts : j \in PayJobs(ops, ats, gs, plans, statuses, numbers, receipts)
  BY <1>1
<1> QED BY <1>2 DEF PayJobs

\* The next state of a handler, whose payment is of the member of the order.
Follows(w, j) == job' = [job EXCEPT ![w] = j] /\ (j.op \in PayOps => Captured(j.g, j.m))

LEMMA FollowsKept ==
    ASSUME TypeOK, CapturesKept, UNCHANGED order, NEW w \in Workers, NEW j, Follows(w, j)
    PROVE  \A v \in Workers : job'[v].op \in PayOps => Captured(job'[v].g, job'[v].m)
<1>1. job'[w] = j /\ \A v \in Workers : v # w => job'[v] = job[v]
  BY DEF TypeOK, Follows
<1> QED BY <1>1 DEF Follows, CapturesKept

\* A handler that ends, and one that is no payment, follow trivially.
LEMMA FollowsFinish ==
    ASSUME NEW w \in Workers, Finish(w)
    PROVE  \E j : Follows(w, j)
<1>1. [op |-> "idle"].op \notin PayOps
  BY DEF PayOps
<1> QED BY <1>1 DEF Follows, Finish

\* A payment goes on with its member and its captured payment.
LEMMA PayingFollows ==
    ASSUME MembershipInv, CapturesKept, NEW w \in Workers,
           \/ GatewayReadMember(w) \/ FinalizeCas(w) \/ AllocateMembershipNumber(w) \/ AllocateReceipt(w)
           \/ FinalizeCommit(w) \/ FinalizeDuplicate(w) \/ AwardPoints(w) \/ UpgradeCas(w) \/ UpgradeCommit(w)
    PROVE  \E j : Follows(w, j)
<1> USE DEF MembershipInv
<1>1. job[w] \in Job /\ (job[w].op \in PayOps => Captured(job[w].g, job[w].m))
  BY DEF TypeOK, CapturesKept
<1>2. ASSUME job[w].op \in PayOps, NEW j, job' = [job EXCEPT ![w] = j], j.g = job[w].g, j.m = job[w].m
      PROVE  \E k : Follows(w, k)
  BY <1>1, <1>2 DEF Follows
<1>3. CASE GatewayReadMember(w)
  <2> DEFINE j == PayJob(job[w].op, "cas", job[w].m, job[w].g, job[w].quoted)
  <2>1. CASE IsPayable(job[w].m)
    <3>1. job' = [job EXCEPT ![w] = j] /\ job[w].op \in PayOps
      BY <1>3, <2>1 DEF GatewayReadMember, At, TypeOK
    <3>2. j.g = job[w].g /\ j.m = job[w].m
      BY DEF PayJob
    <3> QED BY <1>2, <3>1, <3>2
  <2> QED BY <1>3, <2>1, FollowsFinish DEF GatewayReadMember
<1>4. CASE FinalizeCas(w)
  <2> DEFINE a == IF Activates(w) THEN "number" ELSE "receipt"
             d == IF Activates(w) THEN today ELSE job[w].day
  <2>1. CASE CasMatches(w) /\ (Activates(w) \/ HasValidity(job[w].plan))
    <3>1. job' = [job EXCEPT ![w] = [job[w] EXCEPT !.at = a, !.day = d]] /\ job[w].op \in PayOps
      BY <1>4, <2>1 DEF FinalizeCas, At, TypeOK
    <3> HIDE DEF a, d
    <3>2. [job[w] EXCEPT !.at = a, !.day = d].g = job[w].g /\ [job[w] EXCEPT !.at = a, !.day = d].m = job[w].m
      BY <1>1, <3>1, KeptPay
    <3> QED BY <1>2, <3>1, <3>2
  <2> QED BY <1>4, <2>1, FollowsFinish DEF FinalizeCas
<1>5. CASE AllocateMembershipNumber(w)
  <2>1. job' = [job EXCEPT ![w] = [job[w] EXCEPT !.number = membershipSeq + 1, !.at = "receipt"]] /\ job[w].op \in PayOps
    BY <1>5 DEF AllocateMembershipNumber, At, TypeOK
  <2> DEFINE j == [job[w] EXCEPT !.number = membershipSeq + 1, !.at = "receipt"]
  <2>2. j.g = job[w].g /\ j.m = job[w].m
    BY <1>1, <2>1, KeptPay
  <2> QED BY <1>2, <2>1, <2>2
<1>6. CASE AllocateReceipt(w)
  <2>1. job' = [job EXCEPT ![w] = [job[w] EXCEPT !.receipt = NextReceipt, !.at = "commit"]]
    BY <1>6 DEF AllocateReceipt, TypeOK
  <2>2. CASE job[w].op \in PayOps
    <3> DEFINE j == [job[w] EXCEPT !.receipt = NextReceipt, !.at = "commit"]
    <3>1. j.g = job[w].g /\ j.m = job[w].m
      BY <1>1, <2>2, KeptPay
    <3> QED BY <1>2, <2>1, <2>2, <3>1
  <2>3. CASE job[w].op = "upgrade"
    <3>1. [job[w] EXCEPT !.receipt = NextReceipt, !.at = "commit"].op \notin PayOps
      BY <1>1, <2>3, KeptOp DEF PayOps
    <3> QED BY <2>1, <3>1 DEF Follows
  <2> QED BY <1>6, <2>2, <2>3 DEF AllocateReceipt, At
<1>7. CASE FinalizeCommit(w)
  <2>1. CASE Goto(w, "award")
    <3>1. job' = [job EXCEPT ![w] = [job[w] EXCEPT !.at = "award"]] /\ job[w].op \in PayOps
      BY <1>7, <2>1 DEF FinalizeCommit, At, Goto, TypeOK
    <3> QED BY <1>1, <1>2, <3>1, KeptPay
  <2> QED BY <1>7, <2>1, FollowsFinish DEF FinalizeCommit
<1>8. CASE UpgradeCas(w)
  <2>1. ASSUME NEW a, Goto(w, a) PROVE \E j : Follows(w, j)
    <3>1. job' = [job EXCEPT ![w] = [job[w] EXCEPT !.at = a]] /\ job[w].op = "upgrade"
      BY <1>8, <2>1 DEF UpgradeCas, At, Goto, TypeOK
    <3>2. [job[w] EXCEPT !.at = a].op \notin PayOps
      BY <1>1, <3>1, KeptOp DEF PayOps
    <3> QED BY <3>1, <3>2 DEF Follows
  <2> QED BY <1>8, <2>1, FollowsFinish DEF UpgradeCas
<1> QED BY <1>3, <1>4, <1>5, <1>6, <1>7, <1>8, FollowsFinish DEF FinalizeDuplicate, AwardPoints, UpgradeCommit

\* A handler that begins, and one that is no payment.
LEMMA StartFollows ==
    ASSUME TypeOK, NEW w \in Workers, Start(w)
    PROVE  \E j : Follows(w, j)
<1>1. ASSUME NEW m \in Members, NEW sets, NEW p, NEW o, SelectPlanRead(w, m, p) \/ EditPlanRead(w, m, sets, p, o)
      PROVE  \E j : Follows(w, j)
  <2>1. ASSUME NEW k, k.op = "plan", Begin(w, k) PROVE \E j : Follows(w, j)
    <3>1. Follows(w, k)
      BY <2>1 DEF Begin, Follows, PayOps
    <3> QED BY <3>1
  <2> QED BY <1>1, <2>1 DEF SelectPlanRead, EditPlanRead
<1>2. ASSUME NEW m \in Members, SubmitRead(w, m) PROVE \E j : Follows(w, j)
  <2>1. Follows(w, [op |-> "submit", at |-> "cas", m |-> m])
    BY <1>2 DEF SubmitRead, Begin, Follows, PayOps
  <2> QED BY <2>1
<1>3. ASSUME NEW m \in Members, RemoveRead(w, m) PROVE \E j : Follows(w, j)
  <2>1. Follows(w, [op |-> "remove", m |-> m])
    BY <1>3 DEF RemoveRead, Begin, Follows, PayOps
  <2> QED BY <2>1
<1>4. ASSUME NEW m \in Members, NEW p, UpgradeRead(w, m, p) PROVE \E j : Follows(w, j)
  <2>1. Follows(w, [op |-> "upgrade", at |-> "cas", m |-> m, plan |-> member[m].plan, fee |-> EffectiveFee(m),
                    to |-> p, receipt |-> None])
    BY <1>4 DEF UpgradeRead, Begin, Follows, PayOps
  <2> QED BY <2>1
<1>5. ASSUME NEW m \in Members, RecordPaymentRead(w, m) PROVE \E j : Follows(w, j)
  <2>1. Follows(w, PayJob("manual", "cas", m, None, member[m].plan))
    BY <1>5 DEF RecordPaymentRead, Begin, Follows, PayJob, Captured
  <2> QED BY <2>1
<1>6. ASSUME NEW g \in Captures, NEW op, GatewayFind(w, op, g) PROVE \E j : Follows(w, j)
  <2>1. Follows(w, PayJob(op, "member", order[g].m, g, order[g].plan))
    BY <1>6 DEF GatewayFind, Begin, Follows, PayJob, Captured
  <2> QED BY <2>1
<1>7. CASE SweepFind(w)
  <2>1. Follows(w, [op |-> "sweep", at |-> "expire", todo |-> OverdueMembers, m |-> None])
    BY <1>7 DEF SweepFind, Begin, Follows, PayOps
  <2> QED BY <2>1
<1>8. ASSUME NEW m \in Members, DeceasedRead(w, m) PROVE \E j : Follows(w, j)
  <2>1. Follows(w, [op |-> "deceased", m |-> m, status |-> member[m].status])
    BY <1>8 DEF DeceasedRead, Begin, Follows, PayOps
  <2> QED BY <2>1
<1> QED BY <1>1, <1>2, <1>3, <1>4, <1>5, <1>6, <1>7, <1>8 DEF Start

LEMMA OthersFollow ==
    ASSUME TypeOK, NEW w \in Workers,
           \/ PlanWrite(w) \/ SubmitCas(w) \/ SubmitHistory(w) \/ RemoveWrite(w) \/ SweepHistory(w) \/ DeceasedCas(w)
           \/ Abort(w) \/ \E m \in Members : SweepExpire(w, m)
    PROVE  \E j : Follows(w, j)
<1>1. CASE SubmitCas(w)
  <2>1. CASE Goto(w, "history")
    <3>1. job[w] \in [op : {"submit"}, at : {"cas", "history"}, m : Members]
      BY <1>1, OwingFields DEF SubmitCas
    <3>2. [job[w] EXCEPT !.at = "history"].op \notin PayOps
      BY <3>1 DEF PayOps
    <3>3. job' = [job EXCEPT ![w] = [job[w] EXCEPT !.at = "history"]]
      BY <2>1 DEF Goto, TypeOK
    <3> QED BY <3>2, <3>3 DEF Follows
  <2> QED BY <1>1, <2>1, FollowsFinish DEF SubmitCas
<1>2. ASSUME NEW todo, Continue(w, todo) PROVE \E j : Follows(w, j)
  <2>1. [op |-> "sweep", at |-> "expire", todo |-> todo, m |-> None].op \notin PayOps
    BY DEF PayOps
  <2> QED BY <1>2, <2>1, FollowsFinish DEF Continue, Follows
<1>3. ASSUME NEW m \in Members, SweepExpire(w, m) PROVE \E j : Follows(w, j)
  <2> DEFINE j == [job[w] EXCEPT !.at = "history", !.m = m, !.todo = @ \ {m}]
  <2>1. CASE member[m].status = "ACTIVE"
    <3>1. job[w] \in [op : {"sweep"}, at : {"expire"}, todo : SUBSET Members, m : {None}]
      BY <1>3, OwingFields DEF SweepExpire
    <3>2. job' = [job EXCEPT ![w] = j]
      BY <1>3, <2>1 DEF SweepExpire, TypeOK
    <3>3. j.op \notin PayOps
      BY <3>1 DEF PayOps
    <3> QED BY <3>2, <3>3 DEF Follows
  <2> QED BY <1>2, <1>3, <2>1 DEF SweepExpire
<1>4. CASE SweepHistory(w)
  BY <1>2, <1>4, FollowsFinish DEF SweepHistory
<1> QED BY <1>1, <1>3, <1>4, FollowsFinish DEF PlanWrite, SubmitHistory, RemoveWrite, DeceasedCas, Abort

\* The order of a captured payment is settled for good.
LEMMA NextCaptures ==
    ASSUME MembershipInv, MembershipInv', CapturesKept, [Next]_vars
    PROVE  CapturesKept'
<1> USE DEF MembershipInv
<1>1. ASSUME NEW w \in Workers, Start(w) \/ Proceed(w) \/ Abort(w) PROVE CapturesKept'
  <2>1. UNCHANGED order
    BY <1>1, CalmStart DEF database, Proceed, PlanWrite, SubmitCas, SubmitHistory, RemoveWrite, GatewayReadMember,
       FinalizeCas, AllocateMembershipNumber, AllocateReceipt, FinalizeCommit, FinalizeDuplicate, AwardPoints, UpgradeCas,
       UpgradeCommit, SweepExpire, SweepHistory, DeceasedCas, Abort
  <2>2. \E j : Follows(w, j)
    BY <1>1, StartFollows, PayingFollows, OthersFollow DEF Proceed
  <2>3. \A v \in Workers : job'[v].op \in PayOps => Captured(job'[v].g, job'[v].m)
    BY <2>1, <2>2, FollowsKept
  <2>4. \A p \in payments' : p \in payments \/ p.g = None \/ Captured(p.g, p.m)
    <3>1. CASE FinalizeCommit(w)
      <4>1. payments' = payments \cup {Payment(w)} /\ Payment(w).m = job[w].m /\ Payment(w).g = job[w].g /\ job[w].op \in PayOps
        BY <3>1, CommitEffect
      <4> QED BY <4>1 DEF CapturesKept
    <3>2. CASE Background
      BY <3>2 DEF Background
    <3>3. CASE RemoveWrite(w)
      BY <3>3 DEF RemoveWrite
    <3>4. ASSUME FeeStep(w), ~FinalizeCommit(w) PROVE \A p \in payments' : p \in payments \/ p.g = None
      BY <3>4, FeeStepFrame
    <3>5. Background \/ FeeStep(w) \/ RemoveWrite(w)
      <4>1. ASSUME Abort(w) PROVE Background
        BY <4>1, QuietFinish, KeepsUnchanged DEF Abort, Background
      <4> QED BY <1>1, <4>1, StartBackground, ProceedKinds
    <3> QED BY <3>1, <3>2, <3>3, <3>4, <3>5
  <2> QED BY <2>1, <2>3, <2>4 DEF CapturesKept, Captured
<1>2. ASSUME NEW m \in Members, NEW g \in Captures, CreateOrder(m, g) PROVE CapturesKept'
  <2>1. \A h : h # g => order'[h] = order[h]
    BY <1>2 DEF CreateOrder, TypeOK
  <2>2. order[g].state # "captured" /\ UNCHANGED <<payments, job>>
    BY <1>2 DEF CreateOrder
  <2> QED BY <2>1, <2>2 DEF CapturesKept, Captured
<1>3. ASSUME NEW g \in Captures, Capture(g) PROVE CapturesKept'
  <2>1. \A h : h # g => order'[h] = order[h]
    BY <1>3 DEF Capture, TypeOK
  <2>2. order[g].state # "captured" /\ UNCHANGED <<payments, job>>
    BY <1>3 DEF Capture
  <2> QED BY <2>1, <2>2 DEF CapturesKept, Captured
<1>4. ASSUME UNCHANGED <<payments, job, order>> PROVE CapturesKept'
  BY <1>4 DEF CapturesKept, Captured
<1>5. CASE Environment
  BY <1>2, <1>3, <1>4, <1>5 DEF Environment, Suspend, Reactivate, Transition, NextDay
<1> QED BY <1>1, <1>4, <1>5 DEF Next, vars, database

\* An open payment goes on, fails, or finds its payment recorded.
LEMMA OpenGoesOn ==
    ASSUME TypeOK, [Next]_vars, NEW w \in Workers, InTx(w)
    PROVE  job'[w] = job[w] \/ aborts' # 0 \/ FinalizeDuplicate(w) \/ FeeStep(w)
<1>1. job[w].op \in PayOps \cup {"upgrade"} /\ job[w].at \in {"number", "receipt", "commit"} /\ job \in [Workers -> Job]
  BY DEF InTx, TypeOK
<1>2. ASSUME NEW v \in Workers, Start(v) \/ Proceed(v) \/ Abort(v), v # w PROVE job'[w] = job[w]
  <2>1. \E j : job' = [job EXCEPT ![v] = j]
    BY <1>2, <1>1, ZenonT(40) DEF Start, Proceed, Abort, SelectPlanRead, EditPlanRead, UpgradeRead, SubmitRead, RemoveRead, RecordPaymentRead,
       DeceasedRead, GatewayFind, SweepFind, PlanWrite, SubmitCas, SubmitHistory, RemoveWrite, GatewayReadMember,
       FinalizeCas, AllocateMembershipNumber, AllocateReceipt, FinalizeCommit, FinalizeDuplicate, AwardPoints, UpgradeCas,
       UpgradeCommit, SweepExpire, SweepHistory, DeceasedCas, Continue, Finish, Goto, Begin
  <2> QED BY <1>1, <1>2, <2>1
<1>3. ASSUME Proceed(w) PROVE FinalizeDuplicate(w) \/ FeeStep(w)
  BY <1>1, <1>3 DEF Proceed, FeeStep, PlanWrite, SubmitCas, SubmitHistory, RemoveWrite, GatewayReadMember,
     FinalizeCas, UpgradeCas, SweepExpire, SweepHistory, DeceasedCas, At, PayOps
<1>4. ~Start(w)
  BY <1>1 DEF Start, SelectPlanRead, EditPlanRead, UpgradeRead, SubmitRead, RemoveRead, RecordPaymentRead,
     DeceasedRead, GatewayFind, SweepFind, Begin, Idle, PayOps
<1>5. ASSUME Abort(w) PROVE aborts' # 0
  BY <1>5 DEF Abort, TypeOK
<1>6. ASSUME Environment \/ UNCHANGED vars PROVE job'[w] = job[w]
  BY <1>6 DEF Environment, CreateOrder, Capture, Suspend, Reactivate, Transition, NextDay, vars, database
<1> QED BY <1>2, <1>3, <1>4, <1>5, <1>6 DEF Next

\* A payment found recorded already holds no number: its member was activated by
\* the row that it found, while an activation's row waits for its payment.
LEMMA DuplicateHoldsNone ==
    ASSUME MembershipInv, CapturesKept, NEW w \in Workers, FinalizeDuplicate(w)
    PROVE  w \notin Holding
<1> USE DEF MembershipInv
<1>1. /\ job[w].op \in PayOps /\ job[w].at = "commit" /\ InTx(w) /\ job[w].g # None
      /\ \E p \in payments : p.g = job[w].g
  BY DEF FinalizeDuplicate, At, InTx, PaymentIsNew, Recorded
<1>2. PICK p \in payments : p.g = job[w].g
  BY <1>1
<1>3. p.m = job[w].m /\ job[w].m \in Members
  BY <1>1, <1>2, PayJobFields DEF CapturesKept, Captured
<1>4. member[job[w].m].number # None
  BY <1>3 DEF UnpaidUntilActivated, PaymentsOf
<1>5. member[job[w].m].status = job[w].status
  BY <1>1 DEF TransactionsHold, PayOps
<1>6. ~Activates(w)
  BY <1>3, <1>4, <1>5 DEF Activates, NumberedOnceActivated, ActivatedStatuses
<1> QED BY <1>1, <1>6 DEF NumbersIssued, Holding

\* The steps that take no number and give none to a member.
LEMMA SeriesSame ==
    ASSUME SeriesKept, CapturesKept', aborts' = aborts, membershipSeq' = membershipSeq, Numbered' = Numbered, Holding' = Holding
    PROVE  SeriesKept'
  BY DEF SeriesKept, MembershipSeriesDense

LEMMA HoldingNumbers ==
    ASSUME NEW w \in Workers
    PROVE  w \in Holding <=> Numbering(w)
  BY DEF Holding, Numbering, InTx, PayOps

\* A step of a payment changes no one else's number.
LEMMA HoldingStep ==
    ASSUME TypeOK, NEW w \in Workers, NEW j, job' = [job EXCEPT ![w] = j]
    PROVE  \A v \in Workers : v # w => (v \in Holding' <=> v \in Holding)
<1>1. \A v \in Workers : v # w => job'[v] = job[v]
  BY DEF TypeOK
<1> QED BY <1>1 DEF Holding, InTx

LEMMA FeeSeries ==
    ASSUME MembershipInv, MembershipInv', SeriesKept, CapturesKept', NEW w \in Workers, FeeStep(w)
    PROVE  SeriesKept'
<1> USE DEF MembershipInv
<1>1. job[w] \in Job /\ "upgrade" \notin PayOps
  BY DEF TypeOK, PayOps
<1>2. /\ aborts' = aborts
      /\ ~AllocateMembershipNumber(w) => membershipSeq' = membershipSeq
  BY DEF FeeStep, OpensPayment, OpensUpgrade, FinalizeCas, UpgradeCas, AllocateMembershipNumber,
         AllocateReceipt, FinalizeCommit, UpgradeCommit, AwardPoints, database
<1>3. ASSUME ~FinalizeCommit(w) PROVE Numbered' = Numbered
  <2>1. \A m \in Members : member'[m].number = member[m].number
    BY <1>3, FeeStepFrame
  <2> QED BY <2>1 DEF Numbered
<1>4. ASSUME NEW j, job' = [job EXCEPT ![w] = j], w \in Holding' <=> w \in Holding PROVE Holding' = Holding
  <2>1. \A v \in Workers : v # w => (v \in Holding' <=> v \in Holding)
    BY <1>4, HoldingStep
  <2> QED BY <1>4, <2>1 DEF Holding
<1>5. ASSUME Finish(w), w \notin Holding PROVE Holding' = Holding
  <2>1. w \notin Holding'
    BY <1>5 DEF Holding, InTx, Finish, PayOps, TypeOK
  <2> QED BY <1>4, <1>5, <2>1 DEF Finish
<1>6. CASE OpensPayment(w)
  <2> DEFINE a == IF Activates(w) THEN "number" ELSE "receipt"
             d == IF Activates(w) THEN today ELSE job[w].day
             j == [job[w] EXCEPT !.at = a, !.day = d]
  <2>1. job' = [job EXCEPT ![w] = j] /\ job[w].op \in PayOps /\ job[w].at = "cas" /\ ~FinalizeCommit(w) /\ ~AllocateMembershipNumber(w)
    BY <1>6 DEF OpensPayment, FinalizeCas, At, FinalizeCommit, AllocateMembershipNumber, TypeOK
  <2> HIDE DEF a, d
  <2>2. j.number = job[w].number /\ job[w].number = None
    BY <1>1, <2>1, KeptPay, PayJobFields
  <2> HIDE DEF j
  <2>3. job'[w] = j
    BY <2>1 DEF TypeOK
  <2>4. w \notin Holding' /\ w \notin Holding
    BY <2>2, <2>3 DEF Holding
  <2> QED BY <1>2, <1>3, <1>4, <2>1, <2>4, SeriesSame
<1>7. CASE OpensUpgrade(w)
  <2>1. PICK a : job' = [job EXCEPT ![w] = [job[w] EXCEPT !.at = a]]
    BY <1>7 DEF OpensUpgrade, UpgradeCas, Goto, TypeOK
  <2> DEFINE j == [job[w] EXCEPT !.at = a]
  <2>2. job[w].op = "upgrade" /\ ~FinalizeCommit(w) /\ ~AllocateMembershipNumber(w)
    BY <1>1, <1>7 DEF OpensUpgrade, UpgradeCas, At, FinalizeCommit, AllocateMembershipNumber
  <2>3. j.op = "upgrade"
    BY <1>1, <2>2, KeptOp
  <2> HIDE DEF j
  <2>4. job' = [job EXCEPT ![w] = j] /\ job'[w] = j
    BY <2>1 DEF TypeOK, j
  <2>5. w \notin Holding' /\ w \notin Holding
    BY <2>2, <2>3, <2>4 DEF Holding
  <2> QED BY <1>2, <1>3, <1>4, <2>2, <2>4, <2>5, SeriesSame
<1>8. CASE AllocateMembershipNumber(w)
  <2> DEFINE j == [job[w] EXCEPT !.number = membershipSeq + 1, !.at = "receipt"]
  <2>1. /\ job' = [job EXCEPT ![w] = j] /\ job[w].op \in PayOps /\ job[w].at = "number" /\ ~FinalizeCommit(w)
        /\ membershipSeq' = membershipSeq + 1 /\ membershipSeq \in Nat
    BY <1>8 DEF AllocateMembershipNumber, At, FinalizeCommit, TypeOK
  <2>2. j.op = job[w].op /\ j.number = membershipSeq + 1 /\ j.at = "receipt" /\ job[w].number = None
    BY <1>1, <2>1, KeptPay, PayJobFields
  <2> HIDE DEF j
  <2>3. job'[w] = j
    BY <2>1 DEF TypeOK
  <2>4. membershipSeq + 1 # None
    BY <2>1
  <2>5. w \in Holding' /\ w \notin Holding
    BY <1>1, <2>1, <2>2, <2>3, <2>4 DEF Holding, InTx
  <2>6. Holding' = Holding \cup {w}
    <3>1. \A v \in Workers : v # w => (v \in Holding' <=> v \in Holding)
      BY <2>1, HoldingStep
    <3> QED BY <2>5, <3>1 DEF Holding
  <2>7. ASSUME aborts' = 0
        PROVE  /\ IsFiniteSet(Numbered') /\ IsFiniteSet(Holding')
               /\ membershipSeq' = Cardinality(Numbered') + Cardinality(Holding')
    <3>1. IsFiniteSet(Numbered) /\ IsFiniteSet(Holding) /\ membershipSeq = Cardinality(Numbered) + Cardinality(Holding)
      BY <1>2, <2>7 DEF SeriesKept, MembershipSeriesDense
    <3>2. IsFiniteSet(Holding \cup {w}) /\ Cardinality(Holding \cup {w}) = Cardinality(Holding) + 1
      BY <2>5, <3>1, FS_AddElement
    <3>3. Cardinality(Numbered) \in Nat /\ Cardinality(Holding) \in Nat /\ Numbered' = Numbered
      BY <1>3, <2>1, <3>1, FS_CardinalityType
    <3> QED BY <2>1, <2>6, <3>1, <3>2, <3>3
  <2> QED BY <2>7 DEF SeriesKept, MembershipSeriesDense
<1>9. CASE AllocateReceipt(w)
  <2> DEFINE j == [job[w] EXCEPT !.receipt = NextReceipt, !.at = "commit"]
  <2>1. /\ job' = [job EXCEPT ![w] = j] /\ job[w].at = "receipt" /\ job[w].op \in PayOps \cup {"upgrade"}
        /\ ~FinalizeCommit(w) /\ ~AllocateMembershipNumber(w)
    BY <1>9 DEF AllocateReceipt, At, FinalizeCommit, AllocateMembershipNumber, TypeOK
  <2>2. /\ j.op = job[w].op
        /\ job[w].op \in PayOps => j.number = job[w].number /\ j.at = "commit"
    BY <1>1, <2>1, KeptPay, KeptOp
  <2> HIDE DEF j
  <2>3. job'[w] = j
    BY <2>1 DEF TypeOK
  <2>4. w \in Holding' <=> w \in Holding
    BY <1>1, <2>1, <2>2, <2>3 DEF Holding, InTx
  <2> QED BY <1>2, <1>3, <1>4, <2>1, <2>4, SeriesSame
<1>10. CASE FinalizeCommit(w)
  <2>1. PICK m \in Members : m = job[w].m
    BY <1>10, CommitEffect
  <2>2. /\ job[w].op \in PayOps /\ job[w].at = "commit" /\ InTx(w) /\ membershipSeq' = membershipSeq
    BY <1>10 DEF FinalizeCommit, At, InTx
  <2>3. /\ Activates(w) => Numbering(w) /\ member[m].number = None
        /\ ~Activates(w) => member[m].number # None
        /\ member'[m].number = IF Activates(w) THEN job[w].number ELSE member[m].number
        /\ \A k \in Members : k # m => member'[k] = member[k]
    BY <1>10, <2>1, CommitEffect
  <2>4. \E j : job' = [job EXCEPT ![w] = j] /\ (j.op \notin PayOps \/ j.at = "award")
    <3>1. CASE Goto(w, "award")
      <4>1. job' = [job EXCEPT ![w] = [job[w] EXCEPT !.at = "award"]]
        BY <3>1 DEF Goto, TypeOK
      <4>2. [job[w] EXCEPT !.at = "award"].at = "award"
        BY <1>1, <2>2, KeptPay
      <4> QED BY <4>1, <4>2
    <3>2. CASE Finish(w)
      <4>1. [op |-> "idle"].op \notin PayOps
        BY DEF PayOps
      <4> QED BY <3>2, <4>1 DEF Finish
    <3> QED BY <1>10, <3>1, <3>2 DEF FinalizeCommit
  <2>5. PICK j : job' = [job EXCEPT ![w] = j] /\ (j.op \notin PayOps \/ j.at = "award")
    BY <2>4
  <2>6. w \notin Holding'
    <3>1. job'[w] = j
      BY <2>5 DEF TypeOK
    <3> QED BY <2>5, <3>1 DEF Holding, InTx
  <2>7. CASE Activates(w)
    <3>1. w \in Holding /\ m \notin Numbered /\ job[w].number # None
      BY <2>3, <2>7, HoldingNumbers DEF Numbered, Numbering
    <3>2. Numbered' = Numbered \cup {m}
      BY <2>3, <2>7, <3>1 DEF Numbered
    <3>3. Holding' = Holding \ {w}
      <4>1. \A v \in Workers : v # w => (v \in Holding' <=> v \in Holding)
        BY <2>5, HoldingStep
      <4> QED BY <2>6, <4>1 DEF Holding
    <3>4. ASSUME aborts' = 0
          PROVE  /\ IsFiniteSet(Numbered') /\ IsFiniteSet(Holding')
                 /\ membershipSeq' = Cardinality(Numbered') + Cardinality(Holding')
      <4>1. IsFiniteSet(Numbered) /\ IsFiniteSet(Holding) /\ membershipSeq = Cardinality(Numbered) + Cardinality(Holding)
        BY <1>2, <3>4 DEF SeriesKept, MembershipSeriesDense
      <4>2. IsFiniteSet(Numbered \cup {m}) /\ Cardinality(Numbered \cup {m}) = Cardinality(Numbered) + 1
        BY <3>1, <4>1, FS_AddElement
      <4>3. IsFiniteSet(Holding \ {w}) /\ Cardinality(Holding \ {w}) = Cardinality(Holding) - 1
        BY <3>1, <4>1, FS_RemoveElement
      <4>4. Cardinality(Numbered) \in Nat /\ Cardinality(Holding) \in Nat
        BY <4>1, FS_CardinalityType
      <4> QED BY <2>2, <3>2, <3>3, <4>1, <4>2, <4>3, <4>4
    <3> QED BY <3>4 DEF SeriesKept, MembershipSeriesDense
  <2>8. CASE ~Activates(w)
    <3>1. w \notin Holding
      BY <2>2, <2>8 DEF Holding, NumbersIssued
    <3>2. Numbered' = Numbered
      BY <2>3, <2>8 DEF Numbered
    <3> QED BY <1>2, <1>4, <2>2, <2>5, <2>6, <3>1, <3>2, SeriesSame
  <2> QED BY <2>7, <2>8
<1>11. CASE UpgradeCommit(w) \/ AwardPoints(w)
  <2>1. w \notin Holding /\ Finish(w) /\ ~FinalizeCommit(w) /\ ~AllocateMembershipNumber(w)
    BY <1>1, <1>11 DEF UpgradeCommit, AwardPoints, At, Holding, InTx, FinalizeCommit, AllocateMembershipNumber
  <2> QED BY <1>2, <1>3, <1>5, <2>1, SeriesSame
<1> QED BY <1>6, <1>7, <1>8, <1>9, <1>10, <1>11 DEF FeeStep

LEMMA NextSeries ==
    ASSUME MembershipInv, MembershipInv', SeriesKept, "remove" \notin Handlers, [Next]_vars
    PROVE  SeriesKept'
<1> USE DEF MembershipInv
<1>1. CapturesKept'
  BY NextCaptures DEF SeriesKept
<1>2. ASSUME NEW w \in Workers, FeeStep(w) PROVE SeriesKept'
  BY <1>1, <1>2, FeeSeries
<1>3. ASSUME Background, \A w \in Workers : ~FeeStep(w), aborts' = 0 PROVE SeriesKept'
  <2>1. Numbered' = Numbered
    BY <1>3 DEF Background, KeepsFees, Numbered
  <2>2. ASSUME NEW w \in Workers, w \in Holding PROVE w \in Holding'
    <3>1. InTx(w) /\ job[w].number # None
      BY <2>2 DEF Holding
    <3>2. job'[w] = job[w] \/ FinalizeDuplicate(w)
      BY <1>3, <3>1, OpenGoesOn
    <3>3. job'[w] = job[w]
      BY <2>2, <3>2, DuplicateHoldsNone DEF SeriesKept
    <3> QED BY <2>2, <3>3 DEF Holding, InTx
  <2>3. ASSUME NEW w \in Workers, w \in Holding' PROVE w \in Holding
    <3>1. InTx(w)'
      BY <2>3 DEF Holding
    <3>2. job'[w] = job[w]
      BY <1>3, <3>1 DEF Background, Quiet
    <3> QED BY <2>3, <3>2 DEF Holding, InTx
  <2>4. Holding' = Holding
    BY <2>2, <2>3 DEF Holding
  <2>5. aborts = 0
    <3>1. aborts' = aborts \/ aborts' = aborts + 1
      BY CalmStart, ZenonT(40) DEF Next, Proceed, PlanWrite, SubmitCas, SubmitHistory, RemoveWrite, GatewayReadMember,
         FinalizeCas, AllocateMembershipNumber, AllocateReceipt, FinalizeCommit, FinalizeDuplicate, AwardPoints, UpgradeCas,
         UpgradeCommit, SweepExpire, SweepHistory, DeceasedCas, Abort, Environment, CreateOrder, Capture, Suspend, Reactivate,
         Transition, NextDay, vars, database
    <3>2. aborts \in Nat
      BY DEF TypeOK
    <3> QED BY <1>3, <3>1, <3>2
  <2> QED BY <1>1, <1>3, <2>1, <2>4, <2>5, SeriesSame DEF Background
<1>4. ASSUME aborts' # 0 PROVE SeriesKept'
  BY <1>1, <1>4 DEF SeriesKept, MembershipSeriesDense
<1> QED BY <1>2, <1>3, <1>4, NextKinds, NoRemoval

LEMMA InitSeries == Init => SeriesKept
<1> SUFFICES ASSUME Init PROVE SeriesKept
  OBVIOUS
<1>1. Numbered = {}
  BY InitRows DEF Numbered
<1>2. \A w \in Workers : job[w].op = "idle"
  BY DEF Init
<1>3. Holding = {}
  BY <1>2 DEF Holding, InTx, PayOps
<1>4. CapturesKept
  BY <1>2 DEF Init, CapturesKept, PayOps
<1>5. membershipSeq = 0 /\ aborts = 0
  BY DEF Init
<1> QED BY <1>1, <1>3, <1>4, <1>5, FS_EmptySet DEF SeriesKept, MembershipSeriesDense

\* A lost race burns no membership number: without crashes and deletions every
\* number taken from the sequence is on a member or held by an activation that
\* is about to commit.
THEOREM NoNumberLost == "remove" \notin Handlers => (Spec => []MembershipSeriesDense)
<1> SUFFICES ASSUME "remove" \notin Handlers PROVE Spec => []MembershipSeriesDense
  OBVIOUS
<1>1. MembershipInv /\ MembershipInv' /\ SeriesKept /\ [Next]_vars => SeriesKept'
  BY NextSeries
<1>2. SeriesKept => MembershipSeriesDense
  BY DEF SeriesKept
<1> QED BY <1>1, <1>2, InitSeries, Invariant, PTL DEF Spec
=============================================================================
