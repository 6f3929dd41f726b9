--------------------------- MODULE Donations_proofs ---------------------------
(***************************************************************************)
(* Proofs about Donations, for any members, donations, payments, handlers,   *)
(* connections and amounts: the inductive invariant DonationInv, what follows *)
(* from it, and that the handlers implement PointEarning.                   *)
(***************************************************************************)
EXTENDS Donations, SumTheorems

USE NoneAssumption, AmountsAssumption, BoundsAssumption

-----------------------------------------------------------------------------
(* Type correctness.                                                       *)

LEMMA PointsType == \A a, p \in Nat : computePoints(a, p) \in Nat
<1>1. \A n \in Nat : n \div 100 \in Nat
  OBVIOUS
<1>2. \A a, p \in Nat : a * p \in Nat
  OBVIOUS
<1> QED BY <1>1, <1>2 DEF computePoints

LEMMA NumbersAreSome == \A n \in Int : n # None
  OBVIOUS

LEMMA NoJobType == NoJob \in Job /\ Shaped(NoJob)
  BY DEF NoJob, Job, Steps, Shaped

\* The fields of a job that its next step changes.
Fields(j, op, at, d, m, g, receipt, points, row) ==
    /\ j.op = op /\ j.at = at /\ j.d = d /\ j.m = m /\ j.g = g
    /\ j.receipt = receipt /\ j.points = points /\ j.row = row

LEMMA JobEdits ==
    ASSUME NEW j \in Job, NEW at \in Steps, NEW v
    PROVE  /\ [j EXCEPT !.at = at] \in Job
           /\ Fields([j EXCEPT !.at = at], j.op, at, j.d, j.m, j.g, j.receipt, j.points, j.row)
           /\ v \in Nat => [j EXCEPT !.receipt = v, !.at = at] \in Job
           /\ Fields([j EXCEPT !.receipt = v, !.at = at], j.op, at, j.d, j.m, j.g, v, j.points, j.row)
           /\ v \in Sources => [j EXCEPT !.d = v, !.at = at] \in Job
           /\ Fields([j EXCEPT !.d = v, !.at = at], j.op, at, v, j.m, j.g, j.receipt, j.points, j.row)
           /\ v \in Nat => [j EXCEPT !.at = at, !.points = v] \in Job
           /\ Fields([j EXCEPT !.at = at, !.points = v], j.op, at, j.d, j.m, j.g, j.receipt, v, j.row)
           /\ v \in LedgerRow => [j EXCEPT !.at = at, !.row = v] \in Job
           /\ Fields([j EXCEPT !.at = at, !.row = v], j.op, at, j.d, j.m, j.g, j.receipt, j.points, v)
<1>1. [j EXCEPT !.at = at] \in Job
  BY DEF Job, Steps, RecordOps
<1>2. Fields([j EXCEPT !.at = at], j.op, at, j.d, j.m, j.g, j.receipt, j.points, j.row)
  BY DEF Job, Fields
<1>3. v \in Nat => [j EXCEPT !.receipt = v, !.at = at] \in Job
  BY DEF Job, Steps, RecordOps
<1>4. Fields([j EXCEPT !.receipt = v, !.at = at], j.op, at, j.d, j.m, j.g, v, j.points, j.row)
  BY DEF Job, Fields
<1>5. v \in Sources => [j EXCEPT !.d = v, !.at = at] \in Job
  BY DEF Job, Steps, RecordOps
<1>6. Fields([j EXCEPT !.d = v, !.at = at], j.op, at, v, j.m, j.g, j.receipt, j.points, j.row)
  BY DEF Job, Fields
<1>7. v \in Nat => [j EXCEPT !.at = at, !.points = v] \in Job
  BY DEF Job, Steps, RecordOps
<1>8. Fields([j EXCEPT !.at = at, !.points = v], j.op, at, j.d, j.m, j.g, j.receipt, v, j.row)
  BY DEF Job, Fields
<1>9. v \in LedgerRow => [j EXCEPT !.at = at, !.row = v] \in Job
  BY DEF Job, Steps, RecordOps
<1>10. Fields([j EXCEPT !.at = at, !.row = v], j.op, at, j.d, j.m, j.g, j.receipt, j.points, v)
  BY DEF Job, Fields
<1> QED BY <1>1, <1>2, <1>3, <1>4, <1>5, <1>6, <1>7, <1>8, <1>9, <1>10

LEMMA JobUpdate ==
    ASSUME NEW w \in Workers, TypeOK, NEW j \in Job, job' = [job EXCEPT ![w] = j]
    PROVE  job' \in [Workers -> Job] /\ job'[w] = j /\ \A v \in Workers \ {w} : job'[v] = job[v]
  BY DEF TypeOK

LEMMA InitType == Init => TypeOK
  BY NoJobType DEF Init, TypeOK, NotCaptured

\* A row that is written, or rewritten.
LEMMA NewRowType ==
    ASSUME IsFiniteSet(ledger), NEW s \in Sources, NEW m \in Members, NEW n \in Nat, NEW status \in RowStatus
    PROVE  NewRow(s, m, n, status) \in LedgerRow
<1>1. Cardinality(RowsOf(s)) \in Nat
  BY FS_Subset, FS_CardinalityType DEF RowsOf
<1> QED BY <1>1 DEF NewRow, LedgerRow

LEMMA SetRowType ==
    ASSUME ledger \subseteq LedgerRow, NEW r \in LedgerRow, NEW n \in Nat, NEW status \in RowStatus, SetRow(r, n, status)
    PROVE  ledger' \subseteq LedgerRow
<1>1. [r EXCEPT !.points = n, !.status = status] \in LedgerRow
  BY DEF LedgerRow
<1> QED BY <1>1 DEF SetRow

LEMMA NextType ==
    ASSUME DonationInv, Next
    PROVE  TypeOK' /\ \A w \in Workers : Shaped(job'[w])
<1>0. /\ TypeOK /\ IsFiniteSet(ledger) /\ NoJob \in Job /\ Shaped(NoJob)
      /\ \A w \in Workers : job[w] \in Job /\ Shaped(job[w])
  BY NoJobType DEF DonationInv, OneRow, TypeOK
<1> USE DEF Idle, Begin, Goto, Finish, At, points_vars, RecordOps, Steps
<1>1. ASSUME NEW w \in Workers, NEW j \in Job, Shaped(j), job' = [job EXCEPT ![w] = j]
      PROVE  job' \in [Workers -> Job] /\ \A v \in Workers : Shaped(job'[v])
  BY <1>0, <1>1, JobUpdate
<1>2. ASSUME NEW w \in Workers, Finish(w)
      PROVE  job' \in [Workers -> Job] /\ \A v \in Workers : Shaped(job'[v])
  BY <1>0, <1>1, <1>2
<1>3. ASSUME NEW w \in Workers, NEW m \in Members, NEW a \in Amounts, SubmitRead(w, m, a) \/ DirectRead(w, m, a)
      PROVE  TypeOK' /\ \A v \in Workers : Shaped(job'[v])
  <2>1. a \in Nat /\ computePoints(a, percent) \in Nat
    BY <1>0, PointsType DEF TypeOK
  <2>2. /\ NewJob("submit", "create", m, a) \in Job /\ Shaped(NewJob("submit", "create", m, a))
        /\ NewJob("direct", "begin", m, a) \in Job /\ Shaped(NewJob("direct", "begin", m, a))
    BY <2>1 DEF NewJob, NoJob, Job, Shaped, IsStep
  <2>3. job' \in [Workers -> Job] /\ \A v \in Workers : Shaped(job'[v])
    <3>1. CASE SubmitRead(w, m, a)
      BY <1>1, <2>2, <3>1 DEF SubmitRead
    <3>2. CASE DirectRead(w, m, a)
      BY <1>1, <2>2, <3>2 DEF DirectRead
    <3> QED BY <1>3, <3>1, <3>2
  <2> QED BY <1>0, <1>3, <2>3 DEF SubmitRead, DirectRead, TypeOK
<1>4. ASSUME NEW w \in Workers, NEW g \in Captures, NEW op \in {"verify", "webhook"}, GatewayFind(w, op, g)
      PROVE  TypeOK' /\ \A v \in Workers : Shaped(job'[v])
  <2> DEFINE j == [NoJob EXCEPT !.op = op, !.at = "settings", !.g = g,
                                !.m = captured[g].m, !.amount = captured[g].amount]
  <2>1. captured[g] \in [m : Members, amount : Nat]
    BY <1>0, <1>4 DEF GatewayFind, TypeOK
  <2>2. j \in Job /\ Shaped(j)
    BY <2>1 DEF NoJob, Job, Shaped, IsStep
  <2>3. job' \in [Workers -> Job] /\ \A v \in Workers : Shaped(job'[v])
    BY <1>1, <1>4, <2>2 DEF GatewayFind
  <2> QED BY <1>0, <1>4, <2>3 DEF GatewayFind, TypeOK
<1>5. ASSUME NEW w \in Workers, NEW d \in Sources, NEW op \in {"approve", "reject"}, ReviewFind(w, op, d)
      PROVE  TypeOK' /\ \A v \in Workers : Shaped(job'[v])
  <2> DEFINE j == [NoJob EXCEPT !.op = op, !.at = "begin", !.d = d, !.m = donation[d].m]
  <2>1. donation[d].m \in Members
    BY <1>0, <1>5 DEF ReviewFind, Exists, TypeOK, DonationRow, NoDonation
  <2>2. j \in Job /\ Shaped(j)
    BY <2>1 DEF NoJob, Job, Shaped, IsStep
  <2>3. job' \in [Workers -> Job] /\ \A v \in Workers : Shaped(job'[v])
    BY <1>1, <1>5, <2>2 DEF ReviewFind
  <2> QED BY <1>0, <1>5, <2>3 DEF ReviewFind, TypeOK
<1>6. ASSUME NEW w \in Workers, BeginTransaction(w) \/ TimeOut(w) \/ ApproveCas(w)
      PROVE  TypeOK' /\ \A v \in Workers : Shaped(job'[v])
  <2>1. /\ ~Idle(w) /\ job[w].receipt = None /\ job[w].at \notin {"points", "settle"}
        /\ \/ Finish(w)
           \/ \E at \in {"number", "cas", "orphan"} : IsStep(job[w].op, at) /\ Goto(w, at)
    <3>0. Shaped(job[w])
      BY <1>0
    <3>1. CASE BeginTransaction(w)
      <4>1. ~Idle(w) /\ job[w].receipt = None /\ job[w].at = "begin"
        BY <3>0, <3>1 DEF BeginTransaction, Shaped, NoJob
      <4>2. CASE job[w].op \in RecordOps
        <5>1. Goto(w, "number") /\ IsStep(job[w].op, "number")
          BY <3>1, <4>2 DEF BeginTransaction, IsStep
        <5> QED BY <4>1, <5>1
      <4>3. CASE job[w].op \notin RecordOps
        <5>1. Goto(w, "cas") /\ IsStep(job[w].op, "cas")
          BY <3>0, <3>1, <4>1, <4>3 DEF BeginTransaction, IsStep, Shaped
        <5> QED BY <4>1, <5>1
      <4> QED BY <4>2, <4>3
    <3>2. CASE TimeOut(w)
      <4>1. ~Idle(w) /\ job[w].receipt = None /\ job[w].at = "number"
        BY <3>0, <3>2 DEF TimeOut, Shaped, NoJob
      <4>2. Goto(w, "orphan") /\ IsStep(job[w].op, "orphan")
        BY <3>0, <3>2, <4>1 DEF TimeOut, Shaped, IsStep
      <4> QED BY <4>1, <4>2
    <3>3. CASE ApproveCas(w)
      BY <1>0, <3>3 DEF ApproveCas, Shaped, NoJob, IsStep
    <3> QED BY <1>6, <3>1, <3>2, <3>3
  <2>2. ASSUME NEW at \in {"number", "cas", "orphan"}, IsStep(job[w].op, at), Goto(w, at)
        PROVE  job' \in [Workers -> Job] /\ \A v \in Workers : Shaped(job'[v])
    <3> DEFINE j == [job[w] EXCEPT !.at = at]
    <3>1. j \in Job /\ Shaped(j)
      <4>1. j \in Job /\ Fields(j, job[w].op, at, job[w].d, job[w].m, job[w].g, job[w].receipt, job[w].points, job[w].row)
        BY <1>0, JobEdits DEF Steps
      <4> HIDE DEF j
      <4> QED BY <1>0, <2>1, <2>2, <4>1 DEF Shaped, Fields
    <3>2. job' = [job EXCEPT ![w] = j]
      BY <1>0, <2>2 DEF TypeOK
    <3> QED BY <1>1, <3>1, <3>2
  <2>3. job' \in [Workers -> Job] /\ \A v \in Workers : Shaped(job'[v])
    BY <1>2, <2>1, <2>2
  <2> QED BY <1>0, <1>6, <2>3 DEF BeginTransaction, TimeOut, ApproveCas, TypeOK
<1>7. ASSUME NEW w \in Workers, AllocateReceipt(w)
      PROVE  TypeOK' /\ \A v \in Workers : Shaped(job'[v])
  <2> DEFINE j == [job[w] EXCEPT !.receipt = receiptSeq + 1, !.at = "commit"]
  <2>0. receiptSeq + 1 \in Nat /\ receiptSeq + 1 # None
    <3>1. receiptSeq + 1 \in Nat
      BY <1>0 DEF TypeOK
    <3> QED BY <3>1, NumbersAreSome
  <2>1. job' = [job EXCEPT ![w] = j]
    BY <1>0, <1>7 DEF AllocateReceipt, TypeOK
  <2>2. j \in Job /\ Shaped(j)
    <3>1. j \in Job /\ Fields(j, job[w].op, "commit", job[w].d, job[w].m, job[w].g, receiptSeq + 1, job[w].points, job[w].row)
      BY <1>0, <2>0, JobEdits DEF Steps
    <3>2. Shaped(job[w]) /\ job[w].at = "number"
      BY <1>0, <1>7 DEF AllocateReceipt
    <3>3. ~Idle(w) /\ IsStep(job[w].op, "commit")
      BY <3>2 DEF Shaped, IsStep, NoJob
    <3> HIDE DEF j
    <3> QED BY <2>0, <3>1, <3>2, <3>3 DEF Shaped, Fields
  <2>3. job' \in [Workers -> Job] /\ \A v \in Workers : Shaped(job'[v])
    BY <1>1, <2>1, <2>2
  <2> QED BY <1>0, <1>7, <2>1, <2>3 DEF AllocateReceipt, TypeOK
<1>8. ASSUME NEW w \in Workers, OrphanEnds(w) \/ RecordDuplicate(w) \/ Abort(w)
      PROVE  TypeOK' /\ \A v \in Workers : Shaped(job'[v])
  BY <1>0, <1>2, <1>8 DEF OrphanEnds, RecordDuplicate, Abort, TypeOK
<1>9. ASSUME NEW w \in Workers, NEW d \in Sources, SubmitCreate(w, d)
      PROVE  TypeOK' /\ \A v \in Workers : Shaped(job'[v])
  <2> DEFINE j == [job[w] EXCEPT !.d = d, !.at = "points"]
  <2>1. NewDonation(w, "PENDING") \in DonationRow
    BY <1>0, <1>9 DEF SubmitCreate, NewDonation, DonationRow, Job, Shaped
  <2>2. job' = [job EXCEPT ![w] = j] \/ Finish(w)
    BY <1>0, <1>9 DEF SubmitCreate, TypeOK
  <2>3. j \in Job /\ Shaped(j)
    <3>1. j \in Job /\ Fields(j, job[w].op, "points", d, job[w].m, job[w].g, job[w].receipt, job[w].points, job[w].row)
      BY <1>0, JobEdits DEF Steps
    <3>2. Shaped(job[w]) /\ job[w].op = "submit" /\ job[w].at = "create"
      BY <1>0, <1>9 DEF SubmitCreate
    <3> HIDE DEF j
    <3> QED BY <3>1, <3>2 DEF Shaped, Fields, IsStep
  <2>4. job' \in [Workers -> Job] /\ \A v \in Workers : Shaped(job'[v])
    BY <1>1, <1>2, <2>2, <2>3
  <2> QED BY <1>0, <1>9, <2>1, <2>4 DEF SubmitCreate, TypeOK
<1>10. ASSUME NEW w \in Workers, SubmitPoints(w)
       PROVE  TypeOK' /\ \A v \in Workers : Shaped(job'[v])
  <2>1. NewRow(job[w].d, job[w].m, job[w].points, "PENDING") \in LedgerRow
    BY <1>0, <1>10, NewRowType DEF SubmitPoints, Job, RowStatus, Shaped
  <2> QED BY <1>0, <1>2, <1>10, <2>1 DEF SubmitPoints, TypeOK
<1>11. ASSUME NEW w \in Workers, GatewayReadSettings(w)
       PROVE  TypeOK' /\ \A v \in Workers : Shaped(job'[v])
  <2> DEFINE j == [job[w] EXCEPT !.at = "begin", !.points = computePoints(job[w].amount, percent)]
  <2>1. computePoints(job[w].amount, percent) \in Nat
    BY <1>0, PointsType DEF TypeOK, Job
  <2>2. j \in Job /\ Shaped(j)
    <3>1. j \in Job /\ Fields(j, job[w].op, "begin", job[w].d, job[w].m, job[w].g, job[w].receipt,
                              computePoints(job[w].amount, percent), job[w].row)
      BY <1>0, <2>1, JobEdits DEF Steps
    <3>2. Shaped(job[w]) /\ job[w].at = "settings"
      BY <1>0, <1>11 DEF GatewayReadSettings
    <3>3. ~Idle(w) /\ IsStep(job[w].op, "begin")
      BY <3>2 DEF Shaped, IsStep, NoJob
    <3> HIDE DEF j
    <3> QED BY <3>1, <3>2, <3>3 DEF Shaped, Fields
  <2>3. job' \in [Workers -> Job] /\ \A v \in Workers : Shaped(job'[v])
    <3>1. job' = [job EXCEPT ![w] = j]
      BY <1>0, <1>11 DEF GatewayReadSettings, TypeOK
    <3> QED BY <1>1, <2>2, <3>1
  <2> QED BY <1>0, <1>11, <2>3 DEF GatewayReadSettings, TypeOK
<1>12. ASSUME NEW w \in Workers, NEW d \in Sources, RecordCommit(w, d)
       PROVE  TypeOK' /\ \A v \in Workers : Shaped(job'[v])
  <2>1. NewDonation(w, "APPROVED") \in DonationRow
    BY <1>0, <1>12 DEF RecordCommit, NewDonation, DonationRow, Job, Shaped
  <2>2. balance' \in [Members -> Nat] /\ ledger' \subseteq LedgerRow
    <3>1. NewRow(d, job[w].m, job[w].points, "APPROVED") \in LedgerRow /\ job[w].points \in Nat /\ job[w].m \in Members
      BY <1>0, <1>12, NewRowType DEF RecordCommit, Job, RowStatus, Shaped
    <3> QED BY <1>0, <1>12, <3>1 DEF RecordCommit, CreditPoints, TypeOK
  <2> QED BY <1>0, <1>2, <1>12, <2>1, <2>2 DEF RecordCommit, TypeOK
<1>13. ASSUME NEW w \in Workers, ApproveCommit(w)
       PROVE  TypeOK' /\ \A v \in Workers : Shaped(job'[v])
  <2> DEFINE j == [job[w] EXCEPT !.at = "resolve"]
             d == [donation[job[w].d] EXCEPT !.status = "APPROVED", !.receipt = job[w].receipt]
  <2>1. j \in Job /\ Shaped(j) /\ job' = [job EXCEPT ![w] = j]
    BY <1>0, <1>13 DEF ApproveCommit, TypeOK, Job, Shaped, IsStep
  <2>2. job' \in [Workers -> Job] /\ \A v \in Workers : Shaped(job'[v])
    BY <1>1, <2>1
  <2>3. donation' = [donation EXCEPT ![job[w].d] = d] /\ donation[job[w].d] \in DonationRow /\ d \in DonationRow
    <3>1. donation[job[w].d].status = "PENDING" /\ job[w].d \in Sources /\ job[w].receipt \in Nat
      BY <1>0, <1>13 DEF ApproveCommit, DonationInv, OneReview, Reviewing, Resolving, Job, Shaped
    <3>2. donation' = [donation EXCEPT ![job[w].d] = d]
      BY <1>0, <1>13 DEF ApproveCommit, TypeOK
    <3>3. donation[job[w].d] \in DonationRow
      BY <1>0, <3>1 DEF TypeOK, NoDonation
    <3>4. d \in DonationRow
      BY <3>1, <3>3 DEF DonationRow
    <3> QED BY <3>2, <3>3, <3>4
  <2>4. UNCHANGED <<points_vars, captured, percent, receiptSeq, aborts>>
    BY <1>13 DEF ApproveCommit
  <2> QED BY <1>0, <2>2, <2>3, <2>4 DEF TypeOK, points_vars
<1>14. ASSUME NEW w \in Workers, RejectCas(w)
       PROVE  TypeOK' /\ \A v \in Workers : Shaped(job'[v])
  <2> DEFINE j == [job[w] EXCEPT !.at = "resolve"]
             d == [donation[job[w].d] EXCEPT !.status = "REJECTED"]
  <2>1. j \in Job /\ Shaped(j) /\ (job' = [job EXCEPT ![w] = j] \/ Finish(w))
    BY <1>0, <1>14 DEF RejectCas, TypeOK, Job, Shaped, IsStep
  <2>2. job' \in [Workers -> Job] /\ \A v \in Workers : Shaped(job'[v])
    BY <1>1, <1>2, <2>1
  <2>3. donation' \in [Sources -> DonationRow \cup {NoDonation}]
    <3>0. CanReview(job[w].d) => donation[job[w].d] \in DonationRow
      <4>1. job[w].d \in Sources
        BY <1>0, <1>14 DEF RejectCas, Shaped
      <4> QED BY <1>0, <4>1 DEF CanReview, TypeOK, NoDonation
    <3>1. CanReview(job[w].d) => d \in DonationRow
      BY <3>0 DEF DonationRow
    <3> QED BY <1>0, <1>14, <3>1 DEF RejectCas, TypeOK
  <2> QED BY <1>0, <1>14, <2>2, <2>3 DEF RejectCas, TypeOK
<1>15. ASSUME NEW w \in Workers, ResolveFind(w)
       PROVE  TypeOK' /\ \A v \in Workers : Shaped(job'[v])
  <2>1. ASSUME NEW r \in PendingRow(job[w].d), job' = [job EXCEPT ![w].at = "settle", ![w].row = r]
        PROVE  job' \in [Workers -> Job] /\ \A v \in Workers : Shaped(job'[v])
    <3> DEFINE j == [job[w] EXCEPT !.at = "settle", !.row = r]
    <3>1. r \in LedgerRow
      BY <1>0 DEF PendingRow, RowsOf, TypeOK
    <3>2. j \in Job /\ Shaped(j)
      <4>1. j \in Job /\ Fields(j, job[w].op, "settle", job[w].d, job[w].m, job[w].g, job[w].receipt, job[w].points, r)
        BY <1>0, <3>1, JobEdits DEF Steps
      <4>2. Shaped(job[w]) /\ job[w].at = "resolve"
        BY <1>0, <1>15 DEF ResolveFind
      <4>3. ~Idle(w) /\ IsStep(job[w].op, "settle")
        BY <4>2 DEF Shaped, IsStep, NoJob
      <4> HIDE DEF j
      <4> QED BY <3>1, <4>1, <4>2, <4>3 DEF Shaped, Fields
    <3>3. job' = [job EXCEPT ![w] = j]
      BY <1>0, <2>1 DEF TypeOK
    <3> QED BY <1>1, <3>2, <3>3
  <2>2. job' \in [Workers -> Job] /\ \A v \in Workers : Shaped(job'[v])
    BY <1>2, <1>15, <2>1 DEF ResolveFind
  <2> QED BY <1>0, <1>15, <2>2 DEF ResolveFind, TypeOK
<1>16. ASSUME NEW w \in Workers, ResolveSettle(w)
       PROVE  TypeOK' /\ \A v \in Workers : Shaped(job'[v])
  <2>1. job[w].row \in LedgerRow
    <3>1. Shaped(job[w]) /\ job[w].at = "settle"
      BY <1>0, <1>16 DEF ResolveSettle
    <3> QED BY <3>1 DEF Shaped, NoJob
  <2>2. ledger' \subseteq LedgerRow
    <3>1. \A status \in RowStatus : SetRow(job[w].row, job[w].row.points, status) => ledger' \subseteq LedgerRow
      BY <1>0, <2>1, SetRowType DEF TypeOK, LedgerRow
    <3> QED BY <1>16, <3>1 DEF ResolveSettle, ApproveRow, RowStatus
  <2>3. balance' \in [Members -> Nat]
    BY <1>0, <1>16, <2>1 DEF ResolveSettle, ApproveRow, LedgerRow, TypeOK
  <2> QED BY <1>0, <1>2, <1>16, <2>2, <2>3 DEF ResolveSettle, TypeOK
<1>17. ASSUME NEW g \in Captures, NEW m \in Members, NEW a \in Amounts, Pay(g, m, a)
       PROVE  TypeOK' /\ \A v \in Workers : Shaped(job'[v])
  BY <1>0, <1>17 DEF Pay, TypeOK
<1>18. ASSUME NEW p \in Percents, SetPercent(p)
       PROVE  TypeOK' /\ \A v \in Workers : Shaped(job'[v])
  BY <1>0, <1>18 DEF SetPercent, TypeOK
<1> QED
  BY <1>3, <1>4, <1>5, <1>6, <1>7, <1>8, <1>9, <1>10, <1>11, <1>12, <1>13, <1>14, <1>15, <1>16, <1>17, <1>18
     DEF Next, Start, Proceed

-----------------------------------------------------------------------------
(* What the steps do.  Most leave donations and points alone and have no     *)
(* handler reach a step that the invariant speaks of.                       *)

Others(w) == \A v \in Workers \ {w} : job'[v] = job[v]
Ended(w) == job'[w] = NoJob /\ Others(w)
Moved(w, at, d, receipt, row) ==
    /\ Fields(job'[w], job[w].op, at, d, job[w].m, job[w].g, receipt, job[w].points, row)
    /\ Others(w)

Critical(j) == j.at \in {"commit", "points", "resolve", "settle"} \/ (j.op = "approve" /\ j.at = "number")
Quiet ==
    /\ UNCHANGED <<points_vars, donation>>
    /\ receiptSeq' >= receiptSeq /\ aborts' >= aborts
    /\ \A v \in Workers : \/ job'[v] = job[v]
                          \/ ~Critical(job'[v]) /\ (job[v].at = "points" => aborts' > aborts)

Telling(w) ==
    \/ ApproveCas(w) /\ CanReview(job[w].d)
    \/ AllocateReceipt(w)
    \/ \E d \in Sources : SubmitCreate(w, d) \/ RecordCommit(w, d)
    \/ SubmitPoints(w) \/ ApproveCommit(w)
    \/ RejectCas(w) /\ CanReview(job[w].d)
    \/ ResolveFind(w) /\ PendingRow(job[w].d) # {}
    \/ ResolveSettle(w)

LEMMA EndedLeavesNothing == ~Critical(NoJob)
  BY DEF Critical, NoJob

LEMMA Moves ==
    ASSUME TypeOK, NEW w \in Workers
    PROVE  /\ Finish(w) => Ended(w)
           /\ \A at \in Steps : Goto(w, at) => Moved(w, at, job[w].d, job[w].receipt, job[w].row)
           /\ AllocateReceipt(w) => Moved(w, "commit", job[w].d, receiptSeq + 1, job[w].row)
           /\ GatewayReadSettings(w) => job'[w].op = job[w].op /\ job'[w].at = "begin" /\ Others(w)
           /\ \A d \in Sources : SubmitCreate(w, d) =>
                 IF EarnsPoints(w) THEN Moved(w, "points", d, job[w].receipt, job[w].row) ELSE Ended(w)
           /\ ResolveFind(w) => \/ PendingRow(job[w].d) = {} /\ Ended(w)
                                \/ \E r \in PendingRow(job[w].d) : Moved(w, "settle", job[w].d, job[w].receipt, r)
<1>0. job \in [Workers -> Job] /\ job[w] \in Job
  BY DEF TypeOK
<1>1. ASSUME NEW j, job' = [job EXCEPT ![w] = j] PROVE job'[w] = j /\ Others(w)
  BY <1>0, <1>1 DEF Others
<1>2. Finish(w) => Ended(w)
  BY <1>1 DEF Finish, Ended
<1>3. ASSUME NEW at \in Steps, Goto(w, at) PROVE Moved(w, at, job[w].d, job[w].receipt, job[w].row)
  <2> DEFINE j == [job[w] EXCEPT !.at = at]
  <2>1. job' = [job EXCEPT ![w] = j]
    BY <1>0, <1>3 DEF Goto
  <2>2. Fields(j, job[w].op, at, job[w].d, job[w].m, job[w].g, job[w].receipt, job[w].points, job[w].row)
    BY <1>0, JobEdits
  <2> QED BY <1>1, <2>1, <2>2 DEF Moved
<1>4. ASSUME AllocateReceipt(w) PROVE Moved(w, "commit", job[w].d, receiptSeq + 1, job[w].row)
  <2> DEFINE j == [job[w] EXCEPT !.receipt = receiptSeq + 1, !.at = "commit"]
  <2>1. job' = [job EXCEPT ![w] = j]
    BY <1>0, <1>4 DEF AllocateReceipt
  <2>2. Fields(j, job[w].op, "commit", job[w].d, job[w].m, job[w].g, receiptSeq + 1, job[w].points, job[w].row)
    BY <1>0, JobEdits DEF Steps
  <2> QED BY <1>1, <2>1, <2>2 DEF Moved
<1>5. ASSUME GatewayReadSettings(w) PROVE job'[w].op = job[w].op /\ job'[w].at = "begin" /\ Others(w)
  <2> DEFINE p == computePoints(job[w].amount, percent)
             j == [job[w] EXCEPT !.at = "begin", !.points = p]
  <2>1. job' = [job EXCEPT ![w] = j]
    BY <1>0, <1>5 DEF GatewayReadSettings
  <2>2. j.op = job[w].op /\ j.at = "begin"
    <3>1. Fields(j, job[w].op, "begin", job[w].d, job[w].m, job[w].g, job[w].receipt, p, job[w].row)
      BY <1>0, JobEdits DEF Steps
    <3> HIDE DEF j
    <3> QED BY <3>1 DEF Fields
  <2> QED BY <1>1, <2>1, <2>2
<1>6. ASSUME NEW d \in Sources, SubmitCreate(w, d)
      PROVE  IF EarnsPoints(w) THEN Moved(w, "points", d, job[w].receipt, job[w].row) ELSE Ended(w)
  <2> DEFINE j == [job[w] EXCEPT !.d = d, !.at = "points"]
  <2>1. IF EarnsPoints(w) THEN job' = [job EXCEPT ![w] = j] ELSE Finish(w)
    BY <1>0, <1>6 DEF SubmitCreate
  <2>2. Fields(j, job[w].op, "points", d, job[w].m, job[w].g, job[w].receipt, job[w].points, job[w].row)
    BY <1>0, JobEdits DEF Steps
  <2> QED BY <1>1, <1>2, <2>1, <2>2 DEF Moved
<1>7. ASSUME ResolveFind(w)
      PROVE  \/ PendingRow(job[w].d) = {} /\ Ended(w)
             \/ \E r \in PendingRow(job[w].d) : Moved(w, "settle", job[w].d, job[w].receipt, r)
  <2>1. ASSUME NEW r \in PendingRow(job[w].d), job' = [job EXCEPT ![w].at = "settle", ![w].row = r]
        PROVE  Moved(w, "settle", job[w].d, job[w].receipt, r)
    <3> DEFINE j == [job[w] EXCEPT !.at = "settle", !.row = r]
    <3>1. job' = [job EXCEPT ![w] = j]
      BY <1>0, <2>1
    <3>2. Fields(j, job[w].op, "settle", job[w].d, job[w].m, job[w].g, job[w].receipt, job[w].points, r)
      BY <1>0, JobEdits DEF Steps
    <3> QED BY <1>1, <3>1, <3>2 DEF Moved
  <2> QED BY <1>2, <1>7, <2>1 DEF ResolveFind
<1> QED BY <1>2, <1>3, <1>4, <1>5, <1>6, <1>7

LEMMA Kinds ==
    ASSUME DonationInv, Next \/ UNCHANGED vars
    PROVE  Quiet \/ \E w \in Workers : Telling(w)
<1>0. TypeOK /\ \A w \in Workers : Shaped(job[w])
  BY DEF DonationInv
<1>1. receiptSeq \in Nat /\ aborts \in Nat
  BY <1>0 DEF TypeOK
<1>2. receiptSeq + 1 >= receiptSeq /\ aborts + 1 > aborts /\ receiptSeq >= receiptSeq /\ aborts >= aborts /\ aborts + 1 >= aborts
  BY <1>1
<1>3. ASSUME NEW w \in Workers, Others(w), ~Critical(job'[w]), job[w].at = "points" => aborts' > aborts,
             UNCHANGED <<points_vars, donation>>, receiptSeq' >= receiptSeq, aborts' >= aborts
      PROVE  Quiet
  BY <1>3 DEF Quiet, Others
<1>4. ASSUME UNCHANGED <<points_vars, donation, receiptSeq, job>>, aborts' >= aborts PROVE Quiet
  BY <1>2, <1>4 DEF Quiet
<1>5. ASSUME NEW w \in Workers, Start(w) PROVE Quiet
  <2>1. ASSUME NEW j, ~Critical(j), Begin(w, j), UNCHANGED <<points_vars, donation, receiptSeq, aborts>> PROVE Quiet
    <3>1. job' = [job EXCEPT ![w] = j] /\ job[w].op = "idle"
      BY <2>1 DEF Begin, Idle
    <3>2. job'[w] = j /\ Others(w)
      BY <1>0, <3>1 DEF TypeOK, Others
    <3>3. job[w].at # "points"
      BY <1>0, <3>1 DEF Shaped, NoJob
    <3> QED BY <1>2, <1>3, <2>1, <3>2, <3>3
  <2>2. ASSUME NEW m \in Members, NEW a \in Amounts, SubmitRead(w, m, a) \/ DirectRead(w, m, a) PROVE Quiet
    <3>1. ~Critical(NewJob("submit", "create", m, a)) /\ ~Critical(NewJob("direct", "begin", m, a))
      BY DEF Critical, NewJob, NoJob
    <3> QED BY <2>1, <2>2, <3>1 DEF SubmitRead, DirectRead
  <2>3. ASSUME NEW g \in Captures, NEW op \in {"verify", "webhook"}, GatewayFind(w, op, g) PROVE Quiet
    <3> DEFINE j == [NoJob EXCEPT !.op = op, !.at = "settings", !.g = g,
                                  !.m = captured[g].m, !.amount = captured[g].amount]
    <3>1. ~Critical(j)
      BY DEF Critical, NoJob
    <3> QED BY <2>1, <2>3, <3>1 DEF GatewayFind
  <2>4. ASSUME NEW d \in Sources, NEW op \in {"approve", "reject"}, ReviewFind(w, op, d) PROVE Quiet
    <3> DEFINE j == [NoJob EXCEPT !.op = op, !.at = "begin", !.d = d, !.m = donation[d].m]
    <3>1. ~Critical(j)
      BY DEF Critical, NoJob
    <3> QED BY <2>1, <2>4, <3>1 DEF ReviewFind
  <2> QED BY <1>5, <2>2, <2>3, <2>4 DEF Start
<1>6. ASSUME NEW w \in Workers, BeginTransaction(w) PROVE Quiet
  <2>1. CASE job[w].op \in RecordOps
    <3>1. Goto(w, "number")
      BY <1>6, <2>1 DEF BeginTransaction
    <3>2. Moved(w, "number", job[w].d, job[w].receipt, job[w].row)
      BY <1>0, <3>1, Moves DEF Steps
    <3>3. Others(w) /\ ~Critical(job'[w])
      BY <2>1, <3>2 DEF Moved, Fields, Critical, RecordOps
    <3> QED BY <1>2, <1>3, <1>6, <3>3 DEF BeginTransaction
  <2>2. CASE job[w].op \notin RecordOps
    <3>1. Goto(w, "cas")
      BY <1>6, <2>2 DEF BeginTransaction
    <3>2. Moved(w, "cas", job[w].d, job[w].receipt, job[w].row)
      BY <1>0, <3>1, Moves DEF Steps
    <3>3. Others(w) /\ ~Critical(job'[w])
      BY <3>2 DEF Moved, Fields, Critical
    <3> QED BY <1>2, <1>3, <1>6, <3>3 DEF BeginTransaction
  <2> QED BY <2>1, <2>2
<1>7. ASSUME NEW w \in Workers, TimeOut(w) PROVE Quiet
  <2>1. Moved(w, "orphan", job[w].d, job[w].receipt, job[w].row)
    BY <1>0, <1>7, Moves DEF TimeOut, Steps
  <2>2. Others(w) /\ ~Critical(job'[w])
    BY <2>1 DEF Moved, Fields, Critical
  <2> QED BY <1>2, <1>3, <1>7, <2>2 DEF TimeOut
<1>8. ASSUME NEW w \in Workers, GatewayReadSettings(w) PROVE Quiet
  <2>1. Others(w) /\ ~Critical(job'[w])
    BY <1>0, <1>8, Moves DEF Critical
  <2> QED BY <1>2, <1>3, <1>8, <2>1 DEF GatewayReadSettings
<1>9. ASSUME NEW w \in Workers, Finish(w), job[w].at # "points" \/ aborts' > aborts,
             UNCHANGED <<points_vars, donation>>, receiptSeq' >= receiptSeq, aborts' >= aborts
      PROVE  Quiet
  <2>1. Others(w) /\ ~Critical(job'[w])
    BY <1>0, <1>9, Moves, EndedLeavesNothing DEF Ended
  <2> QED BY <1>3, <1>9, <2>1
<1>10. ASSUME NEW w \in Workers, OrphanEnds(w) PROVE Quiet
  BY <1>2, <1>9, <1>10 DEF OrphanEnds
<1>11. ASSUME NEW w \in Workers, RecordDuplicate(w) PROVE Quiet
  BY <1>2, <1>9, <1>11 DEF RecordDuplicate, At
<1>12. ASSUME NEW w \in Workers, Abort(w) PROVE Quiet
  BY <1>2, <1>9, <1>12 DEF Abort
<1>13. ASSUME NEW w \in Workers, ApproveCas(w), ~CanReview(job[w].d) PROVE Quiet
  BY <1>2, <1>9, <1>13 DEF ApproveCas, At
<1>14. ASSUME NEW w \in Workers, RejectCas(w), ~CanReview(job[w].d) PROVE Quiet
  BY <1>2, <1>9, <1>14 DEF RejectCas, At
<1>15. ASSUME NEW w \in Workers, ResolveFind(w), PendingRow(job[w].d) = {} PROVE Quiet
  BY <1>2, <1>9, <1>15 DEF ResolveFind
<1>16. ASSUME NEW g \in Captures, NEW m \in Members, NEW a \in Amounts, Pay(g, m, a) PROVE Quiet
  BY <1>2, <1>4, <1>16 DEF Pay
<1>17. ASSUME NEW p \in Percents, SetPercent(p) PROVE Quiet
  BY <1>2, <1>4, <1>17 DEF SetPercent
<1>18. ASSUME UNCHANGED vars PROVE Quiet
  BY <1>2, <1>4, <1>18 DEF vars
<1> QED
  <2>1. ASSUME NEW w \in Workers, Proceed(w) PROVE Quiet \/ Telling(w)
    BY <1>6, <1>8, <1>10, <1>11, <1>13, <1>14, <1>15, <2>1 DEF Proceed, Telling
  <2> QED BY <1>5, <1>7, <1>12, <1>16, <1>17, <1>18, <2>1 DEF Next

-----------------------------------------------------------------------------
(* The parts of the invariant, one after the other.                        *)

\* A donation that is not recorded has no rows and no review; what is due for
\* one that is stays as it is.
LEMMA NoRowsYet ==
    ASSUME DonationInv, NEW d \in Sources, ~Exists(d)
    PROVE  /\ donation[d] = NoDonation /\ RowsOf(d) = {}
           /\ \A w \in Workers : (Reviewing(w) \/ job[w].at = "points") => job[w].d # d
<1>1. donation[d] = NoDonation
  BY DEF DonationInv, TypeOK, Exists, DonationRow
<1>2. ASSUME NEW r \in RowsOf(d) PROVE FALSE
  <2>1. r \in LedgerRow /\ r.m = donation[d].m
    BY <1>2 DEF RowsOf, DonationInv, TypeOK, PointsFollowReview
  <2>2. r.m \in Members /\ r.m = None
    BY <1>1, <2>1 DEF LedgerRow, NoDonation
  <2> QED BY <2>2
<1>3. ASSUME NEW w \in Workers, Reviewing(w), job[w].d = d PROVE FALSE
  <2>1. donation[d].status \in {"PENDING", "APPROVED", "REJECTED"}
    BY <1>3 DEF DonationInv, OneReview
  <2> QED BY <2>1, <1>1 DEF NoDonation
<1>4. ASSUME NEW w \in Workers, job[w].at = "points", job[w].d = d PROVE FALSE
  BY <1>4 DEF DonationInv, RowsOwed
<1> QED BY <1>1, <1>2, <1>3, <1>4

\* What a job at a step of the invariant holds.
LEMMA Knows ==
    ASSUME DonationInv, NEW w \in Workers
    PROVE  /\ job[w] \in Job /\ IsFiniteSet(ledger)
           /\ job[w].at = "commit" => job[w].receipt # None
           /\ job[w].at \in {"create", "cas"} => job[w].receipt = None
           /\ job[w].op = "submit" => job[w].g = None /\ job[w].at \in {"create", "points"}
           /\ job[w].op = "reject" => job[w].at \in {"begin", "cas", "resolve", "settle"}
           /\ job[w].op \in {"approve", "reject"} => job[w].d \in Sources /\ job[w].m \in Members
           /\ job[w].at = "points" => job[w].op = "submit" /\ job[w].d \in Sources /\ job[w].m \in Members
           /\ job[w].at \in {"cas", "resolve", "settle"} => job[w].op \in {"approve", "reject"}
           /\ job[w].at \in {"number", "commit"} => job[w].op \in RecordOps \cup {"approve"}
           /\ job[w].at \in Steps => job[w].m \in Members
<1>1. Shaped(job[w]) /\ job[w] \in Job /\ IsFiniteSet(ledger)
  BY DEF DonationInv, TypeOK, OneRow
<1>2. job[w].op = "idle" => job[w].at = "end" /\ job[w].receipt = None /\ job[w].g = None
  BY <1>1 DEF Shaped, NoJob
<1> QED BY <1>1, <1>2 DEF Shaped, IsStep, RecordOps, Steps

\* A donation that is inserted leaves the others alone.
LEMMA DonationInsert ==
    ASSUME DonationInv, NEW w \in Workers, NEW d \in Sources
    PROVE  /\ SubmitCreate(w, d) => donation'[d] = NewDonation(w, "PENDING")
           /\ RecordCommit(w, d) => donation'[d] = NewDonation(w, "APPROVED")
           /\ SubmitCreate(w, d) \/ RecordCommit(w, d) => \A c \in Sources \ {d} : donation'[c] = donation[c]
<1>0. donation \in [Sources -> DonationRow \cup {NoDonation}]
  BY DEF DonationInv, TypeOK
<1>1. ASSUME NEW status, donation' = [donation EXCEPT ![d] = NewDonation(w, status)]
      PROVE  donation'[d] = NewDonation(w, status) /\ \A c \in Sources \ {d} : donation'[c] = donation[c]
  BY <1>0, <1>1
<1>2. SubmitCreate(w, d) => donation' = [donation EXCEPT ![d] = NewDonation(w, "PENDING")]
  BY DEF SubmitCreate
<1>3. RecordCommit(w, d) => donation' = [donation EXCEPT ![d] = NewDonation(w, "APPROVED")]
  BY DEF RecordCommit
<1> QED BY <1>1, <1>2, <1>3

\* What becomes of the donations.
LEMMA DonationSteps ==
    ASSUME DonationInv, NEW w \in Workers
    PROVE  /\ ApproveCommit(w) =>
                 /\ donation'[job[w].d].status = "APPROVED" /\ donation'[job[w].d].receipt = job[w].receipt
                 /\ donation'[job[w].d].m = donation[job[w].d].m
                 /\ donation'[job[w].d].points = donation[job[w].d].points
                 /\ donation'[job[w].d].g = donation[job[w].d].g
                 /\ donation[job[w].d].status = "PENDING" /\ donation[job[w].d].receipt = None
                 /\ \A c \in Sources \ {job[w].d} : donation'[c] = donation[c]
           /\ RejectCas(w) /\ CanReview(job[w].d) =>
                 /\ donation'[job[w].d].status = "REJECTED"
                 /\ donation'[job[w].d].receipt = None /\ donation[job[w].d].receipt = None
                 /\ donation'[job[w].d].m = donation[job[w].d].m
                 /\ donation'[job[w].d].points = donation[job[w].d].points
                 /\ donation'[job[w].d].g = donation[job[w].d].g
                 /\ \A c \in Sources \ {job[w].d} : donation'[c] = donation[c]
<1>0. donation \in [Sources -> DonationRow \cup {NoDonation}]
  BY DEF DonationInv, TypeOK
<1>1. ASSUME NEW d \in Sources, donation[d].status = "PENDING"
      PROVE  donation[d] \in DonationRow /\ donation[d].receipt = None
  BY <1>0, <1>1 DEF NoDonation, DonationInv, ReceiptsDistinct
<1>2. ASSUME ApproveCommit(w)
      PROVE  /\ donation'[job[w].d].status = "APPROVED" /\ donation'[job[w].d].receipt = job[w].receipt
             /\ donation'[job[w].d].m = donation[job[w].d].m
             /\ donation'[job[w].d].points = donation[job[w].d].points
             /\ donation'[job[w].d].g = donation[job[w].d].g
             /\ donation[job[w].d].status = "PENDING" /\ donation[job[w].d].receipt = None
             /\ \A c \in Sources \ {job[w].d} : donation'[c] = donation[c]
  <2>1. job[w].d \in Sources /\ Reviewing(w) /\ ~Resolving(w)
    BY <1>2, Knows DEF ApproveCommit, At, Reviewing, Resolving
  <2>2. donation[job[w].d].status = "PENDING"
    BY <2>1 DEF DonationInv, OneReview
  <2>3. donation[job[w].d] \in DonationRow /\ donation[job[w].d].receipt = None
    BY <1>1, <2>1, <2>2
  <2>4. donation' = [donation EXCEPT ![job[w].d] = [donation[job[w].d] EXCEPT !.status = "APPROVED", !.receipt = job[w].receipt]]
    BY <1>0, <1>2, <2>1 DEF ApproveCommit
  <2> QED BY <1>0, <2>1, <2>2, <2>3, <2>4 DEF DonationRow
<1>3. ASSUME RejectCas(w), CanReview(job[w].d)
      PROVE  /\ donation'[job[w].d].status = "REJECTED"
             /\ donation'[job[w].d].receipt = None /\ donation[job[w].d].receipt = None
             /\ donation'[job[w].d].m = donation[job[w].d].m
             /\ donation'[job[w].d].points = donation[job[w].d].points
             /\ donation'[job[w].d].g = donation[job[w].d].g
             /\ \A c \in Sources \ {job[w].d} : donation'[c] = donation[c]
  <2>1. job[w].d \in Sources
    BY <1>3, Knows DEF RejectCas, At
  <2>2. donation[job[w].d] \in DonationRow /\ donation[job[w].d].receipt = None
    BY <1>1, <1>3, <2>1 DEF CanReview
  <2>3. donation' = [donation EXCEPT ![job[w].d] = [donation[job[w].d] EXCEPT !.status = "REJECTED"]]
    BY <1>0, <1>3, <2>1 DEF RejectCas
  <2> QED BY <1>0, <2>1, <2>2, <2>3 DEF DonationRow
<1> QED BY <1>2, <1>3

LEMMA NextReceipts ==
    ASSUME DonationInv, TypeOK', Next \/ UNCHANGED vars
    PROVE  ReceiptsDistinct' /\ ReceiptsIssued'
<1>0. /\ TypeOK /\ ReceiptsDistinct /\ ReceiptsIssued /\ receiptSeq \in Nat /\ receiptSeq' \in Nat
      /\ \A w \in Workers : job[w] \in Job
  BY DEF DonationInv, TypeOK
<1>1. ASSUME NEW w \in Workers, AllocateReceipt(w) PROVE ReceiptsDistinct' /\ ReceiptsIssued'
  <2>1. donation' = donation /\ receiptSeq' = receiptSeq + 1 /\ receiptSeq + 1 # None
    BY <1>0, <1>1, NumbersAreSome DEF AllocateReceipt
  <2>2. job'[w].receipt = receiptSeq + 1 /\ \A v \in Workers \ {w} : job'[v] = job[v]
    BY <1>0, <1>1, Moves DEF Moved, Fields, Others
  <2>3. \A d \in Sources : donation[d].receipt # None => donation[d].receipt \in 1..receiptSeq
    BY <1>0 DEF ReceiptsIssued
  <2>4. \A v \in Workers : job[v].at = "commit" => job[v].receipt \in 1..receiptSeq
    BY <1>0 DEF ReceiptsIssued
  <2>5. /\ receiptSeq + 1 \in 1..receiptSeq' /\ receiptSeq + 1 \notin 1..receiptSeq
        /\ \A n \in 1..receiptSeq : n \in 1..receiptSeq'
    BY <1>0, <2>1
  <2>6. \A d \in Sources : donation[d].receipt # receiptSeq + 1
    BY <2>1, <2>3, <2>5
  <2>7. ReceiptsDistinct'
    BY <1>0, <2>1 DEF ReceiptsDistinct
  <2>8. ReceiptsIssued'
    <3>1. \A d \in Sources : donation'[d].receipt # None => donation'[d].receipt \in 1..receiptSeq'
      BY <2>1, <2>3, <2>5
    <3>2. ASSUME NEW v \in Workers, job'[v].at = "commit"
          PROVE  /\ job'[v].receipt \in 1..receiptSeq'
                 /\ \A d \in Sources : donation'[d].receipt # job'[v].receipt
                 /\ \A u \in Workers : job'[u].at = "commit" /\ job'[u].receipt = job'[v].receipt => u = v
      <4>1. CASE v = w
        BY <2>1, <2>2, <2>4, <2>5, <2>6, <4>1
      <4>2. CASE v # w
        <5>1. job'[v] = job[v] /\ job[v].at = "commit"
          BY <2>2, <3>2, <4>2
        <5>2. \A u \in Workers : job'[u].at = "commit" /\ job'[u].receipt = job'[v].receipt => u = v
          BY <1>0, <2>2, <2>4, <2>5, <5>1 DEF ReceiptsIssued
        <5> QED BY <1>0, <2>1, <2>4, <2>5, <5>1, <5>2 DEF ReceiptsIssued
      <4> QED BY <4>1, <4>2
    <3> QED BY <3>1, <3>2 DEF ReceiptsIssued
  <2> QED BY <2>7, <2>8
<1>2. ASSUME \A w \in Workers : job'[w].at = "commit" => job'[w] = job[w], receiptSeq' >= receiptSeq, donation' = donation
      PROVE  ReceiptsDistinct' /\ ReceiptsIssued'
  <2>1. \A n \in 1..receiptSeq : n \in 1..receiptSeq'
    BY <1>0, <1>2
  <2>2. ReceiptsDistinct'
    BY <1>0, <1>2 DEF ReceiptsDistinct
  <2>3. ReceiptsIssued'
    BY <1>0, <1>2, <2>1 DEF ReceiptsIssued
  <2> QED BY <2>2, <2>3
<1>3. CASE Quiet
  BY <1>2, <1>3 DEF Quiet, Critical
<1>4. ASSUME NEW w \in Workers,
             \/ ApproveCas(w) /\ CanReview(job[w].d)
             \/ SubmitPoints(w) \/ ResolveSettle(w)
             \/ ResolveFind(w) /\ PendingRow(job[w].d) # {}
      PROVE  ReceiptsDistinct' /\ ReceiptsIssued'
  <2>1. donation' = donation /\ receiptSeq' >= receiptSeq
    BY <1>0, <1>4 DEF ApproveCas, SubmitPoints, ResolveFind, ResolveSettle
  <2>2. job'[w].at # "commit" /\ Others(w)
    BY <1>0, <1>4, Moves DEF ApproveCas, SubmitPoints, ResolveSettle, Moved, Ended, Fields, Steps, NoJob
  <2> QED BY <1>2, <2>1, <2>2 DEF Others
\* The four that change a donation.
<1>5. ASSUME NEW w \in Workers, Others(w), job'[w].at # "commit", receiptSeq' = receiptSeq,
             NEW d \in Sources, \A c \in Sources \ {d} : donation'[c] = donation[c],
             donation'[d].status = "APPROVED" <=> donation'[d].receipt # None,
             donation'[d].receipt # None => job[w].at = "commit" /\ donation'[d].receipt = job[w].receipt,
             donation'[d].g # None => \A c \in Sources \ {d} : donation[c].g # donation'[d].g
      PROVE  ReceiptsDistinct' /\ ReceiptsIssued'
  <2>1. ReceiptsDistinct'
    <3> SUFFICES ASSUME NEW b \in Sources, NEW c \in Sources
                 PROVE  /\ donation'[c].status = "APPROVED" <=> donation'[c].receipt # None
                        /\ donation'[b].receipt = donation'[c].receipt /\ donation'[b].receipt # None => b = c
                        /\ donation'[b].g = donation'[c].g /\ donation'[b].g # None => b = c
      BY DEF ReceiptsDistinct
    <3>1. donation'[c].status = "APPROVED" <=> donation'[c].receipt # None
      BY <1>0, <1>5 DEF ReceiptsDistinct
    <3>2. ASSUME NEW e \in Sources \ {d} PROVE ~(donation'[d].receipt = donation'[e].receipt /\ donation'[d].receipt # None)
      BY <1>0, <1>5 DEF ReceiptsIssued
    <3>3. ASSUME NEW e \in Sources \ {d} PROVE ~(donation'[d].g = donation'[e].g /\ donation'[d].g # None)
      BY <1>5
    <3>4. CASE b # d /\ c # d
      BY <1>0, <1>5, <3>1, <3>4 DEF ReceiptsDistinct
    <3> QED BY <3>1, <3>2, <3>3, <3>4
  <2>2. \A c \in Sources : donation'[c].receipt # None => donation'[c].receipt \in 1..receiptSeq'
    BY <1>0, <1>5 DEF ReceiptsIssued
  <2>3. ASSUME NEW v \in Workers, job'[v].at = "commit"
        PROVE  /\ job'[v].receipt \in 1..receiptSeq'
               /\ \A c \in Sources : donation'[c].receipt # job'[v].receipt
               /\ \A u \in Workers : job'[u].at = "commit" /\ job'[u].receipt = job'[v].receipt => u = v
    <3>1. v # w /\ job'[v] = job[v] /\ job[v].at = "commit" /\ job[v].receipt # None
      BY <1>5, <2>3, Knows DEF Others
    <3>2. donation'[d].receipt # job[v].receipt
      BY <1>0, <1>5, <3>1 DEF ReceiptsIssued
    <3>3. \A c \in Sources : donation'[c].receipt # job'[v].receipt
      BY <1>0, <1>5, <3>1, <3>2 DEF ReceiptsIssued
    <3>4. \A u \in Workers : job'[u].at = "commit" /\ job'[u].receipt = job'[v].receipt => u = v
      BY <1>0, <1>5, <3>1 DEF ReceiptsIssued, Others
    <3> QED BY <1>0, <1>5, <3>1, <3>3, <3>4 DEF ReceiptsIssued
  <2> QED BY <2>1, <2>2, <2>3 DEF ReceiptsIssued
<1>6. ASSUME NEW w \in Workers, NEW d \in Sources, SubmitCreate(w, d) PROVE ReceiptsDistinct' /\ ReceiptsIssued'
  <2>1. donation'[d] = NewDonation(w, "PENDING") /\ \A c \in Sources \ {d} : donation'[c] = donation[c]
    BY <1>6, DonationInsert
  <2>2. job[w].receipt = None /\ job[w].g = None
    BY <1>6, Knows DEF SubmitCreate, At
  <2>3. donation'[d].status = "PENDING" /\ donation'[d].receipt = None /\ donation'[d].g = None
    BY <2>1, <2>2 DEF NewDonation
  <2>4. job'[w].at # "commit" /\ Others(w)
    BY <1>0, <1>6, Moves DEF Moved, Ended, Fields, NoJob
  <2>5. receiptSeq' = receiptSeq
    BY <1>6 DEF SubmitCreate
  <2> QED BY <1>5, <2>1, <2>3, <2>4, <2>5
<1>7. ASSUME NEW w \in Workers, NEW d \in Sources, RecordCommit(w, d) PROVE ReceiptsDistinct' /\ ReceiptsIssued'
  <2>1. donation'[d] = NewDonation(w, "APPROVED") /\ \A c \in Sources \ {d} : donation'[c] = donation[c]
    BY <1>7, DonationInsert
  <2>2. job[w].at = "commit" /\ job[w].receipt # None
    BY <1>7, Knows DEF RecordCommit, At
  <2>3. donation'[d].status = "APPROVED" /\ donation'[d].receipt = job[w].receipt /\ donation'[d].g = job[w].g
    BY <2>1 DEF NewDonation
  <2>4. job'[w].at # "commit" /\ Others(w)
    BY <1>0, <1>7, Moves DEF RecordCommit, Ended, NoJob
  <2>5. receiptSeq' = receiptSeq
    BY <1>7 DEF RecordCommit
  <2>6. donation'[d].g # None => \A c \in Sources \ {d} : donation[c].g # donation'[d].g
    BY <1>7, <2>3 DEF RecordCommit, PaymentIsNew, Recorded
  <2> QED BY <1>5, <2>1, <2>2, <2>3, <2>4, <2>5, <2>6
<1>8. ASSUME NEW w \in Workers, ApproveCommit(w) PROVE ReceiptsDistinct' /\ ReceiptsIssued'
  <2> DEFINE d == job[w].d
  <2>1. job[w].at = "commit" /\ job[w].receipt # None /\ d \in Sources
    BY <1>8, Knows DEF ApproveCommit, At
  <2>2. /\ donation'[d].status = "APPROVED" /\ donation'[d].receipt = job[w].receipt /\ donation'[d].g = donation[d].g
        /\ \A c \in Sources \ {d} : donation'[c] = donation[c]
    BY <1>8, DonationSteps
  <2>3. job'[w].at # "commit" /\ Others(w)
    BY <1>0, <1>8, Moves DEF ApproveCommit, Moved, Fields, Steps
  <2>4. receiptSeq' = receiptSeq
    BY <1>8 DEF ApproveCommit
  <2>5. donation'[d].g # None => \A c \in Sources \ {d} : donation[c].g # donation'[d].g
    BY <1>0, <2>1, <2>2 DEF ReceiptsDistinct
  <2> HIDE DEF d
  <2> QED BY <1>5, <2>1, <2>2, <2>3, <2>4, <2>5
<1>9. ASSUME NEW w \in Workers, RejectCas(w), CanReview(job[w].d) PROVE ReceiptsDistinct' /\ ReceiptsIssued'
  <2> DEFINE d == job[w].d
  <2>1. d \in Sources
    BY <1>9, Knows DEF RejectCas, At
  <2>2. /\ donation'[d].status = "REJECTED" /\ donation'[d].receipt = None /\ donation'[d].g = donation[d].g
        /\ \A c \in Sources \ {d} : donation'[c] = donation[c]
    BY <1>9, DonationSteps
  <2>3. job'[w].at # "commit" /\ Others(w)
    BY <1>0, <1>9, Moves DEF RejectCas, Moved, Fields, Steps
  <2>4. receiptSeq' = receiptSeq
    BY <1>9 DEF RejectCas
  <2>5. donation'[d].g # None => \A c \in Sources \ {d} : donation[c].g # donation'[d].g
    BY <1>0, <2>1, <2>2 DEF ReceiptsDistinct
  <2> HIDE DEF d
  <2> QED BY <1>5, <2>1, <2>2, <2>3, <2>4, <2>5
<1>10. ASSUME NEW w \in Workers, Telling(w) PROVE ReceiptsDistinct' /\ ReceiptsIssued'
  BY <1>1, <1>4, <1>6, <1>7, <1>8, <1>9, <1>10 DEF Telling
<1> QED BY <1>3, <1>10, Kinds

\* What becomes of the rows.
LEMMA RowSteps ==
    ASSUME DonationInv, NEW w \in Workers
    PROVE  /\ SubmitPoints(w) => \E r \in LedgerRow :
                 /\ ledger' = ledger \cup {r}
                 /\ r.source = job[w].d /\ r.m = job[w].m /\ r.points = job[w].points /\ r.status = "PENDING"
           /\ \A d \in Sources : RecordCommit(w, d) =>
                 IF EarnsPoints(w)
                 THEN \E r \in LedgerRow :
                         /\ ledger' = ledger \cup {r}
                         /\ r.source = d /\ r.m = job[w].m /\ r.points = job[w].points /\ r.status = "APPROVED"
                 ELSE ledger' = ledger
           /\ ResolveSettle(w) => \E r \in LedgerRow :
                 /\ job[w].row \in ledger /\ job[w].row.status = "PENDING" /\ job[w].row.source = job[w].d
                 /\ ledger' = (ledger \ {job[w].row}) \cup {r}
                 /\ r.source = job[w].d /\ r.m = job[w].row.m /\ r.points = job[w].row.points
                 /\ r.status = IF job[w].op = "approve" THEN "APPROVED" ELSE "REJECTED"
<1>0. IsFiniteSet(ledger) /\ ledger \subseteq LedgerRow /\ job[w] \in Job
  BY Knows DEF DonationInv, TypeOK
<1>1. ASSUME NEW s \in Sources, NEW m \in Members, NEW n \in Nat, NEW status \in RowStatus
      PROVE  /\ NewRow(s, m, n, status) \in LedgerRow
             /\ NewRow(s, m, n, status).source = s /\ NewRow(s, m, n, status).m = m
             /\ NewRow(s, m, n, status).points = n /\ NewRow(s, m, n, status).status = status
  BY <1>0, NewRowType DEF NewRow
<1>2. ASSUME SubmitPoints(w)
      PROVE  \E r \in LedgerRow :
                 /\ ledger' = ledger \cup {r}
                 /\ r.source = job[w].d /\ r.m = job[w].m /\ r.points = job[w].points /\ r.status = "PENDING"
  <2>1. job[w].d \in Sources /\ job[w].m \in Members /\ job[w].points \in Nat
    BY <1>0, <1>2, Knows DEF SubmitPoints, At, Job
  <2> QED BY <1>1, <1>2, <2>1 DEF SubmitPoints, RowStatus
<1>3. ASSUME NEW d \in Sources, RecordCommit(w, d)
      PROVE  IF EarnsPoints(w)
             THEN \E r \in LedgerRow :
                     /\ ledger' = ledger \cup {r}
                     /\ r.source = d /\ r.m = job[w].m /\ r.points = job[w].points /\ r.status = "APPROVED"
             ELSE ledger' = ledger
  <2>1. job[w].m \in Members /\ job[w].points \in Nat
    BY <1>0, <1>3, Knows DEF RecordCommit, At, Job, Steps
  <2> QED BY <1>1, <1>3, <2>1 DEF RecordCommit, CreditPoints, RowStatus, points_vars
<1>4. ASSUME ResolveSettle(w)
      PROVE  \E r \in LedgerRow :
                 /\ job[w].row \in ledger /\ job[w].row.status = "PENDING" /\ job[w].row.source = job[w].d
                 /\ ledger' = (ledger \ {job[w].row}) \cup {r}
                 /\ r.source = job[w].d /\ r.m = job[w].row.m /\ r.points = job[w].row.points
                 /\ r.status = IF job[w].op = "approve" THEN "APPROVED" ELSE "REJECTED"
  <2> DEFINE q == job[w].row
             new(status) == [q EXCEPT !.points = q.points, !.status = status]
  <2>1. job[w].at = "settle" /\ Reviewing(w)
    BY <1>4 DEF ResolveSettle, Reviewing, Resolving
  <2>2. q \in ledger /\ q.status = "PENDING" /\ q.source = job[w].d
    BY <2>1 DEF DonationInv, OneReview, PendingRow, RowsOf
  <2>3. q \in LedgerRow
    BY <1>0, <2>2
  <2>4. {p \in ledger : p.source # q.source \/ p.nth # q.nth} = ledger \ {q}
    BY <2>2 DEF DonationInv, OneRow
  <2>5. ASSUME NEW status \in RowStatus
        PROVE  /\ new(status) \in LedgerRow /\ new(status).source = q.source /\ new(status).m = q.m
               /\ new(status).points = q.points /\ new(status).status = status
               /\ SetRow(q, q.points, status) => ledger' = (ledger \ {q}) \cup {new(status)}
    <3>1. q \in [source : Sources, nth : Nat, m : Members, points : Nat, status : RowStatus]
      BY <2>3 DEF LedgerRow
    <3> HIDE DEF q
    <3>2. /\ new(status) \in LedgerRow /\ new(status).source = q.source /\ new(status).m = q.m
          /\ new(status).points = q.points /\ new(status).status = status
      BY <3>1 DEF LedgerRow
    <3> QED BY <2>4, <3>2 DEF SetRow
  <2>6. IF job[w].op = "approve" THEN SetRow(q, q.points, "APPROVED") ELSE SetRow(q, q.points, "REJECTED")
    BY <1>4 DEF ResolveSettle, ApproveRow
  <2> HIDE DEF q, new
  <2>7. CASE job[w].op = "approve"
    <3>1. "APPROVED" \in RowStatus
      BY DEF RowStatus
    <3>2. ledger' = (ledger \ {q}) \cup {new("APPROVED")}
      BY <2>5, <2>6, <2>7, <3>1
    <3> QED BY <2>2, <2>5, <2>7, <3>1, <3>2 DEF q
  <2>8. CASE job[w].op # "approve"
    <3>1. "REJECTED" \in RowStatus
      BY DEF RowStatus
    <3>2. ledger' = (ledger \ {q}) \cup {new("REJECTED")}
      BY <2>5, <2>6, <2>8, <3>1
    <3> QED BY <2>2, <2>5, <2>8, <3>1, <3>2 DEF q
  <2> QED BY <2>7, <2>8
<1> QED BY <1>2, <1>3, <1>4

\* The reviews of the other donations, while w is at work on d.
LEMMA OtherReviews ==
    ASSUME DonationInv, NEW w \in Workers, NEW d,
           Others(w), \A c \in Sources \ {d} : donation'[c] = donation[c],
           \A r \in ledger : r.source # d => r \in ledger',
           \A v \in Workers \ {w} : Reviewing(v) => job[v].d # d,
           Reviewing(w)' =>
              /\ job'[w].d = d
              /\ donation'[d].status = IF ~Resolving(w)' THEN "PENDING"
                                       ELSE IF job'[w].op = "approve" THEN "APPROVED" ELSE "REJECTED"
              /\ Resolving(w)' /\ job'[w].op = "approve" => donation'[d].receipt = job'[w].receipt
              /\ job'[w].at = "settle" =>
                    job'[w].row \in ledger' /\ job'[w].row.source = d /\ job'[w].row.status = "PENDING"
    PROVE  OneReview'
<1>0. \A v \in Workers \ {w} : job'[v] = job[v] /\ (Reviewing(v)' <=> Reviewing(v)) /\ (Resolving(v)' <=> Resolving(v))
  BY DEF Others, Reviewing, Resolving
<1>1. ASSUME NEW v \in Workers \ {w}, Reviewing(v)'
      PROVE  /\ \A u \in Workers : Reviewing(u)' /\ job'[u].d = job'[v].d => u = v
             /\ donation'[job'[v].d].status =
                   IF ~Resolving(v)' THEN "PENDING" ELSE IF job'[v].op = "approve" THEN "APPROVED" ELSE "REJECTED"
             /\ Resolving(v)' /\ job'[v].op = "approve" => donation'[job'[v].d].receipt = job'[v].receipt
             /\ job'[v].at = "settle" =>
                   job'[v].row \in ledger' /\ job'[v].row.source = job'[v].d /\ job'[v].row.status = "PENDING"
  <2>1. Reviewing(v) /\ job'[v] = job[v] /\ job[v].d # d /\ (Resolving(v)' <=> Resolving(v))
    BY <1>0, <1>1
  <2>2. job[v].d \in Sources
    BY <2>1, Knows DEF Reviewing, Resolving
  <2>3. donation'[job[v].d] = donation[job[v].d]
    BY <2>1, <2>2
  <2>4. \A u \in Workers : Reviewing(u)' /\ job'[u].d = job'[v].d => u = v
    BY <1>0, <2>1 DEF DonationInv, OneReview
  <2>5. job[v].at = "settle" =>
           job[v].row \in ledger' /\ job[v].row.source = job[v].d /\ job[v].row.status = "PENDING"
    BY <2>1 DEF DonationInv, OneReview, PendingRow, RowsOf
  <2>6. /\ donation[job[v].d].status =
              IF ~Resolving(v) THEN "PENDING" ELSE IF job[v].op = "approve" THEN "APPROVED" ELSE "REJECTED"
        /\ Resolving(v) /\ job[v].op = "approve" => donation[job[v].d].receipt = job[v].receipt
    BY <2>1 DEF DonationInv, OneReview
  <2> QED BY <2>1, <2>3, <2>4, <2>5, <2>6
<1>2. ASSUME Reviewing(w)' PROVE \A u \in Workers : Reviewing(u)' /\ job'[u].d = job'[w].d => u = w
  BY <1>0, <1>2
<1>3. \A v \in Workers : Reviewing(v)' =>
          /\ \A u \in Workers : Reviewing(u)' /\ job'[u].d = job'[v].d => u = v
          /\ donation'[job'[v].d].status =
                IF ~Resolving(v)' THEN "PENDING" ELSE IF job'[v].op = "approve" THEN "APPROVED" ELSE "REJECTED"
          /\ Resolving(v)' /\ job'[v].op = "approve" => donation'[job'[v].d].receipt = job'[v].receipt
          /\ job'[v].at = "settle" =>
                job'[v].row \in ledger' /\ job'[v].row.source = job'[v].d /\ job'[v].row.status = "PENDING"
  <2> SUFFICES ASSUME NEW v \in Workers, Reviewing(v)'
               PROVE  /\ \A u \in Workers : Reviewing(u)' /\ job'[u].d = job'[v].d => u = v
                      /\ donation'[job'[v].d].status =
                            IF ~Resolving(v)' THEN "PENDING"
                            ELSE IF job'[v].op = "approve" THEN "APPROVED" ELSE "REJECTED"
                      /\ Resolving(v)' /\ job'[v].op = "approve" => donation'[job'[v].d].receipt = job'[v].receipt
                      /\ job'[v].at = "settle" =>
                            job'[v].row \in ledger' /\ job'[v].row.source = job'[v].d /\ job'[v].row.status = "PENDING"
    OBVIOUS
  <2>1. CASE v # w
    BY <1>1, <2>1
  <2>2. CASE v = w
    BY <1>2, <2>2
  <2> QED BY <2>1, <2>2
<1> QED BY <1>3 DEF OneReview, PendingRow, RowsOf

LEMMA NotReviewed ==
    ASSUME DonationInv, NEW d \in Sources, donation[d].status = "PENDING", ~Locked(d), NEW v \in Workers, Reviewing(v)
    PROVE  job[v].d # d
<1> SUFFICES ASSUME job[v].d = d PROVE FALSE
  OBVIOUS
<1>1. CASE Resolving(v)
  <2>1. donation[d].status \in {"APPROVED", "REJECTED"}
    BY <1>1 DEF DonationInv, OneReview
  <2> QED BY <2>1
<1>2. CASE ~Resolving(v)
  BY <1>2 DEF Reviewing, Locked
<1> QED BY <1>1, <1>2

LEMMA NextReview ==
    ASSUME DonationInv, Next \/ UNCHANGED vars
    PROVE  OneReview'
<1>0. TypeOK /\ OneReview
  BY DEF DonationInv
<1>a. \A v \in Workers : Reviewing(v) => job[v].d \in Sources /\ job[v].d # None
  BY Knows DEF Reviewing, Resolving
<1>b. ASSUME NEW w \in Workers, Reviewing(w), NEW v \in Workers \ {w}, Reviewing(v) PROVE job[v].d # job[w].d
  BY <1>0, <1>b DEF OneReview
<1>1. CASE Quiet
  <2>1. \A v \in Workers : Reviewing(v)' =>
           job'[v] = job[v] /\ Reviewing(v) /\ (Resolving(v)' <=> Resolving(v)) /\ PendingRow(job[v].d)' = PendingRow(job[v].d)
    BY <1>1 DEF Quiet, Critical, Reviewing, Resolving, PendingRow, RowsOf, points_vars
  <2>2. donation' = donation /\ ledger' = ledger
    BY <1>1 DEF Quiet, points_vars
  <2> QED BY <1>0, <2>1, <2>2 DEF OneReview, PendingRow, RowsOf
<1>2. ASSUME NEW w \in Workers, ApproveCas(w), CanReview(job[w].d) PROVE OneReview'
  <2> DEFINE d == job[w].d
  <2>1. d \in Sources /\ donation[d].status = "PENDING" /\ ~Locked(d)
    BY <1>2, Knows DEF ApproveCas, At, CanReview
  <2>2. donation' = donation /\ ledger' = ledger
    BY <1>2 DEF ApproveCas, points_vars
  <2>3. Others(w) /\ job'[w].d = d /\ job'[w].at = "number"
    BY <1>0, <1>2, Moves DEF ApproveCas, Moved, Fields, Steps
  <2>4. ~Resolving(w)' /\ job'[w].at # "settle"
    BY <2>3 DEF Resolving
  <2>5. \A v \in Workers \ {w} : Reviewing(v) => job[v].d # d
    BY <2>1, NotReviewed
  <2> HIDE DEF d
  <2> QED BY <2>1, <2>2, <2>3, <2>4, <2>5, OtherReviews
<1>3. ASSUME NEW w \in Workers, AllocateReceipt(w) PROVE OneReview'
  <2>1. donation' = donation /\ ledger' = ledger
    BY <1>3 DEF AllocateReceipt, points_vars
  <2>2. Others(w) /\ job'[w].d = job[w].d /\ job'[w].at = "commit" /\ job'[w].op = job[w].op
    BY <1>0, <1>3, Moves DEF Moved, Fields
  <2>3. ~Resolving(w)' /\ job'[w].at # "settle"
    BY <2>2 DEF Resolving
  <2>4. CASE job[w].op = "approve"
    <3> DEFINE d == job[w].d
    <3>1. Reviewing(w) /\ ~Resolving(w)
      BY <1>3, <2>4 DEF AllocateReceipt, Reviewing, Resolving
    <3>2. donation[d].status = "PENDING"
      BY <1>0, <3>1 DEF OneReview
    <3>3. \A v \in Workers \ {w} : Reviewing(v) => job[v].d # d
      BY <1>b, <3>1
    <3>4. job'[w].d = d
      BY <2>2
    <3> HIDE DEF d
    <3> QED BY <2>1, <2>2, <2>3, <3>2, <3>3, <3>4, OtherReviews
  <2>5. CASE job[w].op # "approve"
    <3>1. ~Reviewing(w)'
      BY <2>2, <2>5 DEF Reviewing, Resolving
    <3> QED BY <1>a, <2>1, <2>2, <3>1, OtherReviews
  <2> QED BY <2>4, <2>5
<1>4. ASSUME NEW w \in Workers, NEW d \in Sources, SubmitCreate(w, d) PROVE OneReview'
  <2>0. ledger' = ledger
    BY <1>4 DEF SubmitCreate, points_vars
  <2>1. ledger' = ledger /\ \A c \in Sources \ {d} : donation'[c] = donation[c]
    BY <1>4, <2>0, DonationInsert
  <2>2. job[w].op = "submit"
    BY <1>4 DEF SubmitCreate, At
  <2>3. Others(w) /\ ~Reviewing(w)'
    BY <1>0, <1>4, <2>2, Moves DEF Moved, Ended, Fields, NoJob, Reviewing, Resolving
  <2>4. \A v \in Workers \ {w} : Reviewing(v) => job[v].d # d
    BY <1>4, NoRowsYet DEF SubmitCreate
  <2> QED BY <2>1, <2>3, <2>4, OtherReviews
<1>5. ASSUME NEW w \in Workers, NEW d \in Sources, RecordCommit(w, d) PROVE OneReview'
  <2>1. \A c \in Sources \ {d} : donation'[c] = donation[c]
    BY <1>5, DonationInsert
  <2>2. \A r \in ledger : r \in ledger'
    BY <1>5, RowSteps
  <2>3. Others(w) /\ ~Reviewing(w)'
    BY <1>0, <1>5, Moves DEF RecordCommit, Ended, NoJob, Reviewing, Resolving
  <2>4. \A v \in Workers \ {w} : Reviewing(v) => job[v].d # d
    BY <1>5, NoRowsYet DEF RecordCommit
  <2> QED BY <2>1, <2>2, <2>3, <2>4, OtherReviews
<1>6. ASSUME NEW w \in Workers, SubmitPoints(w) PROVE OneReview'
  <2>1. donation' = donation /\ \A r \in ledger : r \in ledger'
    BY <1>6, RowSteps DEF SubmitPoints
  <2>2. Others(w) /\ ~Reviewing(w)'
    BY <1>0, <1>6, Moves DEF SubmitPoints, Ended, NoJob, Reviewing, Resolving
  <2> QED BY <1>a, <2>1, <2>2, OtherReviews
<1>7. ASSUME NEW w \in Workers, ApproveCommit(w) PROVE OneReview'
  <2> DEFINE d == job[w].d
  <2>1. Reviewing(w) /\ job[w].op = "approve"
    BY <1>7 DEF ApproveCommit, At, Reviewing
  <2>2. /\ donation'[d].status = "APPROVED" /\ donation'[d].receipt = job[w].receipt
        /\ \A c \in Sources \ {d} : donation'[c] = donation[c]
    BY <1>7, DonationSteps
  <2>3. ledger' = ledger
    BY <1>7 DEF ApproveCommit, points_vars
  <2>4. Others(w) /\ job'[w].d = d /\ job'[w].at = "resolve" /\ job'[w].op = "approve" /\ job'[w].receipt = job[w].receipt
    BY <1>0, <1>7, <2>1, Moves DEF ApproveCommit, Moved, Fields, Steps
  <2>5. Resolving(w)' /\ job'[w].at # "settle"
    BY <2>4 DEF Resolving
  <2>6. \A v \in Workers \ {w} : Reviewing(v) => job[v].d # d
    BY <1>b, <2>1
  <2> HIDE DEF d
  <2> QED BY <2>2, <2>3, <2>4, <2>5, <2>6, OtherReviews
<1>8. ASSUME NEW w \in Workers, RejectCas(w), CanReview(job[w].d) PROVE OneReview'
  <2> DEFINE d == job[w].d
  <2>1. d \in Sources /\ donation[d].status = "PENDING" /\ ~Locked(d) /\ job[w].op = "reject"
    BY <1>8, Knows DEF RejectCas, At, CanReview
  <2>2. donation'[d].status = "REJECTED" /\ \A c \in Sources \ {d} : donation'[c] = donation[c]
    BY <1>8, DonationSteps
  <2>3. ledger' = ledger
    BY <1>8 DEF RejectCas, points_vars
  <2>4. Others(w) /\ job'[w].d = d /\ job'[w].at = "resolve" /\ job'[w].op = "reject"
    BY <1>0, <1>8, <2>1, Moves DEF RejectCas, Moved, Fields, Steps
  <2>5. Resolving(w)' /\ job'[w].at # "settle"
    BY <2>4 DEF Resolving
  <2>6. \A v \in Workers \ {w} : Reviewing(v) => job[v].d # d
    BY <2>1, NotReviewed
  <2> HIDE DEF d
  <2> QED BY <2>2, <2>3, <2>4, <2>5, <2>6, OtherReviews
<1>9. ASSUME NEW w \in Workers, ResolveFind(w), PendingRow(job[w].d) # {} PROVE OneReview'
  <2> DEFINE d == job[w].d
  <2>1. Reviewing(w) /\ Resolving(w)
    BY <1>9 DEF ResolveFind, Reviewing, Resolving
  <2>2. donation' = donation /\ ledger' = ledger
    BY <1>9 DEF ResolveFind, points_vars
  <2>3. PICK r \in PendingRow(d) : Moved(w, "settle", d, job[w].receipt, r)
    BY <1>0, <1>9, Moves
  <2>4. Others(w) /\ job'[w].d = d /\ job'[w].at = "settle" /\ job'[w].op = job[w].op /\ job'[w].receipt = job[w].receipt /\ job'[w].row = r
    BY <2>3 DEF Moved, Fields
  <2>5. Resolving(w)'
    BY <2>4 DEF Resolving
  <2>6. \A v \in Workers \ {w} : Reviewing(v) => job[v].d # d
    BY <1>b, <2>1
  <2>7. /\ donation[d].status = IF job[w].op = "approve" THEN "APPROVED" ELSE "REJECTED"
        /\ job[w].op = "approve" => donation[d].receipt = job[w].receipt
    BY <1>0, <2>1 DEF OneReview
  <2>8. r \in ledger /\ r.source = d /\ r.status = "PENDING"
    BY <2>3 DEF PendingRow, RowsOf
  <2> HIDE DEF d
  <2> QED BY <2>2, <2>4, <2>5, <2>6, <2>7, <2>8, OtherReviews
<1>10. ASSUME NEW w \in Workers, ResolveSettle(w) PROVE OneReview'
  <2>1. Reviewing(w) /\ donation' = donation
    BY <1>10 DEF ResolveSettle, Reviewing, Resolving
  <2>2. Others(w) /\ ~Reviewing(w)'
    BY <1>0, <1>10, Moves DEF ResolveSettle, Ended, NoJob, Reviewing, Resolving
  <2>3. \A r \in ledger : r.source # job[w].d => r \in ledger'
    BY <1>10, RowSteps
  <2>4. \A v \in Workers \ {w} : Reviewing(v) => job[v].d # job[w].d
    BY <1>b, <2>1
  <2> QED BY <2>1, <2>2, <2>3, <2>4, OtherReviews
<1>11. ASSUME NEW w \in Workers, Telling(w) PROVE OneReview'
  BY <1>2, <1>3, <1>4, <1>5, <1>6, <1>7, <1>8, <1>9, <1>10, <1>11 DEF Telling
<1> QED BY <1>1, <1>11, Kinds

\* A donation once recorded keeps its donor, its points, its receipt number and
\* its place.
LEMMA DonationKept ==
    ASSUME DonationInv, Next \/ UNCHANGED vars, NEW c \in Sources
    PROVE  /\ Exists(c) => Exists(c)' /\ donation'[c].m = donation[c].m /\ donation'[c].points = donation[c].points
           /\ donation[c].receipt # None => donation'[c].receipt = donation[c].receipt
           /\ ~Exists(c) /\ Exists(c)' => \E w \in Workers : SubmitCreate(w, c) \/ RecordCommit(w, c)
<1> DEFINE Kept == /\ Exists(c)' <=> Exists(c)
                   /\ donation'[c].m = donation[c].m /\ donation'[c].points = donation[c].points
                   /\ donation[c].receipt # None => donation'[c].receipt = donation[c].receipt
<1>1. donation' = donation => Kept
  BY DEF Exists
<1>2. CASE Quiet
  BY <1>1, <1>2 DEF Quiet
<1>3. ASSUME NEW w \in Workers, NEW d \in Sources, SubmitCreate(w, d) \/ RecordCommit(w, d)
      PROVE  (c = d /\ ~Exists(c)) \/ Kept
  <2>1. ~Exists(d) /\ \E status : donation' = [donation EXCEPT ![d] = NewDonation(w, status)]
    BY <1>3 DEF SubmitCreate, RecordCommit
  <2>2. c # d => donation'[c] = donation[c]
    BY <2>1, DonationSteps
  <2> QED BY <2>1, <2>2 DEF Exists
<1>4. ASSUME NEW w \in Workers, ApproveCommit(w) \/ (RejectCas(w) /\ CanReview(job[w].d)) PROVE Kept
  <2>1. CASE c # job[w].d
    <3>1. donation'[c] = donation[c]
      BY <1>4, <2>1, DonationSteps
    <3> QED BY <3>1 DEF Exists
  <2>2. CASE c = job[w].d
    <3>1. /\ donation'[c].m = donation[c].m /\ donation'[c].points = donation[c].points
          /\ donation'[c].status \in {"APPROVED", "REJECTED"} /\ donation[c].status = "PENDING"
          /\ donation[c].receipt = None
      BY <1>4, <2>2, DonationSteps DEF CanReview
    <3> QED BY <3>1 DEF Exists
  <2> QED BY <2>1, <2>2
<1>5. ASSUME NEW w \in Workers, \/ ApproveCas(w) \/ AllocateReceipt(w) \/ SubmitPoints(w)
                                \/ ResolveFind(w) \/ ResolveSettle(w)
      PROVE  Kept
  BY <1>1, <1>5 DEF ApproveCas, AllocateReceipt, SubmitPoints, ResolveFind, ResolveSettle
<1>6. ASSUME NEW w \in Workers, Telling(w) PROVE (~Exists(c) /\ \E v \in Workers : SubmitCreate(v, c) \/ RecordCommit(v, c)) \/ Kept
  <2> HIDE DEF Kept
  <2>1. ASSUME NEW d \in Sources, SubmitCreate(w, d) \/ RecordCommit(w, d)
        PROVE  (~Exists(c) /\ \E v \in Workers : SubmitCreate(v, c) \/ RecordCommit(v, c)) \/ Kept
    BY <1>3, <2>1
  <2> QED BY <1>4, <1>5, <1>6, <2>1 DEF Telling
<1>7. ~Exists(c) => donation[c].receipt = None
  BY NoRowsYet DEF NoDonation
<1> QED BY <1>2, <1>6, <1>7, Kinds

\* The rows of a step: those of w's donation may change, and no others.
LEMMA OtherRows ==
    ASSUME DonationInv, Next \/ UNCHANGED vars, NEW w \in Workers, Others(w),
           job'[w].at # "points",
           \A r \in ledger' \ ledger : \A v \in Workers \ {w} : job[v].at = "points" => r.source # job[v].d
    PROVE  RowsOwed'
<1>1. ASSUME NEW v \in Workers, job'[v].at = "points"
      PROVE  /\ v # w /\ job'[v] = job[v] /\ job[v].at = "points" /\ job[v].d \in Sources
             /\ donation'[job[v].d].status # "NONE" /\ job[v].points > 0
             /\ donation'[job[v].d].m = job[v].m /\ donation'[job[v].d].points = job[v].points
             /\ RowsOf(job[v].d) = {}
  <2>1. v # w /\ job'[v] = job[v] /\ job[v].at = "points" /\ job[v].d \in Sources
    BY <1>1, Knows DEF Others
  <2> QED BY <2>1, DonationKept DEF DonationInv, RowsOwed, EarnsPoints, Exists
<1>2. ASSUME NEW v \in Workers, job'[v].at = "points", NEW r \in ledger', r.source = job'[v].d PROVE FALSE
  <2>1. v # w /\ job'[v] = job[v] /\ job[v].at = "points" /\ RowsOf(job[v].d) = {}
    BY <1>1, <1>2
  <2>2. r \in ledger
    BY <1>2, <2>1
  <2> QED BY <1>2, <2>1, <2>2 DEF RowsOf
<1>3. ASSUME NEW v \in Workers, job'[v].at = "points", NEW u \in Workers, job'[u].at = "points", job'[u].d = job'[v].d
      PROVE  u = v
  <2>1. job'[v] = job[v] /\ job'[u] = job[u]
    BY <1>1, <1>3
  <2> QED BY <1>3, <2>1 DEF DonationInv, RowsOwed
<1>4. \A v \in Workers : job'[v].at = "points" =>
        /\ donation'[job'[v].d].status # "NONE" /\ job'[v].points > 0
        /\ donation'[job'[v].d].m = job'[v].m /\ donation'[job'[v].d].points = job'[v].points
        /\ \A r \in ledger' : r.source # job'[v].d
        /\ \A u \in Workers : job'[u].at = "points" /\ job'[u].d = job'[v].d => u = v
  <2> SUFFICES ASSUME NEW v \in Workers, job'[v].at = "points"
               PROVE  /\ donation'[job'[v].d].status # "NONE" /\ job'[v].points > 0
                      /\ donation'[job'[v].d].m = job'[v].m /\ donation'[job'[v].d].points = job'[v].points
                      /\ \A r \in ledger' : r.source # job'[v].d
                      /\ \A u \in Workers : job'[u].at = "points" /\ job'[u].d = job'[v].d => u = v
    OBVIOUS
  <2>1. job'[v] = job[v]
    BY <1>1
  <2>2. \A r \in ledger' : r.source # job'[v].d
    BY <1>2
  <2>3. \A u \in Workers : job'[u].at = "points" /\ job'[u].d = job'[v].d => u = v
    BY <1>3
  <2> QED BY <1>1, <2>1, <2>2, <2>3
<1> QED BY <1>4 DEF RowsOwed, RowsOf, Exists, EarnsPoints

LEMMA NextOwed ==
    ASSUME DonationInv, Next \/ UNCHANGED vars
    PROVE  RowsOwed'
<1>0. TypeOK /\ RowsOwed
  BY DEF DonationInv
<1>1. CASE Quiet
  <2>1. \A v \in Workers : job'[v].at = "points" => job'[v] = job[v]
    BY <1>1 DEF Quiet, Critical
  <2>2. donation' = donation /\ ledger' = ledger
    BY <1>1 DEF Quiet, points_vars
  <2> QED BY <1>0, <2>1, <2>2 DEF RowsOwed, RowsOf, Exists, EarnsPoints
<1>2. ASSUME NEW w \in Workers, \/ ApproveCas(w) /\ CanReview(job[w].d)
                                \/ AllocateReceipt(w) \/ ApproveCommit(w)
                                \/ RejectCas(w) /\ CanReview(job[w].d)
                                \/ ResolveFind(w) /\ PendingRow(job[w].d) # {}
      PROVE RowsOwed'
  <2>1. ledger' = ledger
    BY <1>2 DEF ApproveCas, AllocateReceipt, ApproveCommit, RejectCas, ResolveFind, points_vars
  <2>2. Others(w) /\ job'[w].at # "points"
    <3>1. CASE ApproveCas(w) /\ CanReview(job[w].d)
      BY <1>0, <3>1, Moves DEF ApproveCas, Moved, Fields, Steps
    <3>2. CASE AllocateReceipt(w)
      BY <1>0, <3>2, Moves DEF Moved, Fields
    <3>3. CASE ApproveCommit(w)
      BY <1>0, <3>3, Moves DEF ApproveCommit, Moved, Fields, Steps
    <3>4. CASE RejectCas(w) /\ CanReview(job[w].d)
      BY <1>0, <3>4, Moves DEF RejectCas, Moved, Fields, Steps
    <3>5. CASE ResolveFind(w) /\ PendingRow(job[w].d) # {}
      BY <1>0, <3>5, Moves DEF Moved, Fields
    <3> QED BY <1>2, <3>1, <3>2, <3>3, <3>4, <3>5
  <2> QED BY <2>1, <2>2, OtherRows
<1>3. ASSUME NEW w \in Workers, NEW d \in Sources, SubmitCreate(w, d) PROVE RowsOwed'
  <2>0. ledger' = ledger
    BY <1>3 DEF SubmitCreate, points_vars
  <2>1. ledger' = ledger /\ donation'[d] = NewDonation(w, "PENDING")
    BY <1>3, <2>0, DonationInsert
  <2>2. RowsOf(d) = {} /\ \A v \in Workers : job[v].at = "points" => job[v].d # d
    BY <1>3, NoRowsYet DEF SubmitCreate
  <2>3. CASE EarnsPoints(w)
    <3>1. Moved(w, "points", d, job[w].receipt, job[w].row)
      BY <1>0, <1>3, <2>3, Moves
    <3>2. Others(w) /\ job'[w].at = "points" /\ job'[w].d = d /\ job'[w].m = job[w].m /\ job'[w].points = job[w].points
      BY <3>1 DEF Moved, Fields
    <3>3. /\ donation'[d].status = "PENDING" /\ donation'[d].m = job[w].m /\ donation'[d].points = job[w].points
      BY <2>1 DEF NewDonation
    <3>4. ASSUME NEW v \in Workers, v # w, job'[v].at = "points"
          PROVE  /\ donation'[job'[v].d].status # "NONE" /\ job'[v].points > 0
                 /\ donation'[job'[v].d].m = job'[v].m /\ donation'[job'[v].d].points = job'[v].points
                 /\ \A r \in ledger' : r.source # job'[v].d
                 /\ \A u \in Workers : job'[u].at = "points" /\ job'[u].d = job'[v].d => u = v
      <4>1. job'[v] = job[v] /\ job[v].at = "points" /\ job[v].d \in Sources /\ job[v].d # d
        BY <2>2, <3>2, <3>4, Knows DEF Others
      <4>2. \A u \in Workers : job'[u].at = "points" /\ job'[u].d = job'[v].d => u = v
        BY <1>0, <3>2, <4>1 DEF RowsOwed, Others
      <4>3. Exists(job[v].d)' /\ donation'[job[v].d].m = job[v].m /\ donation'[job[v].d].points = job[v].points
        BY <1>0, <4>1, DonationKept DEF RowsOwed
      <4>4. RowsOf(job[v].d) = {} /\ EarnsPoints(v)
        BY <1>0, <4>1 DEF RowsOwed
      <4> QED BY <2>1, <4>1, <4>2, <4>3, <4>4 DEF Exists, RowsOf, EarnsPoints
    <3>5. ASSUME NEW v \in Workers, job'[v].at = "points"
          PROVE  /\ donation'[job'[v].d].status # "NONE" /\ job'[v].points > 0
                 /\ donation'[job'[v].d].m = job'[v].m /\ donation'[job'[v].d].points = job'[v].points
                 /\ \A r \in ledger' : r.source # job'[v].d
                 /\ \A u \in Workers : job'[u].at = "points" /\ job'[u].d = job'[v].d => u = v
      <4>1. CASE v = w
        <5>1. \A u \in Workers : job'[u].at = "points" /\ job'[u].d = d => u = w
          BY <2>2, <3>2 DEF Others
        <5> QED BY <2>1, <2>2, <2>3, <3>2, <3>3, <4>1, <5>1 DEF EarnsPoints, RowsOf
      <4>2. CASE v # w
        BY <3>4, <3>5, <4>2
      <4> QED BY <4>1, <4>2
    <3> QED BY <3>5 DEF RowsOwed, Exists, RowsOf, EarnsPoints
  <2>4. CASE ~EarnsPoints(w)
    <3>1. Others(w) /\ job'[w].at # "points"
      BY <1>0, <1>3, <2>4, Moves DEF Ended, NoJob
    <3> QED BY <2>1, <3>1, OtherRows
  <2> QED BY <2>3, <2>4
<1>4. ASSUME NEW w \in Workers, NEW d \in Sources, RecordCommit(w, d) PROVE RowsOwed'
  <2>1. \A r \in ledger' \ ledger : r.source = d
    BY <1>4, RowSteps
  <2>2. \A v \in Workers : job[v].at = "points" => job[v].d # d
    BY <1>4, NoRowsYet DEF RecordCommit
  <2>3. Others(w) /\ job'[w].at # "points"
    BY <1>0, <1>4, Moves DEF RecordCommit, Ended, NoJob
  <2> QED BY <2>1, <2>2, <2>3, OtherRows
<1>5. ASSUME NEW w \in Workers, SubmitPoints(w) PROVE RowsOwed'
  <2>1. \A r \in ledger' \ ledger : r.source = job[w].d
    BY <1>5, RowSteps
  <2>2. \A v \in Workers \ {w} : job[v].at = "points" => job[v].d # job[w].d
    BY <1>0, <1>5 DEF SubmitPoints, At, RowsOwed
  <2>3. Others(w) /\ job'[w].at # "points"
    BY <1>0, <1>5, Moves DEF SubmitPoints, Ended, NoJob
  <2> QED BY <2>1, <2>2, <2>3, OtherRows
<1>6. ASSUME NEW w \in Workers, ResolveSettle(w) PROVE RowsOwed'
  <2>1. job[w].row \in RowsOf(job[w].d) /\ \A r \in ledger' \ ledger : r.source = job[w].d
    BY <1>6, RowSteps DEF RowsOf
  <2>2. \A v \in Workers : job[v].at = "points" => job[v].d # job[w].d
    BY <1>0, <2>1 DEF RowsOwed
  <2>3. Others(w) /\ job'[w].at # "points"
    BY <1>0, <1>6, Moves DEF ResolveSettle, Ended, NoJob
  <2> QED BY <2>1, <2>2, <2>3, OtherRows
<1>7. ASSUME NEW w \in Workers, Telling(w) PROVE RowsOwed'
  BY <1>2, <1>3, <1>4, <1>5, <1>6, <1>7 DEF Telling
<1> QED BY <1>1, <1>7, Kinds

\* A donation has one row; it is the donor's, for the donation's points, and
\* decided as the donation is.
LEMMA NextLedger ==
    ASSUME DonationInv, Next \/ UNCHANGED vars
    PROVE  OneRow' /\ PointsFollowReview'
<1>0. TypeOK /\ OneRow /\ PointsFollowReview /\ RowsOwed /\ IsFiniteSet(ledger)
  BY DEF DonationInv, OneRow
<1>1. \A r \in ledger : r.source \in Sources
  BY <1>0 DEF TypeOK, LedgerRow
\* No row is written.
<1>2. ASSUME ledger' = ledger,
             \A r \in ledger : donation'[r.source].status = donation[r.source].status \/ donation[r.source].status = "PENDING"
      PROVE  OneRow' /\ PointsFollowReview'
  <2>1. ASSUME NEW r \in ledger
        PROVE  /\ r.m = donation'[r.source].m /\ r.points = donation'[r.source].points
               /\ r.status \in {"PENDING", donation'[r.source].status}
    <3>1. Exists(r.source)
      BY <1>1, NoRowsYet DEF RowsOf
    <3>2. donation'[r.source].m = donation[r.source].m /\ donation'[r.source].points = donation[r.source].points
      BY <1>1, <3>1, DonationKept
    <3> QED BY <1>0, <1>2, <3>2 DEF PointsFollowReview
  <2> QED BY <1>0, <1>2, <2>1 DEF OneRow, PointsFollowReview
<1>3. CASE Quiet
  BY <1>2, <1>3 DEF Quiet, points_vars
<1>4. ASSUME NEW w \in Workers, \/ ApproveCas(w) /\ CanReview(job[w].d)
                                \/ AllocateReceipt(w)
                                \/ ResolveFind(w) /\ PendingRow(job[w].d) # {}
      PROVE  OneRow' /\ PointsFollowReview'
  BY <1>2, <1>4 DEF ApproveCas, AllocateReceipt, ResolveFind, points_vars
<1>5. ASSUME NEW w \in Workers, ApproveCommit(w) \/ (RejectCas(w) /\ CanReview(job[w].d))
      PROVE  OneRow' /\ PointsFollowReview'
  <2>1. ledger' = ledger
    BY <1>5 DEF ApproveCommit, RejectCas, points_vars
  <2>2. donation[job[w].d].status = "PENDING" /\ \A c \in Sources \ {job[w].d} : donation'[c] = donation[c]
    BY <1>5, DonationSteps DEF CanReview
  <2> QED BY <1>1, <1>2, <2>1, <2>2
<1>6. ASSUME NEW w \in Workers, NEW d \in Sources, SubmitCreate(w, d) PROVE OneRow' /\ PointsFollowReview'
  <2>0. ledger' = ledger
    BY <1>6 DEF SubmitCreate, points_vars
  <2>1. ledger' = ledger /\ \A c \in Sources \ {d} : donation'[c] = donation[c]
    BY <1>6, <2>0, DonationInsert
  <2>2. \A r \in ledger : r.source # d
    BY <1>6, NoRowsYet DEF SubmitCreate, RowsOf
  <2> QED BY <1>1, <1>2, <2>1, <2>2
\* One is.
<1>7. ASSUME NEW d \in Sources, NEW R, R \subseteq ledger, \A q \in R : q.source # d,
             NEW r, r.source = d, ledger' = R \cup {r},
             \A c \in Sources \ {d} : donation'[c] = donation[c],
             r.m = donation'[d].m, r.points = donation'[d].points, r.status \in {"PENDING", donation'[d].status}
      PROVE  OneRow' /\ PointsFollowReview'
  <2>1. IsFiniteSet(ledger')
    <3>1. IsFiniteSet(R)
      BY <1>0, <1>7, FS_Subset
    <3> QED BY <1>7, <3>1, FS_AddElement
  <2>2. \A p, q \in ledger' : p.source = q.source => p = q
    BY <1>0, <1>7 DEF OneRow
  <2>3. \A q \in R : /\ q.m = donation'[q.source].m /\ q.points = donation'[q.source].points
                     /\ q.status \in {"PENDING", donation'[q.source].status}
    BY <1>0, <1>1, <1>7 DEF PointsFollowReview
  <2> QED BY <1>7, <2>1, <2>2, <2>3 DEF OneRow, PointsFollowReview
<1>8. ASSUME NEW w \in Workers, NEW d \in Sources, RecordCommit(w, d) PROVE OneRow' /\ PointsFollowReview'
  <2>1. donation'[d] = NewDonation(w, "APPROVED") /\ \A c \in Sources \ {d} : donation'[c] = donation[c]
    BY <1>8, DonationInsert
  <2>2. donation'[d].m = job[w].m /\ donation'[d].points = job[w].points /\ donation'[d].status = "APPROVED"
    BY <2>1 DEF NewDonation
  <2>3. \A r \in ledger : r.source # d
    BY <1>8, NoRowsYet DEF RecordCommit, RowsOf
  <2>4. CASE EarnsPoints(w)
    <3>1. PICK r \in LedgerRow : /\ ledger' = ledger \cup {r} /\ r.source = d /\ r.m = job[w].m
                                 /\ r.points = job[w].points /\ r.status = "APPROVED"
      BY <1>8, <2>4, RowSteps
    <3> QED BY <1>7, <2>1, <2>2, <2>3, <3>1
  <2>5. CASE ~EarnsPoints(w)
    <3>1. ledger' = ledger
      BY <1>8, <2>5, RowSteps
    <3> QED BY <1>1, <1>2, <2>1, <2>3, <3>1
  <2> QED BY <2>4, <2>5
<1>9. ASSUME NEW w \in Workers, SubmitPoints(w) PROVE OneRow' /\ PointsFollowReview'
  <2>1. job[w].at = "points" /\ job[w].d \in Sources /\ donation' = donation
    BY <1>9, Knows DEF SubmitPoints, At
  <2>2. /\ donation[job[w].d].m = job[w].m /\ donation[job[w].d].points = job[w].points
        /\ \A r \in ledger : r.source # job[w].d
    BY <1>0, <2>1 DEF RowsOwed, RowsOf
  <2>3. PICK r \in LedgerRow : /\ ledger' = ledger \cup {r} /\ r.source = job[w].d /\ r.m = job[w].m
                               /\ r.points = job[w].points /\ r.status = "PENDING"
    BY <1>9, RowSteps
  <2> QED BY <1>7, <2>1, <2>2, <2>3
<1>10. ASSUME NEW w \in Workers, ResolveSettle(w) PROVE OneRow' /\ PointsFollowReview'
  <2> DEFINE q == job[w].row
             d == job[w].d
  <2>1. PICK r \in LedgerRow :
            /\ q \in ledger /\ q.status = "PENDING" /\ q.source = d
            /\ ledger' = (ledger \ {q}) \cup {r}
            /\ r.source = d /\ r.m = q.m /\ r.points = q.points
            /\ r.status = IF job[w].op = "approve" THEN "APPROVED" ELSE "REJECTED"
    BY <1>10, RowSteps
  <2>2. donation' = donation /\ d \in Sources /\ q.m = donation[d].m /\ q.points = donation[d].points
    BY <1>0, <1>1, <1>10, <2>1 DEF ResolveSettle, PointsFollowReview
  <2>3. donation[d].status = IF job[w].op = "approve" THEN "APPROVED" ELSE "REJECTED"
    BY <1>10 DEF ResolveSettle, DonationInv, OneReview, Reviewing, Resolving
  <2>4. \A p \in ledger \ {q} : p.source # d
    BY <1>0, <2>1 DEF OneRow
  <2> HIDE DEF d, q
  <2> QED BY <1>7, <2>1, <2>2, <2>3, <2>4
<1>11. ASSUME NEW w \in Workers, Telling(w) PROVE OneRow' /\ PointsFollowReview'
  BY <1>4, <1>5, <1>6, <1>8, <1>9, <1>10, <1>11 DEF Telling
<1> QED BY <1>3, <1>11, Kinds

LEMMA NextAccounted ==
    ASSUME DonationInv, Next \/ UNCHANGED vars
    PROVE  RowOrOwed'
<1>0. TypeOK /\ RowOrOwed /\ aborts \in Nat
  BY DEF DonationInv, TypeOK
<1>1. aborts' >= aborts /\ aborts' \in Nat
  <2>1. CASE Quiet
    <3>1. aborts' = aborts \/ aborts' = aborts + 1
      BY DEF Next, Start, Proceed, SubmitRead, DirectRead, GatewayFind, ReviewFind, BeginTransaction, AllocateReceipt,
             OrphanEnds, SubmitCreate, RecordCommit, SubmitPoints, GatewayReadSettings, RecordDuplicate, ApproveCas,
             ApproveCommit, RejectCas, ResolveFind, ResolveSettle, TimeOut, Abort, Pay, SetPercent, vars
    <3> QED BY <1>0, <3>1
  <2>2. ASSUME NEW w \in Workers, Telling(w) PROVE aborts' = aborts
    BY <2>2 DEF Telling, ApproveCas, AllocateReceipt, SubmitCreate, RecordCommit, SubmitPoints, ApproveCommit,
                RejectCas, ResolveFind, ResolveSettle
  <2> QED BY <1>0, <2>1, <2>2, Kinds
<1>2. ASSUME NEW r \in ledger PROVE RowsOf(r.source)' # {}
  <2>1. (\E q \in ledger' : q.source = r.source) => RowsOf(r.source)' # {}
    BY DEF RowsOf
  <2>2. CASE ledger' = ledger
    BY <2>1, <2>2
  <2>3. ASSUME NEW w \in Workers, NEW d \in Sources, RecordCommit(w, d) PROVE \E q \in ledger' : q.source = r.source
    BY <2>3, RowSteps
  <2>4. ASSUME NEW w \in Workers, SubmitPoints(w) \/ ResolveSettle(w) PROVE \E q \in ledger' : q.source = r.source
    <3>1. CASE SubmitPoints(w)
      BY <3>1, RowSteps
    <3>2. CASE ResolveSettle(w)
      <4>1. PICK q : ledger' = (ledger \ {job[w].row}) \cup {q} /\ q.source = job[w].row.source
        BY <3>2, RowSteps
      <4> QED BY <4>1
    <3> QED BY <2>4, <3>1, <3>2
  <2>5. CASE Quiet
    BY <2>2, <2>5 DEF Quiet, points_vars
  <2>6. ASSUME NEW w \in Workers, Telling(w) PROVE ledger' = ledger \/ \E q \in ledger' : q.source = r.source
    BY <2>3, <2>4, <2>6 DEF Telling, ApproveCas, AllocateReceipt, SubmitCreate, ApproveCommit,
                            RejectCas, ResolveFind, points_vars
  <2> QED BY <2>1, <2>2, <2>5, <2>6, Kinds
<1>3. ASSUME NEW w \in Workers, job[w].at = "points", aborts' = aborts
      PROVE  job'[w] = job[w] \/ \E r \in ledger' : r.source = job[w].d
  <2>1. CASE Quiet
    BY <1>0, <1>3, <2>1 DEF Quiet
  <2>2. ASSUME NEW v \in Workers, Telling(v), v # w PROVE job'[w] = job[w]
    <3>1. Others(v)
      <4>1. CASE ApproveCas(v) /\ CanReview(job[v].d)
        BY <1>0, <4>1, Moves DEF ApproveCas, Moved, Steps
      <4>2. CASE AllocateReceipt(v)
        BY <1>0, <4>2, Moves DEF Moved
      <4>3. ASSUME NEW d \in Sources, SubmitCreate(v, d) PROVE Others(v)
        BY <1>0, <4>3, Moves DEF Moved, Ended
      <4>4. CASE SubmitPoints(v) \/ ResolveSettle(v) \/ \E d \in Sources : RecordCommit(v, d)
        BY <1>0, <4>4, Moves DEF SubmitPoints, ResolveSettle, RecordCommit, Ended
      <4>5. CASE ApproveCommit(v)
        BY <1>0, <4>5, Moves DEF ApproveCommit, Moved, Steps
      <4>6. CASE RejectCas(v) /\ CanReview(job[v].d)
        BY <1>0, <4>6, Moves DEF RejectCas, Moved, Steps
      <4>7. CASE ResolveFind(v)
        BY <1>0, <4>7, Moves DEF Moved, Ended
      <4> QED BY <2>2, <4>1, <4>2, <4>3, <4>4, <4>5, <4>6, <4>7 DEF Telling
    <3> QED BY <2>2, <3>1 DEF Others
  <2>3. ASSUME Telling(w) PROVE \E r \in ledger' : r.source = job[w].d
    <3>1. SubmitPoints(w)
      BY <1>3, <2>3 DEF Telling, ApproveCas, AllocateReceipt, SubmitCreate, RecordCommit, ApproveCommit,
                        RejectCas, ResolveFind, ResolveSettle, At
    <3> QED BY <3>1, RowSteps
  <2> QED BY <2>1, <2>2, <2>3, Kinds
<1> SUFFICES ASSUME aborts' = 0, NEW d \in Sources, Exists(d)', donation'[d].points > 0
             PROVE  RowsOf(d)' # {} \/ \E w \in Workers : job'[w].at = "points" /\ job'[w].d = d
  BY DEF RowOrOwed
<1>4. aborts = 0 /\ aborts' = aborts
  BY <1>0, <1>1
<1>5. CASE Exists(d)
  <2>1. RowsOf(d) # {} \/ \E w \in Workers : job[w].at = "points" /\ job[w].d = d
    BY <1>0, <1>4, <1>5, DonationKept DEF RowOrOwed
  <2>2. CASE RowsOf(d) # {}
    BY <1>2, <2>2 DEF RowsOf
  <2>3. CASE \E w \in Workers : job[w].at = "points" /\ job[w].d = d
    BY <1>3, <1>4, <2>3 DEF RowsOf
  <2> QED BY <2>1, <2>2, <2>3
<1>6. CASE ~Exists(d)
  <2>1. PICK w \in Workers : SubmitCreate(w, d) \/ RecordCommit(w, d)
    BY <1>6, DonationKept
  <2>2. donation'[d].points = job[w].points
    <3>1. \E status : donation'[d] = NewDonation(w, status)
      BY <2>1, DonationInsert
    <3> QED BY <3>1 DEF NewDonation
  <2>3. EarnsPoints(w)
    BY <2>2 DEF EarnsPoints
  <2>4. CASE SubmitCreate(w, d)
    BY <1>0, <2>3, <2>4, Moves DEF Moved, Fields
  <2>5. CASE RecordCommit(w, d)
    <3>1. PICK r : r \in ledger' /\ r.source = d
      BY <2>3, <2>5, RowSteps
    <3> QED BY <3>1 DEF RowsOf
  <2> QED BY <2>1, <2>4, <2>5
<1> QED BY <1>5, <1>6

-----------------------------------------------------------------------------
(* The theorems.                                                           *)

LEMMA InitInv == Init => DonationInv
<1> SUFFICES ASSUME Init PROVE DonationInv
  OBVIOUS
<1>1. TypeOK /\ \A w \in Workers : job[w] = NoJob /\ Shaped(job[w])
  BY InitType, NoJobType DEF Init
<1>2. /\ \A w \in Workers : job[w].at = "end" /\ job[w].op = "idle"
      /\ \A d \in Sources : donation[d] = NoDonation
      /\ ledger = {} /\ IsFiniteSet(ledger)
  BY <1>1, FS_EmptySet DEF Init, NoJob
<1>3. ReceiptsDistinct /\ ReceiptsIssued
  BY <1>2 DEF ReceiptsDistinct, ReceiptsIssued, NoDonation
<1>4. OneReview /\ RowsOwed /\ OneRow /\ PointsFollowReview
  BY <1>2 DEF OneReview, RowsOwed, OneRow, PointsFollowReview, Reviewing, Resolving
<1>5. RowOrOwed
  BY <1>2 DEF RowOrOwed, Exists, NoDonation
<1> QED BY <1>1, <1>3, <1>4, <1>5 DEF DonationInv

LEMMA NextInv == DonationInv /\ [Next]_vars => DonationInv'
<1> SUFFICES ASSUME DonationInv, Next \/ UNCHANGED vars PROVE DonationInv'
  OBVIOUS
<1>1. TypeOK' /\ \A w \in Workers : Shaped(job'[w])
  <2>1. CASE UNCHANGED vars
    BY <2>1 DEF vars, points_vars, DonationInv, TypeOK
  <2> QED BY <2>1, NextType
<1> QED BY <1>1, NextReceipts, NextReview, NextOwed, NextLedger, NextAccounted DEF DonationInv

\* For any members, donations, handlers and pool, the inductive invariant holds:
\* one review of a donation takes effect, one handler owes it its row, and no
\* receipt number is given out twice.
THEOREM Invariant == Spec => []DonationInv
  BY InitInv, NextInv, PTL DEF Spec

\* Every variable has its type.
THEOREM TypeCorrect == Spec => []TypeOK
<1>1. DonationInv => TypeOK
  BY DEF DonationInv
<1> QED BY <1>1, Invariant, PTL

\* submitMine, approve, reject and resolveDonation, interleaved and cut short in
\* any way, credit points only for an approved donation, reject them only for a
\* rejected one, and credit the points of the rate at submission.
THEOREM CreditsFollowReview == Spec => []PointsFollowReview
<1>1. DonationInv => PointsFollowReview
  BY DEF DonationInv
<1> QED BY <1>1, Invariant, PTL

\* NumberingService.next hands a receipt number to one donation only, an approved
\* donation has one, and a payment that verify and the webhook both report is
\* recorded once.
THEOREM OneReceiptEach == Spec => []ReceiptsDistinct
<1>1. DonationInv => ReceiptsDistinct
  BY DEF DonationInv
<1> QED BY <1>1, Invariant, PTL

\* submitMine's three statements leave no donation without its row once the
\* handler is done, unless it crashed between them.
THEOREM NothingForgotten == Spec => []PointsAccounted
<1>1. DonationInv => PointsAccounted
  <2> SUFFICES ASSUME DonationInv, aborts = 0, \A w \in Workers : Idle(w),
                      NEW d \in Sources, Exists(d), donation[d].points > 0
               PROVE  \E r \in ledger : r.source = d
    BY DEF PointsAccounted
  <2>1. \A w \in Workers : job[w].at # "points"
    BY DEF DonationInv, Shaped, NoJob, Idle
  <2> QED BY <2>1 DEF DonationInv, RowOrOwed, RowsOf
<1> QED BY <1>1, Invariant, PTL

\* "A lost race never burns" a receipt number: a number taken from the counter
\* is on its donation or with its handler, until the handler fails or finds the
\* payment recorded.
THEOREM NumbersAreKept == Spec => ReceiptsKept
<1> DEFINE A == \A n \in 1..receiptSeq :
                    n \in InHand /\ n \notin InHand' =>
                        \/ aborts' > aborts
                        \/ \E w \in Workers : RecordDuplicate(w) /\ job[w].receipt = n
<1>1. DonationInv /\ DonationInv' /\ [Next]_vars => A
  <2> SUFFICES ASSUME DonationInv, [Next]_vars, NEW n \in 1..receiptSeq, n \in InHand, n \notin InHand',
                      ~(aborts' > aborts)
               PROVE  \E w \in Workers : RecordDuplicate(w) /\ job[w].receipt = n
    OBVIOUS
  <2>1. TypeOK /\ receiptSeq \in Nat /\ aborts \in Nat
    BY DEF DonationInv, TypeOK
  <2>2. n # None
    BY <2>1, NumbersAreSome
  <2>3. \A d \in Sources : donation'[d].receipt # n
    BY DEF InHand
  <2>4. \A w \in Workers : job'[w].receipt # n
    BY DEF InHand
  <2>5. \A d \in Sources : donation[d].receipt # n
    BY <2>2, <2>3, DonationKept
  <2>6. PICK w \in Workers : job[w].receipt = n
    BY <2>5 DEF InHand
  <2>7. Shaped(job[w]) /\ job[w] \in Job
    BY <2>1 DEF DonationInv, TypeOK
  <2>8. job[w].op # "idle"
    BY <2>2, <2>6, <2>7 DEF Shaped, NoJob
  <2>9. job[w].at = "commit"
    <3>1. job[w].at = "commit" \/ (job[w].op = "approve" /\ job[w].at \in {"resolve", "settle"})
      BY <2>2, <2>6, <2>7, <2>8 DEF Shaped
    <3>2. job[w].op = "approve" /\ job[w].at \in {"resolve", "settle"} =>
             donation[job[w].d].receipt = job[w].receipt /\ job[w].d \in Sources
      BY Knows DEF DonationInv, OneReview, Reviewing, Resolving
    <3> QED BY <2>5, <2>6, <3>1, <3>2
  <2>10. job'[w] # job[w]
    BY <2>4, <2>6
  <2>11. Start(w) \/ Proceed(w) \/ TimeOut(w) \/ Abort(w)
    <3>1. ASSUME NEW v \in Workers, Start(v) \/ Proceed(v) \/ TimeOut(v) \/ Abort(v) PROVE v = w
      <4> SUFFICES ASSUME v # w PROVE FALSE
        OBVIOUS
      <4>1. \A j : job' = [job EXCEPT ![v] = j] => FALSE
        BY <2>1, <2>10 DEF TypeOK
      <4>2. ASSUME Finish(v) PROVE FALSE
        BY <4>1, <4>2 DEF Finish
      <4>3. \A at : ~Goto(v, at)
        BY <2>1, <2>10 DEF TypeOK, Goto
      <4>4. ~Start(v)
        BY <4>1 DEF Start, SubmitRead, DirectRead, GatewayFind, ReviewFind, Begin
      <4>5. ~(AllocateReceipt(v) \/ GatewayReadSettings(v) \/ ResolveFind(v) \/ \E d \in Sources : SubmitCreate(v, d))
        BY <2>1, <2>10, <4>2 DEF TypeOK, AllocateReceipt, GatewayReadSettings, ResolveFind, SubmitCreate
      <4>6. ~(BeginTransaction(v) \/ TimeOut(v) \/ ApproveCas(v) \/ ApproveCommit(v) \/ RejectCas(v))
        BY <4>2, <4>3 DEF BeginTransaction, TimeOut, ApproveCas, ApproveCommit, RejectCas
      <4>7. ~(Abort(v) \/ OrphanEnds(v) \/ SubmitPoints(v) \/ RecordDuplicate(v) \/ ResolveSettle(v)
                \/ \E d \in Sources : RecordCommit(v, d))
        BY <4>2 DEF Abort, OrphanEnds, SubmitPoints, RecordDuplicate, ResolveSettle, RecordCommit
      <4> QED BY <3>1, <4>4, <4>5, <4>6, <4>7 DEF Proceed
    <3>2. job' # job
      BY <2>10
    <3> QED BY <3>1, <3>2 DEF Next, Pay, SetPercent, vars
  <2>12. ~Start(w) /\ ~TimeOut(w)
    BY <2>8, <2>9 DEF Start, SubmitRead, DirectRead, GatewayFind, ReviewFind, Begin, Idle, TimeOut
  <2>13. ~Abort(w)
    BY <2>1 DEF Abort
  <2>14. RecordDuplicate(w) \/ ApproveCommit(w) \/ \E d \in Sources : RecordCommit(w, d)
    BY <2>9, <2>11, <2>12, <2>13 DEF Proceed, BeginTransaction, AllocateReceipt, OrphanEnds, SubmitCreate, SubmitPoints,
       GatewayReadSettings, ApproveCas, RejectCas, ResolveFind, ResolveSettle, At
  <2>15. ~ApproveCommit(w)
    BY <2>1, <2>4, <2>6, Moves DEF ApproveCommit, Moved, Fields, Steps
  <2>16. ASSUME NEW d \in Sources PROVE ~RecordCommit(w, d)
    <3>1. RecordCommit(w, d) => donation'[d] = NewDonation(w, "APPROVED")
      BY DonationInsert
    <3> QED BY <2>3, <2>6, <3>1 DEF NewDonation
  <2> QED BY <2>6, <2>14, <2>15, <2>16
<1>2. DonationInv /\ DonationInv' /\ [Next]_vars => [A]_vars
  BY <1>1
<1> QED BY <1>2, Invariant, PTL DEF Spec, ReceiptsKept

-----------------------------------------------------------------------------
(* What a donation earns.                                                  *)

\* A row that is approved as it is written, or that was pending.
Earned(c) ==
    /\ c.status = "APPROVED" /\ \A r \in Approved : r.source # c.source
    /\ Approved' = Approved \cup {c}
    /\ balance' = [balance EXCEPT ![c.m] = @ + c.points]

LEMMA EarnSteps ==
    ASSUME DonationInv, Next \/ UNCHANGED vars
    PROVE  (Approved' = Approved /\ balance' = balance) \/ \E c \in LedgerRow : Earned(c)
<1>1. (ledger' = ledger /\ balance' = balance) => (Approved' = Approved /\ balance' = balance)
  BY DEF Approved
<1>2. CASE Quiet
  BY <1>1, <1>2 DEF Quiet, points_vars
<1>3. ASSUME NEW w \in Workers, \/ ApproveCas(w) \/ AllocateReceipt(w) \/ ApproveCommit(w)
                                \/ RejectCas(w) \/ ResolveFind(w) \/ \E d \in Sources : SubmitCreate(w, d)
      PROVE  Approved' = Approved /\ balance' = balance
  BY <1>1, <1>3 DEF ApproveCas, AllocateReceipt, ApproveCommit, RejectCas, ResolveFind, SubmitCreate, points_vars
<1>4. ASSUME NEW w \in Workers, NEW d \in Sources, RecordCommit(w, d)
      PROVE  (Approved' = Approved /\ balance' = balance) \/ \E c \in LedgerRow : Earned(c)
  <2>1. CASE ~EarnsPoints(w)
    BY <1>1, <1>4, <2>1 DEF RecordCommit, points_vars
  <2>2. CASE EarnsPoints(w)
    <3>1. PICK c \in LedgerRow : /\ ledger' = ledger \cup {c} /\ c.source = d /\ c.m = job[w].m
                                 /\ c.points = job[w].points /\ c.status = "APPROVED"
      BY <1>4, <2>2, RowSteps
    <3>2. balance' = [balance EXCEPT ![job[w].m] = @ + job[w].points]
      BY <1>4, <2>2 DEF RecordCommit, CreditPoints
    <3>3. \A r \in Approved : r.source # d
      BY <1>4, NoRowsYet DEF RecordCommit, RowsOf, Approved
    <3>4. Approved' = Approved \cup {c}
      BY <3>1 DEF Approved
    <3> QED BY <3>1, <3>2, <3>3, <3>4 DEF Earned
  <2> QED BY <2>1, <2>2
<1>5. ASSUME NEW w \in Workers, SubmitPoints(w) PROVE Approved' = Approved /\ balance' = balance
  <2>1. PICK c : ledger' = ledger \cup {c} /\ c.status = "PENDING"
    BY <1>5, RowSteps
  <2> QED BY <1>5, <2>1 DEF SubmitPoints, Approved
<1>6. ASSUME NEW w \in Workers, ResolveSettle(w)
      PROVE  (Approved' = Approved /\ balance' = balance) \/ \E c \in LedgerRow : Earned(c)
  <2> DEFINE q == job[w].row
  <2>1. PICK c \in LedgerRow :
            /\ q \in ledger /\ q.status = "PENDING" /\ q.source = job[w].d
            /\ ledger' = (ledger \ {q}) \cup {c}
            /\ c.source = job[w].d /\ c.m = q.m /\ c.points = q.points
            /\ c.status = IF job[w].op = "approve" THEN "APPROVED" ELSE "REJECTED"
    BY <1>6, RowSteps
  <2>2. \A r \in Approved : r.source # c.source
    BY <2>1 DEF Approved, DonationInv, OneRow
  <2>3. CASE job[w].op = "approve"
    <3>1. balance' = [balance EXCEPT ![c.m] = @ + c.points]
      BY <1>6, <2>1, <2>3 DEF ResolveSettle, ApproveRow
    <3>2. Approved' = Approved \cup {c} /\ c.status = "APPROVED"
      BY <2>1, <2>3 DEF Approved
    <3> QED BY <2>2, <3>1, <3>2 DEF Earned
  <2>4. CASE job[w].op # "approve"
    <3>1. balance' = balance
      BY <1>6, <2>4 DEF ResolveSettle
    <3>2. Approved' = Approved
      BY <2>1, <2>4 DEF Approved
    <3> QED BY <3>1, <3>2
  <2> QED BY <2>3, <2>4
<1>7. ASSUME NEW w \in Workers, Telling(w)
      PROVE  (Approved' = Approved /\ balance' = balance) \/ \E c \in LedgerRow : Earned(c)
  BY <1>3, <1>4, <1>5, <1>6, <1>7 DEF Telling
<1> QED BY <1>2, <1>7, Kinds

\* recordDirect, verify, the webhook and resolveDonation implement PointEarning: a
\* donation is credited at most once, to its donor, and in one step with the
\* donor's balance.
THEOREM DonationsEarn == Spec => EarningSpec
<1> DEFINE credits == {[source |-> r.source, m |-> r.m, points |-> r.points] : r \in Approved}
<1>1. Init => Earning!Init
  <2> SUFFICES ASSUME Init PROVE Earning!Init
    OBVIOUS
  <2>1. Approved = {}
    BY DEF Init, Approved
  <2> QED BY <2>1 DEF Init, Earning!Init
<1>2. DonationInv /\ [Next]_vars => [Earning!Next]_<<credits, balance>>
  <2> SUFFICES ASSUME DonationInv, [Next]_vars PROVE Earning!Next \/ UNCHANGED <<credits, balance>>
    OBVIOUS
  <2>1. CASE Approved' = Approved /\ balance' = balance
    BY <2>1
  <2>2. ASSUME NEW c \in LedgerRow, Earned(c) PROVE Earning!Next
    <3> DEFINE b == [source |-> c.source, m |-> c.m, points |-> c.points]
    <3>1. b \in [source : Sources, m : Members, points : Nat]
      BY DEF LedgerRow
    <3>2. \A a \in credits : a.source # b.source
      BY <2>2 DEF Earned
    <3>3. credits' = credits \cup {b}
      BY <2>2 DEF Earned
    <3>4. balance' = [balance EXCEPT ![b.m] = @ + b.points]
      BY <2>2 DEF Earned
    <3>5. b \in credits' /\ b \notin credits
      BY <3>2, <3>3
    <3>6. Earning!Earn(b)
      BY <3>2, <3>3, <3>4 DEF Earning!Earn
    <3> HIDE DEF b
    <3> QED BY <3>1, <3>5, <3>6 DEF Earning!Next
  <2> QED BY <2>1, <2>2, EarnSteps
<1> QED BY <1>1, <1>2, Invariant, PTL DEF Spec, EarningSpec, Earning!Spec

\* The cached balance is the sum of the member's approved rows.
THEOREM BalancesSum == Spec => []BalanceIsSum
<1>1. Init => BalanceIsSum
  <2> SUFFICES ASSUME Init, NEW m \in Members PROVE balance[m] = SumOfPoints({r \in Approved : r.m = m})
    BY DEF BalanceIsSum
  <2>1. {r \in Approved : r.m = m} = {}
    BY DEF Init, Approved
  <2>2. SumOfPoints({}) = 0
    BY SumEmpty DEF SumOfPoints
  <2> QED BY <2>1, <2>2 DEF Init
<1>2. DonationInv /\ BalanceIsSum /\ [Next]_vars => BalanceIsSum'
  <2> SUFFICES ASSUME DonationInv, BalanceIsSum, [Next]_vars PROVE BalanceIsSum'
    OBVIOUS
  <2>1. IsFiniteSet(Approved) /\ \A r \in Approved : r \in LedgerRow
    <3>1. Approved \subseteq ledger /\ IsFiniteSet(ledger) /\ ledger \subseteq LedgerRow
      BY DEF Approved, DonationInv, OneRow, TypeOK
    <3> QED BY <3>1, FS_Subset
  <2>2. CASE Approved' = Approved /\ balance' = balance
    BY <2>2 DEF BalanceIsSum, SumOfPoints
  <2>3. ASSUME NEW c \in LedgerRow, Earned(c) PROVE BalanceIsSum'
    <3>1. /\ c \notin Approved /\ c.points \in Nat /\ c.m \in Members /\ balance \in [Members -> Nat]
          /\ \A r \in Approved : r.points \in Nat
      BY <2>1, <2>3 DEF Earned, LedgerRow, DonationInv, TypeOK
    <3>2. \A m \in Members : balance[m] = RowSum(Approved, m)
      BY DEF BalanceIsSum, SumOfPoints, RowSum
    <3>3. \A m \in Members : balance'[m] = RowSum(Approved \cup {c}, m)
      <4> SUFFICES ASSUME NEW m \in Members PROVE balance'[m] = RowSum(Approved \cup {c}, m)
        OBVIOUS
      <4>1. RowSum(Approved \cup {c}, m) = IF c.m = m THEN RowSum(Approved, m) + c.points ELSE RowSum(Approved, m)
        BY <2>1, <3>1, SumOfRows
      <4>2. balance'[m] = IF c.m = m THEN balance[m] + c.points ELSE balance[m]
        BY <2>3, <3>1 DEF Earned
      <4> QED BY <3>2, <4>1, <4>2
    <3> QED BY <2>3, <3>3 DEF Earned, BalanceIsSum, SumOfPoints, RowSum
  <2> QED BY <2>2, <2>3, EarnSteps
<1> QED BY <1>1, <1>2, Invariant, PTL DEF Spec
=============================================================================
