--------------------------- MODULE Referrals_proofs ---------------------------
(***************************************************************************)
(* Proofs about Referrals, for any members, handlers at work, points, cap   *)
(* and bounds.                                                             *)
(***************************************************************************)
EXTENDS Referrals, SumTheorems

USE SourcesAssumption, NoneAssumption, BoundsAssumption

-----------------------------------------------------------------------------
(* Type correctness.                                                       *)

\* What a handler remembers at each of its steps.
ShapedJob ==
    {j \in Job : /\ j.op \in {"update", "remove", "award"} => j.m \in Members
                 /\ j.at \in {"create", "candidate", "walk", "referrer", "cap", "credit"} =>
                        j.ref \in Members}

TypeInv == TypeOK /\ IsFiniteSet(ledger) /\ job \in [Workers -> ShapedJob]

\* A handler that goes on or ends keeps the type of what handlers remember.
LEMMA JobUpdate ==
    ASSUME NEW w \in Workers, TypeInv, NEW j \in ShapedJob, job' = [job EXCEPT ![w] = j]
    PROVE  job' \in [Workers -> ShapedJob] /\ job' \in [Workers -> Job]
<1>1. job' \in [Workers -> ShapedJob]
  BY DEF TypeInv
<1> QED BY <1>1 DEF ShapedJob

LEMMA NoJobType == NoJob \in Job /\ NoJob \in ShapedJob
  BY DEF NoJob, Job, ShapedJob

LEMMA FinishType ==
    ASSUME NEW w \in Workers, TypeInv, Finish(w)
    PROVE  job' \in [Workers -> ShapedJob] /\ job' \in [Workers -> Job]
  BY NoJobType, JobUpdate DEF Finish

LEMMA GotoType ==
    ASSUME NEW w \in Workers, TypeInv, NEW at \in {"write", "cap"}, Goto(w, at),
           at = "cap" => job[w].at = "referrer"
    PROVE  job' \in [Workers -> ShapedJob] /\ job' \in [Workers -> Job]
<1>1. job[w] \in ShapedJob
  BY DEF TypeInv
<1>2. [job[w] EXCEPT !.at = at] \in ShapedJob
  BY <1>1 DEF Job, ShapedJob
<1> QED BY <1>2, JobUpdate DEF Goto, TypeInv

LEMMA BeginType ==
    ASSUME NEW w \in Workers, TypeInv, NEW j \in ShapedJob, Begin(w, j)
    PROVE  job' \in [Workers -> ShapedJob] /\ job' \in [Workers -> Job]
           /\ overlapped' \subseteq {"update", "award"}
<1>1. job' = [job EXCEPT ![w] = j] /\ overlapped' \subseteq {"update", "award"}
  BY DEF Begin, TypeInv, TypeOK
<1> QED BY <1>1, JobUpdate

\* The number of a new row is a number.
LEMMA NewRowType ==
    ASSUME TypeInv, NEW s \in Sources, NEW m \in Members, NEW n \in Nat
    PROVE  NewRow(s, m, n, "APPROVED") \in LedgerRow
<1>1. IsFiniteSet(RowsOf(s))
  BY FS_Subset DEF TypeInv, RowsOf
<1>2. Cardinality(RowsOf(s)) \in Nat
  BY <1>1, FS_CardinalityType
<1> HIDE DEF RowsOf
<1> QED BY <1>2 DEF NewRow, LedgerRow, RowStatus

LEMMA InitType == Init => TypeInv
<1> SUFFICES ASSUME Init PROVE TypeInv
  OBVIOUS
<1>1. job \in [Workers -> ShapedJob] /\ job \in [Workers -> Job]
  BY NoJobType DEF Init
<1>2. IsFiniteSet(ledger)
  BY FS_EmptySet DEF Init
<1> QED BY <1>1, <1>2 DEF Init, TypeInv, TypeOK, MemberStatus

\* Every step keeps the types.
LEMMA NextType == TypeInv /\ [Next]_vars => TypeInv'
<1> SUFFICES ASSUME TypeInv, [Next]_vars PROVE TypeInv'
  OBVIOUS
<1>0. TypeOK /\ IsFiniteSet(ledger) /\ \A w \in Workers : job[w] \in Job /\ job[w] \in ShapedJob
  BY DEF TypeInv, TypeOK
<1>1. ASSUME NEW w \in Workers, Abort(w) PROVE TypeInv'
  BY <1>0, <1>1, FinishType DEF Abort, TypeInv, TypeOK, points_vars
<1>2. ASSUME NEW w \in Workers, NEW m \in Members, RegisterRead(w, m) PROVE TypeInv'
  <2>1. [NoJob EXCEPT !.op = "register", !.at = "create", !.ref = m] \in ShapedJob
    BY DEF NoJob, Job, ShapedJob
  <2> QED BY <1>0, <1>2, <2>1, BeginType DEF RegisterRead, TypeInv, TypeOK, points_vars
<1>3. ASSUME NEW w \in Workers, NEW m \in Members, Activate(w, m) PROVE TypeInv'
  <2>1. [NoJob EXCEPT !.op = "award", !.at = "member", !.m = m] \in ShapedJob
    BY DEF NoJob, Job, ShapedJob
  <2> QED BY <1>0, <1>3, <2>1, BeginType DEF Activate, TypeInv, TypeOK, points_vars, MemberStatus
<1>4. ASSUME NEW w \in Workers, NEW m \in Members, NEW ref \in Members \cup {None}, UpdateRead(w, m, ref)
      PROVE  TypeInv'
  <2>1. [NoJob EXCEPT !.op = "update", !.m = m, !.ref = ref,
                      !.at = IF ref = None THEN "write" ELSE "candidate"] \in ShapedJob
    BY DEF NoJob, Job, ShapedJob
  <2> QED BY <1>0, <1>4, <2>1, BeginType DEF UpdateRead, TypeInv, TypeOK, points_vars
<1>5. ASSUME NEW w \in Workers, NEW m \in Members, RegisterCreate(w, m) PROVE TypeInv'
  <2>1. job[w].ref \in Members \cup {None}
    BY <1>0 DEF Job
  <2> QED BY <1>0, <1>5, <2>1, FinishType DEF RegisterCreate, TypeInv, TypeOK, points_vars, MemberStatus, Exists
<1>6. ASSUME NEW w \in Workers, UpdateReadCandidate(w) PROVE TypeInv'
  <2>1. CASE Finish(w)
    BY <1>0, <1>6, <2>1, FinishType DEF UpdateReadCandidate, TypeInv, TypeOK, points_vars
  <2>2. CASE ~Finish(w)
    <3> DEFINE j == [job[w] EXCEPT !.at = "walk", !.next = referrer[job[w].ref], !.visited = {job[w].ref}]
    <3>1. job' = [job EXCEPT ![w] = j] /\ job[w].ref \in Members
      BY <1>0, <1>6, <2>2 DEF UpdateReadCandidate, At, TypeOK, ShapedJob
    <3>2. j \in ShapedJob
      <4>1. job[w].op = "update" /\ referrer[job[w].ref] \in Members \cup {None}
        BY <1>0, <1>6, <3>1 DEF UpdateReadCandidate, At, TypeOK
      <4>2. job[w] \in Job /\ job[w].m \in Members
        BY <1>0, <4>1 DEF ShapedJob
      <4>3. j \in Job
        BY <3>1, <4>1, <4>2 DEF Job
      <4> QED BY <3>1, <4>1, <4>2, <4>3 DEF Job, ShapedJob
    <3> QED BY <1>0, <1>6, <3>1, <3>2, JobUpdate DEF UpdateReadCandidate, TypeInv, TypeOK, points_vars
  <2> QED BY <2>1, <2>2
<1>7. ASSUME NEW w \in Workers, UpdateWalk(w) PROVE TypeInv'
  <2>1. job' \in [Workers -> ShapedJob] /\ job' \in [Workers -> Job]
    <3>1. CASE job[w].next = None
      BY <1>0, <1>7, <3>1, GotoType DEF UpdateWalk
    <3>2. CASE job[w].next # None /\ ClosesLoop(w)
      BY <1>0, <1>7, <3>2, FinishType DEF UpdateWalk
    <3>3. CASE job[w].next # None /\ ~ClosesLoop(w)
      <4> DEFINE j == [job[w] EXCEPT !.visited = job[w].visited \cup {job[w].next},
                                     !.next = referrer[job[w].next]]
      <4>1. job' = [job EXCEPT ![w] = j]
        BY <1>0, <1>7, <3>3 DEF UpdateWalk, TypeOK
      <4>2. job[w].next \in Members
        BY <1>0, <3>3 DEF Job
      <4>3. job[w].op = "update" /\ job[w] \in Job /\ job[w] \in ShapedJob
        BY <1>0, <1>7 DEF UpdateWalk, At
      <4>4. referrer[job[w].next] \in Members \cup {None}
        BY <1>0, <4>2 DEF TypeOK
      <4>5. j \in Job
        BY <4>2, <4>3, <4>4 DEF Job
      <4>6. j.op = job[w].op /\ j.at = job[w].at /\ j.m = job[w].m /\ j.ref = job[w].ref /\ j.points = job[w].points
        BY <4>3 DEF Job
      <4>7. j \in ShapedJob
        BY <4>3, <4>5, <4>6 DEF ShapedJob
      <4> QED BY <1>0, <4>1, <4>7, JobUpdate
    <3> QED BY <3>1, <3>2, <3>3
  <2> QED BY <1>0, <1>7, <2>1 DEF UpdateWalk, TypeInv, TypeOK, points_vars
<1>8. ASSUME NEW w \in Workers, UpdateWrite(w) PROVE TypeInv'
  <2>1. job[w].ref \in Members \cup {None}
    BY <1>0 DEF Job
  <2> QED BY <1>0, <1>8, <2>1, FinishType DEF UpdateWrite, TypeInv, TypeOK, points_vars
<1>9. ASSUME NEW w \in Workers, AwardReadMember(w) PROVE TypeInv'
  <2>1. CASE Finish(w)
    BY <1>0, <1>9, <2>1, FinishType DEF AwardReadMember, TypeInv, TypeOK, points_vars
  <2>2. CASE ~Finish(w)
    <3> DEFINE j == [job[w] EXCEPT !.at = "referrer", !.ref = referrer[job[w].m]]
    <3>1. job' = [job EXCEPT ![w] = j] /\ referrer[job[w].m] # None /\ job[w].m \in Members
      BY <1>0, <1>9, <2>2 DEF AwardReadMember, TypeOK, ShapedJob, At
    <3>2. j \in ShapedJob
      BY <1>0, <3>1, ZenonT(40) DEF Job, TypeOK, ShapedJob
    <3> QED BY <1>0, <1>9, <3>1, <3>2, JobUpdate DEF AwardReadMember, TypeInv, TypeOK, points_vars
  <2> QED BY <2>1, <2>2
<1>10. ASSUME NEW w \in Workers, AwardReadReferrer(w) PROVE TypeInv'
  <2>1. job' \in [Workers -> ShapedJob] /\ job' \in [Workers -> Job]
    BY <1>0, <1>10, GotoType, FinishType DEF AwardReadReferrer, At
  <2> QED BY <1>0, <1>10, <2>1 DEF AwardReadReferrer, TypeInv, TypeOK, points_vars
<1>11. ASSUME NEW w \in Workers, NEW n \in AwardPoints, AwardReadCap(w, n) PROVE TypeInv'
  <2> DEFINE p == applyReferralCap(n, ReferralTotal(job[w].ref))
  <2>1. CASE p \in 1..n
    <3> DEFINE j == [job[w] EXCEPT !.at = "credit", !.points = p]
    <3> HIDE DEF p
    <3>1. p \in Nat
      BY <2>1
    <3>2. job' = [job EXCEPT ![w] = j] /\ job[w].ref \in Members
      BY <1>0, <1>11, <2>1 DEF AwardReadCap, TypeOK, p, At, ShapedJob
    <3>3. j \in ShapedJob
      BY <1>0, <3>1, <3>2 DEF Job, ShapedJob
    <3> QED BY <1>0, <1>11, <3>2, <3>3, JobUpdate DEF AwardReadCap, TypeInv, TypeOK, points_vars
  <2>2. CASE p \notin 1..n
    BY <1>0, <1>11, <2>2, FinishType DEF AwardReadCap, TypeInv, TypeOK, points_vars
  <2> QED BY <2>1, <2>2
<1>12. ASSUME NEW w \in Workers, AwardCredit(w) PROVE TypeInv'
  <2>1. job' \in [Workers -> ShapedJob] /\ job' \in [Workers -> Job]
    BY <1>0, <1>12, FinishType DEF AwardCredit
  <2>2. job[w].m \in Members /\ job[w].ref \in Members /\ job[w].points \in Nat
    BY <1>0, <1>12 DEF AwardCredit, At, ShapedJob, Job
  <2> DEFINE r == NewRow(job[w].m, job[w].ref, job[w].points, "APPROVED")
  <2>3. r \in LedgerRow
    BY <2>2, NewRowType
  <2> HIDE DEF r
  <2>4. balance' \in [Members -> Nat] /\ ledger' \in {ledger, ledger \cup {r}}
    BY <1>0, <1>12, <2>2 DEF AwardCredit, CreditPoints, points_vars, TypeOK, r
  <2>5. IsFiniteSet(ledger') /\ ledger' \subseteq LedgerRow
    BY <1>0, <2>3, <2>4, FS_AddElement DEF TypeOK
  <2> QED BY <1>0, <1>12, <2>1, <2>4, <2>5 DEF AwardCredit, TypeInv, TypeOK
<1>13. ASSUME NEW m \in Members, Submit(m) PROVE TypeInv'
  BY <1>0, <1>13 DEF Submit, SetStatus, TypeInv, TypeOK, points_vars, MemberStatus
<1>14. ASSUME NEW w \in Workers, RemoveWrite(w) PROVE TypeInv'
  <2>1. job' \in [Workers -> ShapedJob] /\ job' \in [Workers -> Job]
    BY <1>0, <1>14, FinishType DEF RemoveWrite
  <2>2. ledger' \subseteq ledger
    BY <1>14 DEF RemoveWrite, RowsLeft, points_vars
  <2>3. IsFiniteSet(ledger')
    BY <1>0, <2>2, FS_Subset
  <2> QED BY <1>0, <1>14, <2>1, <2>2, <2>3 DEF RemoveWrite, points_vars, TypeInv, TypeOK, MemberStatus
<1>16. ASSUME NEW w \in Workers, NEW m \in Members, RemoveRead(w, m) PROVE TypeInv'
  <2>1. [NoJob EXCEPT !.op = "remove", !.at = "delete", !.m = m] \in ShapedJob
    BY DEF NoJob, Job, ShapedJob
  <2> QED BY <1>0, <1>16, <2>1, BeginType DEF RemoveRead, TypeInv, TypeOK, points_vars
<1>15. CASE UNCHANGED vars
  BY <1>15 DEF vars, points_vars, TypeInv, TypeOK
<1> QED
  BY <1>1, <1>2, <1>3, <1>4, <1>5, <1>6, <1>7, <1>8, <1>9, <1>10, <1>11, <1>12, <1>13, <1>14, <1>15, <1>16
  DEF Next, Start, Proceed

LEMMA AlwaysTyped == Spec => []TypeInv
  BY InitType, NextType, PTL DEF Spec

\* Every variable has its type, whatever the members do and however their
\* handlers interleave.
THEOREM TypeCorrect == Spec => []TypeOK
  BY AlwaysTyped, PTL DEF TypeInv


-----------------------------------------------------------------------------
(* Nobody is their own referrer.                                           *)

NoLoop(f) == \A S \in (SUBSET Members) \ {{}} : \E m \in S : f[m] \notin S

ReferrersExist == \A m \in Members : referrer[m] # None => Exists(m) /\ Exists(referrer[m])

\* What a walk has visited leads nowhere else, and not to the member who is edited.
Followed(w) ==
    /\ job[w].m # job[w].ref
    /\ job[w].at \in {"walk", "write"} =>
        /\ job[w].ref \in job[w].visited /\ job[w].m \notin job[w].visited
        /\ job[w].at = "write" => job[w].next = None
        /\ job[w].next # None => status[job[w].next] # "NONE"
        /\ \A v \in job[w].visited :
            status[v] # "NONE" /\ referrer[v] \in job[w].visited \cup {None, job[w].next}

ChainInv ==
    /\ ReferrersExist
    /\ "update" \notin overlapped =>
        /\ NoLoop(referrer)
        /\ \A v, w \in Workers : job[v].op = "update" /\ job[w].op = "update" => v = w
        /\ \A w \in Workers : job[w].op = "update" /\ job[w].ref # None => Followed(w)

\* A new referrer who is in a set that leads nowhere else closes no loop with a
\* member outside it.
LEMMA NewReferrer ==
    ASSUME referrer \in [Members -> Members \cup {None}], NoLoop(referrer),
           NEW m \in Members, NEW V \in SUBSET Members, NEW r \in V, m \notin V,
           \A v \in V : referrer[v] \in V \cup {None}
    PROVE  NoLoop([referrer EXCEPT ![m] = r])
<1> DEFINE g == [referrer EXCEPT ![m] = r]
<1> SUFFICES ASSUME NEW S \in (SUBSET Members) \ {{}}, \A x \in S : g[x] \in S PROVE FALSE
  BY DEF NoLoop
<1>1. \A x \in S : x # m => referrer[x] \in S
  OBVIOUS
<1>2. CASE m \notin S
  BY <1>1, <1>2 DEF NoLoop
<1>3. CASE m \in S
  <2> DEFINE T == S \cap V
  <2>1. r \in T
    BY <1>3
  <2>2. \A x \in T : referrer[x] \in T
    BY <1>1
  <2>3. T \in (SUBSET Members) \ {{}}
    BY <2>1
  <2> QED BY <2>2, <2>3 DEF NoLoop
<1> QED BY <1>2, <1>3

\* A member who loses their referrer closes no loop either.
LEMMA FewerReferrers ==
    ASSUME NoLoop(referrer), NEW g, \A m \in Members : g[m] \in {referrer[m], None}
    PROVE  NoLoop(g)
<1> SUFFICES ASSUME NEW S \in (SUBSET Members) \ {{}}, \A x \in S : g[x] \in S PROVE FALSE
  BY DEF NoLoop
<1>1. \A x \in S : referrer[x] \in S
  OBVIOUS
<1> QED BY <1>1 DEF NoLoop

\* Finish, Goto and Begin leave the other handlers alone.
LEMMA OthersKeep ==
    ASSUME TypeInv, NEW w \in Workers, NEW v \in Workers, v # w, NEW j,
           job' = [job EXCEPT ![w] = j]
    PROVE  job'[v] = job[v]
  BY DEF TypeInv

\* A step that changes no referrer, and no job of an update except to end it.
LEMMA ChainQuiet ==
    ASSUME TypeInv, TypeInv', ChainInv, referrer' = referrer, overlapped \subseteq overlapped',
           \A m \in Members : (Exists(m) => Exists(m)') /\ (status[m] # "NONE" => status'[m] # "NONE"),
           \A w \in Workers : job'[w].op = "update" => job'[w] = job[w]
    PROVE  ChainInv'
<1>1. ReferrersExist'
  BY DEF ChainInv, ReferrersExist, TypeInv, TypeOK
<1>2. ASSUME "update" \notin overlapped', NEW w \in Workers, job'[w].op = "update", job'[w].ref # None
      PROVE  Followed(w)'
  <2>1. job'[w] = job[w] /\ Followed(w)
    BY <1>2 DEF ChainInv
  <2>2. job[w].next \in Members \cup {None} /\ job[w].visited \subseteq Members
    BY DEF TypeInv, ShapedJob, Job
  <2> QED BY <2>1, <2>2 DEF Followed
<1> QED BY <1>1, <1>2 DEF ChainInv

LEMMA InitChain == Init => ChainInv
<1> SUFFICES ASSUME Init PROVE ChainInv
  OBVIOUS
<1>1. NoLoop(referrer)
  <2> SUFFICES ASSUME NEW S \in (SUBSET Members) \ {{}} PROVE \E m \in S : referrer[m] \notin S
    BY DEF NoLoop
  <2>1. PICK m \in S : m \in Members
    OBVIOUS
  <2>2. referrer[m] \notin S
    BY <2>1 DEF Init
  <2> QED BY <2>2
<1> QED BY <1>1 DEF Init, ChainInv, ReferrersExist, NoJob

LEMMA NextChain == TypeInv /\ TypeInv' /\ ChainInv /\ [Next]_vars => ChainInv'
<1> SUFFICES ASSUME TypeInv, TypeInv', ChainInv, [Next]_vars PROVE ChainInv'
  OBVIOUS
<1>0. TypeOK /\ \A w \in Workers : job[w] \in Job /\ job[w] \in ShapedJob
  BY DEF TypeInv, TypeOK
<1>1. ASSUME NEW w \in Workers, Abort(w) PROVE ChainInv'
  <2>1. \A v \in Workers : job'[v].op = "update" => job'[v] = job[v]
    BY <1>0, <1>1, OthersKeep DEF Abort, Finish, NoJob, TypeOK
  <2> QED BY <1>1, <2>1, ChainQuiet DEF Abort, Exists
<1>2. ASSUME NEW w \in Workers, NEW m \in Members, RegisterRead(w, m) PROVE ChainInv'
  <2>1. \A v \in Workers : job'[v].op = "update" => job'[v] = job[v]
    BY <1>0, <1>2, OthersKeep DEF RegisterRead, Begin, NoJob, TypeOK
  <2> QED BY <1>2, <2>1, ChainQuiet DEF RegisterRead, Begin, Exists
<1>3. ASSUME NEW w \in Workers, NEW m \in Members, Activate(w, m) PROVE ChainInv'
  <2>1. \A v \in Workers : job'[v].op = "update" => job'[v] = job[v]
    BY <1>0, <1>3, OthersKeep DEF Activate, Begin, NoJob, TypeOK
  <2>2. \A n \in Members : (Exists(n) => Exists(n)') /\ (status[n] # "NONE" => status'[n] # "NONE")
    BY <1>0, <1>3 DEF Activate, Exists, TypeOK
  <2> QED BY <1>3, <2>1, <2>2, ChainQuiet DEF Activate, Begin
<1>4. ASSUME NEW w \in Workers, NEW m \in Members, NEW ref \in Members \cup {None}, UpdateRead(w, m, ref)
      PROVE  ChainInv'
  <2>1. referrer' = referrer /\ status' = status /\ overlapped \subseteq overlapped'
    BY <1>4 DEF UpdateRead, Begin
  <2>2. job'[w].op = "update" /\ job'[w].m = m /\ job'[w].ref = ref
        /\ (ref # None => job'[w].at = "candidate") /\ ref # m
    BY <1>0, <1>4 DEF UpdateRead, Begin, NoJob, TypeOK
  <2>3. \A v \in Workers : v # w => job'[v] = job[v]
    BY <1>4, OthersKeep DEF UpdateRead, Begin
  <2>4. "update" \notin overlapped' => \A v \in Workers : job[v].op # "update"
    BY <1>4 DEF UpdateRead, Begin, NoJob
  <2>5. "update" \notin overlapped' /\ ref # None => Followed(w)'
    BY <2>2 DEF Followed
  <2>6. ReferrersExist'
    BY <2>1 DEF ChainInv, ReferrersExist, Exists
  <2> QED BY <2>1, <2>2, <2>3, <2>4, <2>5, <2>6 DEF ChainInv
<1>5. ASSUME NEW w \in Workers, NEW m \in Members, RegisterCreate(w, m) PROVE ChainInv'
  <2>1. \A v \in Workers : job'[v].op = "update" => job'[v] = job[v]
    BY <1>0, <1>5, OthersKeep DEF RegisterCreate, Finish, NoJob, TypeOK
  <2>2. CASE ~Exists(job[w].ref)
    BY <1>5, <2>1, <2>2, ChainQuiet DEF RegisterCreate, Exists
  <2>3. CASE Exists(job[w].ref)
    <3>1. /\ status' = [status EXCEPT ![m] = "DRAFT"]
          /\ referrer' = [referrer EXCEPT ![m] = job[w].ref]
          /\ status[m] = "NONE" /\ job[w].ref \in Members /\ overlapped' = overlapped
      BY <1>0, <1>5, <2>3 DEF RegisterCreate, At, ShapedJob
    <3>2. ReferrersExist'
      BY <1>0, <2>3, <3>1 DEF ChainInv, ReferrersExist, Exists, TypeOK
    <3>3. NoLoop(referrer) => NoLoop(referrer')
      <4> DEFINE V == {x \in Members : Exists(x)}
      <4>1. job[w].ref \in V /\ m \notin V
        BY <2>3, <3>1 DEF Exists
      <4>2. \A v \in V : referrer[v] \in V \cup {None}
        BY <1>0 DEF ChainInv, ReferrersExist, TypeOK
      <4> HIDE DEF V
      <4>3. V \in SUBSET Members
        BY DEF V
      <4> QED BY <1>0, <3>1, <4>1, <4>2, <4>3, NewReferrer DEF TypeOK
    <3>4. ASSUME "update" \notin overlapped', NEW v \in Workers, job'[v].op = "update", job'[v].ref # None
          PROVE  Followed(v)'
      <4>1. job'[v] = job[v] /\ Followed(v)
        BY <2>1, <3>1, <3>4 DEF ChainInv
      <4>2. job[v].next \in Members \cup {None} /\ job[v].visited \subseteq Members
        BY <1>0 DEF Job
      <4> QED BY <1>0, <3>1, <4>1, <4>2 DEF Followed, TypeOK
    <3> QED BY <2>1, <3>1, <3>2, <3>3, <3>4 DEF ChainInv
  <2> QED BY <2>2, <2>3
<1>6. ASSUME NEW w \in Workers, UpdateReadCandidate(w) PROVE ChainInv'
  <2>1. CASE Finish(w)
    <3>1. \A v \in Workers : job'[v].op = "update" => job'[v] = job[v]
      BY <1>0, <2>1, OthersKeep DEF Finish, NoJob, TypeOK
    <3> QED BY <1>6, <3>1, ChainQuiet DEF UpdateReadCandidate, Exists
  <2>2. CASE ~Finish(w)
    <3> DEFINE j == [job[w] EXCEPT !.at = "walk", !.next = referrer[job[w].ref], !.visited = {job[w].ref}]
    <3>1. job' = [job EXCEPT ![w] = j] /\ job[w].ref \in Members /\ Exists(job[w].ref)
          /\ UNCHANGED <<status, referrer, overlapped>> /\ job[w].op = "update"
      BY <1>0, <1>6, <2>2 DEF UpdateReadCandidate, At, TypeOK, ShapedJob
    <3>2. job'[w] = j
      BY <1>0, <3>1 DEF TypeOK
    <3>3. /\ j.op = "update" /\ j.m = job[w].m /\ j.ref = job[w].ref /\ j.at = "walk"
          /\ j.next = referrer[job[w].ref] /\ j.visited = {job[w].ref}
      BY <1>0, <3>1 DEF Job
    <3>4. \A v \in Workers : v # w => job'[v] = job[v]
      BY <3>1, OthersKeep
    <3>5. ReferrersExist'
      BY <3>1 DEF ChainInv, ReferrersExist, Exists
    <3> HIDE DEF j
    <3>6. "update" \notin overlapped => Followed(w)'
      <4>1. referrer[job[w].ref] # None => Exists(referrer[job[w].ref])
        BY <3>1 DEF ChainInv, ReferrersExist
      <4>2. "update" \notin overlapped => job[w].m # job[w].ref
        BY <3>1 DEF ChainInv, Followed
      <4> QED BY <3>1, <3>2, <3>3, <4>1, <4>2 DEF Followed, Exists
    <3>7. ASSUME "update" \notin overlapped, NEW v \in Workers, v # w, job[v].op = "update", job[v].ref # None
          PROVE  Followed(v)'
      BY <3>1, <3>4, <3>7 DEF ChainInv, Followed
    <3> QED BY <3>1, <3>2, <3>3, <3>4, <3>5, <3>6, <3>7 DEF ChainInv
  <2> QED BY <2>1, <2>2
<1>7. ASSUME NEW w \in Workers, UpdateWalk(w) PROVE ChainInv'
  <2>0. UNCHANGED <<status, referrer, overlapped>> /\ job[w].op = "update" /\ job[w].at = "walk" /\ job[w].ref # None
    BY <1>0, <1>7 DEF UpdateWalk, At, ShapedJob
  <2>1. CASE Finish(w)
    <3>1. \A v \in Workers : job'[v].op = "update" => job'[v] = job[v]
      BY <1>0, <2>1, OthersKeep DEF Finish, NoJob, TypeOK
    <3> QED BY <2>0, <3>1, ChainQuiet DEF Exists
  <2>2. CASE ~Finish(w)
    <3> DEFINE n == job[w].next
    <3>1. ReferrersExist'
      BY <2>0 DEF ChainInv, ReferrersExist, Exists
    <3>2. \A v \in Workers : v # w => job'[v] = job[v]
      BY <1>7, <2>2, OthersKeep DEF UpdateWalk, Goto
    <3>3. job'[w].op = "update" /\ job'[w].ref = job[w].ref /\ job'[w].m = job[w].m
      BY <1>0, <1>7, <2>0, <2>2 DEF UpdateWalk, Goto, TypeOK, Job
    <3>4. "update" \notin overlapped => Followed(w)'
      <4> SUFFICES ASSUME "update" \notin overlapped PROVE Followed(w)'
        OBVIOUS
      <4>1. Followed(w)
        BY <2>0 DEF ChainInv
      <4>2. CASE n = None
        <5>1. job'[w].at = "write" /\ job'[w].next = None /\ job'[w].visited = job[w].visited
          BY <1>0, <1>7, <4>2 DEF UpdateWalk, Goto, TypeOK, Job
        <5> QED BY <2>0, <3>3, <4>1, <4>2, <5>1 DEF Followed
      <4>3. CASE n # None
        <5>1. /\ job'[w].at = "walk" /\ job'[w].next = referrer[n]
              /\ job'[w].visited = job[w].visited \cup {n} /\ n # job[w].m
          BY <1>0, <1>7, <2>0, <2>2, <4>3 DEF UpdateWalk, ClosesLoop, TypeOK, Job
        <5>2. n \in Members /\ (referrer[n] # None => Exists(referrer[n]))
          BY <1>0, <4>3 DEF ChainInv, ReferrersExist, Job
        <5>3. /\ job[w].m # job[w].ref /\ job[w].ref \in job[w].visited /\ job[w].m \notin job[w].visited
              /\ status[n] # "NONE"
              /\ \A v \in job[w].visited : status[v] # "NONE" /\ referrer[v] \in job[w].visited \cup {None, n}
          BY <2>0, <4>1, <4>3 DEF Followed
        <5> HIDE DEF n
        <5> QED BY <2>0, <3>3, <5>1, <5>2, <5>3 DEF Followed, Exists
      <4> QED BY <4>2, <4>3
    <3>5. ASSUME "update" \notin overlapped, NEW v \in Workers, v # w, job[v].op = "update", job[v].ref # None
          PROVE  Followed(v)'
      BY <2>0, <3>2, <3>5 DEF ChainInv, Followed
    <3> QED BY <2>0, <3>1, <3>2, <3>3, <3>4, <3>5 DEF ChainInv
  <2> QED BY <2>1, <2>2
<1>8. ASSUME NEW w \in Workers, UpdateWrite(w) PROVE ChainInv'
  <2> DEFINE m == job[w].m
             r == job[w].ref
  <2>0. /\ status' = status /\ overlapped' = overlapped /\ job[w].op = "update" /\ job[w].at = "write"
        /\ m \in Members /\ r \in Members \cup {None}
    BY <1>0, <1>8 DEF UpdateWrite, At, ShapedJob, Job
  <2>1. \A v \in Workers : job'[v].op = "update" => job'[v] = job[v]
    BY <1>0, <1>8, OthersKeep DEF UpdateWrite, Finish, NoJob, TypeOK
  <2>2. CASE referrer' = referrer
    BY <2>0, <2>1, <2>2, ChainQuiet DEF Exists
  <2>3. CASE referrer' # referrer
    <3>1. referrer' = [referrer EXCEPT ![m] = r] /\ Exists(m) /\ (r # None => Exists(r))
      BY <1>8, <2>3 DEF UpdateWrite
    <3> HIDE DEF m, r
    <3>2. ReferrersExist'
      BY <1>0, <2>0, <3>1 DEF ChainInv, ReferrersExist, Exists, TypeOK
    <3>3. ASSUME "update" \notin overlapped PROVE NoLoop(referrer')
      <4>1. CASE r = None
        <5>1. \A x \in Members : referrer'[x] \in {referrer[x], None}
          BY <1>0, <2>0, <3>1, <4>1 DEF TypeOK
        <5> QED BY <3>3, <5>1, FewerReferrers DEF ChainInv
      <4>2. CASE r # None
        <5>1. Followed(w)
          BY <2>0, <3>3, <4>2 DEF ChainInv, r
        <5>2. /\ r \in job[w].visited /\ m \notin job[w].visited
              /\ \A v \in job[w].visited : referrer[v] \in job[w].visited \cup {None}
          BY <2>0, <5>1 DEF Followed, m, r
        <5>3. job[w].visited \in SUBSET Members
          BY <1>0 DEF Job
        <5>4. NoLoop(referrer)
          BY <3>3 DEF ChainInv
        <5> QED BY <1>0, <2>0, <3>1, <5>2, <5>3, <5>4, NewReferrer DEF TypeOK
      <4> QED BY <4>1, <4>2
    <3>4. \A v \in Workers : "update" \notin overlapped => job'[v].op # "update"
      <4>1. job'[w].op # "update"
        BY <1>0, <1>8 DEF UpdateWrite, Finish, NoJob, TypeOK
      <4> QED BY <2>0, <2>1, <4>1 DEF ChainInv
    <3> QED BY <2>0, <3>2, <3>3, <3>4 DEF ChainInv
  <2> QED BY <2>2, <2>3
<1>9. ASSUME NEW w \in Workers,
             \/ AwardReadMember(w) \/ AwardReadReferrer(w) \/ AwardCredit(w)
             \/ \E n \in AwardPoints : AwardReadCap(w, n)
      PROVE  ChainInv'
  <2>1. UNCHANGED <<status, referrer, overlapped>> /\ job[w].op = "award"
    BY <1>9 DEF AwardReadMember, AwardReadReferrer, AwardCredit, AwardReadCap, At
  <2>2. job'[w].op # "update"
    <3>1. CASE Finish(w)
      BY <1>0, <3>1 DEF Finish, NoJob, TypeOK
    <3>2. CASE ~Finish(w)
      BY <1>0, <1>9, <2>1, <3>2 DEF AwardReadMember, AwardReadReferrer, AwardCredit, AwardReadCap, Goto, TypeOK, Job
    <3> QED BY <3>1, <3>2
  <2>3. \A v \in Workers : v # w => job'[v] = job[v]
    BY <1>9, OthersKeep DEF AwardReadMember, AwardReadReferrer, AwardCredit, AwardReadCap, Goto, Finish
  <2> QED BY <2>1, <2>2, <2>3, ChainQuiet DEF Exists
<1>10. ASSUME NEW m \in Members, Submit(m) PROVE ChainInv'
  <2>1. \A n \in Members : (Exists(n) => Exists(n)') /\ (status[n] # "NONE" => status'[n] # "NONE")
    BY <1>0, <1>10 DEF Submit, SetStatus, Exists, TypeOK
  <2> QED BY <1>10, <2>1, ChainQuiet DEF Submit, SetStatus
<1>13. ASSUME NEW w \in Workers, NEW m \in Members, RemoveRead(w, m) PROVE ChainInv'
  <2>1. \A v \in Workers : job'[v].op = "update" => job'[v] = job[v]
    BY <1>0, <1>13, OthersKeep DEF RemoveRead, Begin, NoJob, TypeOK
  <2> QED BY <1>13, <2>1, ChainQuiet DEF RemoveRead, Begin, Exists
<1>14. ASSUME NEW w \in Workers, RemoveWrite(w), ~Exists(job[w].m) PROVE ChainInv'
  <2>1. \A v \in Workers : job'[v].op = "update" => job'[v] = job[v]
    BY <1>0, <1>14, OthersKeep DEF RemoveWrite, Finish, NoJob, TypeOK
  <2> QED BY <1>14, <2>1, ChainQuiet DEF RemoveWrite, Exists
<1>11. ASSUME NEW w \in Workers, RemoveWrite(w), Exists(job[w].m) PROVE ChainInv'
  <2> DEFINE m == job[w].m
  <2>0. \A v \in Workers : job'[v].op = "update" => job'[v] = job[v]
    BY <1>0, <1>11, OthersKeep DEF RemoveWrite, Finish, NoJob, TypeOK
  <2>1. /\ status' = [status EXCEPT ![m] = "REMOVED"] /\ overlapped' = overlapped /\ m \in Members
        /\ \A n \in Members : referrer'[n] = IF n = m \/ referrer[n] = m THEN None ELSE referrer[n]
    BY <1>0, <1>11 DEF RemoveWrite, At, ShapedJob
  <2> HIDE DEF m
  <2>2. ReferrersExist'
    BY <1>0, <2>1 DEF ChainInv, ReferrersExist, Exists, TypeOK
  <2>3. NoLoop(referrer) => NoLoop(referrer')
    BY <2>1, FewerReferrers
  <2>4. ASSUME "update" \notin overlapped, NEW v \in Workers, job'[v].op = "update", job'[v].ref # None
        PROVE  Followed(v)'
    <3>1. Followed(v) /\ job'[v] = job[v]
      BY <2>0, <2>4 DEF ChainInv
    <3>2. job[v].next \in Members \cup {None} /\ job[v].visited \subseteq Members
      BY <1>0 DEF Job
    <3> QED BY <1>0, <2>1, <3>1, <3>2 DEF Followed, TypeOK
  <2> QED BY <2>0, <2>1, <2>2, <2>3, <2>4 DEF ChainInv
<1>12. CASE UNCHANGED vars
  BY <1>12, ChainQuiet DEF vars, Exists
<1> QED
  BY <1>1, <1>2, <1>3, <1>4, <1>5, <1>6, <1>7, <1>8, <1>9, <1>10, <1>11, <1>12, <1>13, <1>14
  DEF Next, Start, Proceed

\* Referrers exist, and unless two changes of a referrer have overlapped no
\* chain of them is a loop, whoever registers, changes or is removed meanwhile.
THEOREM ChainsEnd == Spec => []ReferralsAcyclic
<1>1. ChainInv => ReferralsAcyclic
  BY DEF ChainInv, ReferrersExist, NoLoop, ReferralsAcyclic
<1>2. Init => TypeInv /\ ChainInv
  BY InitType, InitChain
<1>3. TypeInv /\ ChainInv /\ [Next]_vars => TypeInv' /\ ChainInv'
  BY NextType, NextChain
<1> QED BY <1>1, <1>2, <1>3, PTL DEF Spec

-----------------------------------------------------------------------------
(* What earns points, and that walks end.                                  *)

\* An award under way is the only one for its member, who was activated and has
\* earned nobody anything yet.
AwardSound(w) ==
    /\ status[job[w].m] \in {"ACTIVE", "REMOVED"}
    /\ \A r \in ledger : r.source # job[w].m
    /\ \A v \in Workers : job[v].op = "award" /\ job[v].m = job[w].m => v = w
    /\ job[w].at \in {"referrer", "cap", "credit"} => job[w].ref # job[w].m
    /\ job[w].at = "credit" => job[w].points > 0

EarnInv ==
    /\ EarnedByActivation
    /\ \A m \in Members : referrer[m] # m
    /\ \A w \in Workers : job[w].op = "update" => job[w].ref # job[w].m
    /\ \A w \in Workers : job[w].op = "award" => AwardSound(w)

\* A step that writes no row and starts or continues no award.
LEMMA EarnQuiet ==
    ASSUME TypeInv, EarnInv, ledger' \subseteq ledger,
           \A m \in Members : status[m] \in {"ACTIVE", "REMOVED"} => status'[m] \in {"ACTIVE", "REMOVED"},
           \A m \in Members : referrer'[m] # m,
           \A w \in Workers : job'[w].op = "award" => job'[w] = job[w],
           \A w \in Workers : job'[w].op = "update" => job'[w].ref # job'[w].m
    PROVE  EarnInv'
<1>1. EarnedByActivation'
  BY DEF EarnInv, EarnedByActivation, TypeInv, TypeOK, LedgerRow
<1>2. ASSUME NEW w \in Workers, job'[w].op = "award" PROVE AwardSound(w)'
  <2>1. job'[w] = job[w] /\ AwardSound(w) /\ job[w].m \in Members
    BY <1>2 DEF EarnInv, TypeInv, ShapedJob
  <2> QED BY <2>1 DEF AwardSound
<1> QED BY <1>1, <1>2 DEF EarnInv

LEMMA InitEarn == Init => EarnInv
  BY DEF Init, EarnInv, EarnedByActivation, NoJob

LEMMA NextEarn == TypeInv /\ TypeInv' /\ EarnInv /\ [Next]_vars => EarnInv'
<1> SUFFICES ASSUME TypeInv, TypeInv', EarnInv, [Next]_vars PROVE EarnInv'
  OBVIOUS
<1>0. /\ TypeOK /\ \A w \in Workers : job[w] \in Job /\ job[w] \in ShapedJob
      /\ \A m \in Members : referrer[m] # m
      /\ \A w \in Workers : job[w].op = "update" => job[w].ref # job[w].m
  BY DEF TypeInv, TypeOK, EarnInv
<1>1. ASSUME NEW w \in Workers, Abort(w) PROVE EarnInv'
  <2>1. \A v \in Workers : job'[v].op \in {"award", "update"} => job'[v] = job[v]
    BY <1>0, <1>1, OthersKeep DEF Abort, Finish, NoJob, TypeOK
  <2> QED BY <1>0, <1>1, <2>1, EarnQuiet DEF Abort, points_vars
<1>2. ASSUME NEW w \in Workers, NEW m \in Members, RegisterRead(w, m) PROVE EarnInv'
  <2>1. \A v \in Workers : job'[v].op \in {"award", "update"} => job'[v] = job[v]
    BY <1>0, <1>2, OthersKeep DEF RegisterRead, Begin, NoJob, TypeOK
  <2> QED BY <1>0, <1>2, <2>1, EarnQuiet DEF RegisterRead, points_vars
<1>3. ASSUME NEW w \in Workers, NEW m \in Members, Activate(w, m) PROVE EarnInv'
  <2>1. /\ ledger' = ledger /\ referrer' = referrer
        /\ status[m] = "AWAITING_PAYMENT" /\ status' = [status EXCEPT ![m] = "ACTIVE"]
        /\ job'[w].op = "award" /\ job'[w].at = "member" /\ job'[w].m = m
    BY <1>0, <1>3 DEF Activate, Begin, NoJob, TypeOK, points_vars
  <2>2. \A v \in Workers : v # w => job'[v] = job[v]
    BY <1>3, OthersKeep DEF Activate, Begin
  <2>3. \A r \in ledger : r.source # m
    BY <2>1 DEF EarnInv, EarnedByActivation
  <2>4. \A v \in Workers : job[v].op = "award" => job[v].m # m
    BY <2>1 DEF EarnInv, AwardSound
  <2>5. status'[m] = "ACTIVE" /\ \A n \in Members : status[n] \in {"ACTIVE", "REMOVED"} => status'[n] \in {"ACTIVE", "REMOVED"}
    BY <1>0, <2>1 DEF TypeOK
  <2>6. EarnedByActivation'
    BY <1>0, <2>1, <2>5 DEF EarnInv, EarnedByActivation, TypeOK, LedgerRow
  <2>7. AwardSound(w)'
    BY <2>1, <2>2, <2>3, <2>4, <2>5 DEF AwardSound
  <2>8. ASSUME NEW v \in Workers, v # w, job'[v].op = "award" PROVE AwardSound(v)'
    <3>1. job'[v] = job[v] /\ AwardSound(v) /\ job[v].m \in Members /\ job[v].m # m
      BY <1>0, <2>2, <2>4, <2>8 DEF EarnInv, ShapedJob
    <3> QED BY <2>1, <2>2, <2>5, <3>1 DEF AwardSound
  <2> QED BY <1>0, <2>1, <2>2, <2>6, <2>7, <2>8 DEF EarnInv
<1>4. ASSUME NEW w \in Workers, NEW m \in Members, NEW ref \in Members \cup {None}, UpdateRead(w, m, ref)
      PROVE  EarnInv'
  <2>1. UNCHANGED <<ledger, status, referrer>> /\ job'[w].op = "update" /\ job'[w].ref # job'[w].m
    BY <1>0, <1>4 DEF UpdateRead, Begin, NoJob, TypeOK, points_vars
  <2>2. \A v \in Workers : v # w => job'[v] = job[v]
    BY <1>4, OthersKeep DEF UpdateRead, Begin
  <2> QED BY <1>0, <2>1, <2>2, EarnQuiet
<1>5. ASSUME NEW w \in Workers, NEW m \in Members, RegisterCreate(w, m) PROVE EarnInv'
  <2>1. \A v \in Workers : job'[v].op \in {"award", "update"} => job'[v] = job[v]
    BY <1>0, <1>5, OthersKeep DEF RegisterCreate, Finish, NoJob, TypeOK
  <2>2. ledger' = ledger /\ \A n \in Members : status[n] \in {"ACTIVE", "REMOVED"} => status'[n] \in {"ACTIVE", "REMOVED"}
    BY <1>0, <1>5 DEF RegisterCreate, TypeOK, points_vars
  <2>3. \A n \in Members : referrer'[n] # n
    BY <1>0, <1>5 DEF RegisterCreate, TypeOK, Exists
  <2> QED BY <1>0, <2>1, <2>2, <2>3, EarnQuiet
<1>6. ASSUME NEW w \in Workers, UpdateReadCandidate(w) \/ UpdateWalk(w) \/ UpdateWrite(w) PROVE EarnInv'
  <2>1. ledger' = ledger /\ status' = status /\ job[w].op = "update"
    BY <1>6 DEF UpdateReadCandidate, UpdateWalk, UpdateWrite, At, points_vars
  <2>2. \A n \in Members : referrer'[n] # n
    BY <1>0, <1>6, <2>1 DEF UpdateReadCandidate, UpdateWalk, UpdateWrite, TypeOK
  <2>3. \A v \in Workers : v # w => job'[v] = job[v]
    BY <1>6, OthersKeep DEF UpdateReadCandidate, UpdateWalk, UpdateWrite, Goto, Finish
  <2>4. job'[w].op # "award" /\ (job'[w].op = "update" => job'[w].ref # job'[w].m)
    <3>1. CASE Finish(w)
      BY <1>0, <3>1 DEF Finish, NoJob, TypeOK
    <3>2. CASE ~Finish(w)
      <4>1. job'[w].op = job[w].op /\ job'[w].ref = job[w].ref /\ job'[w].m = job[w].m
        BY <1>0, <1>6, <3>2 DEF UpdateReadCandidate, UpdateWalk, UpdateWrite, Goto, TypeOK, Job
      <4> QED BY <1>0, <2>1, <4>1
    <3> QED BY <3>1, <3>2
  <2> QED BY <1>0, <2>1, <2>2, <2>3, <2>4, EarnQuiet
<1>7. ASSUME NEW w \in Workers,
             \/ AwardReadMember(w) \/ AwardReadReferrer(w)
             \/ \E n \in AwardPoints : AwardReadCap(w, n)
      PROVE  EarnInv'
  <2>1. UNCHANGED <<ledger, status, referrer>> /\ job[w].op = "award"
    BY <1>7 DEF AwardReadMember, AwardReadReferrer, AwardReadCap, At, points_vars
  <2>2. \A v \in Workers : v # w => job'[v] = job[v]
    BY <1>7, OthersKeep DEF AwardReadMember, AwardReadReferrer, AwardReadCap, Goto, Finish
  <2>3. AwardSound(w) /\ job[w].m \in Members
    BY <1>0, <2>1 DEF EarnInv, ShapedJob
  <2>4. CASE Finish(w)
    <3>1. job'[w].op = "idle"
      BY <1>0, <2>4 DEF Finish, NoJob, TypeOK
    <3> QED BY <1>0, <2>1, <2>2, <3>1, EarnQuiet
  <2>5. CASE ~Finish(w)
    <3>1. /\ job'[w].op = "award" /\ job'[w].m = job[w].m
          /\ job'[w].at \in {"referrer", "cap", "credit"}
      BY <1>0, <1>7, <2>1, <2>5 DEF AwardReadMember, AwardReadReferrer, AwardReadCap, Goto, TypeOK, Job
    <3>2. job'[w].ref # job[w].m
      <4>1. CASE AwardReadMember(w)
        BY <1>0, <2>3, <2>5, <4>1 DEF AwardReadMember, TypeOK, Job
      <4>2. CASE ~AwardReadMember(w)
        <5>1. job'[w].ref = job[w].ref /\ job[w].at \in {"referrer", "cap"}
          BY <1>0, <1>7, <2>5, <4>2 DEF AwardReadReferrer, AwardReadCap, At, Goto, TypeOK, Job
        <5> QED BY <2>3, <5>1 DEF AwardSound
      <4> QED BY <4>1, <4>2
    <3>3. job'[w].at = "credit" => job'[w].points > 0
      <4>1. CASE \E n \in AwardPoints : AwardReadCap(w, n)
        <5>1. PICK n \in AwardPoints : AwardReadCap(w, n)
          BY <4>1
        <5> DEFINE p == applyReferralCap(n, ReferralTotal(job[w].ref))
        <5>2. p \in 1..n /\ job' = [job EXCEPT ![w].at = "credit", ![w].points = p]
          BY <2>5, <5>1 DEF AwardReadCap
        <5> HIDE DEF p
        <5>3. job'[w].points = p /\ n \in Nat
          BY <1>0, <5>2 DEF TypeOK, Job
        <5> QED BY <5>2, <5>3
      <4>2. CASE AwardReadMember(w) \/ AwardReadReferrer(w)
        BY <1>0, <2>5, <4>2 DEF AwardReadMember, AwardReadReferrer, Goto, TypeOK, Job
      <4> QED BY <1>7, <4>1, <4>2
    <3>4. \A v \in Workers : job'[v].op = job[v].op /\ job'[v].m = job[v].m
      BY <2>1, <2>2, <3>1
    <3>5. AwardSound(w)'
      BY <2>1, <2>3, <3>1, <3>2, <3>3, <3>4 DEF AwardSound
    <3>6. ASSUME NEW v \in Workers, v # w, job'[v].op = "award" PROVE AwardSound(v)'
      <4>1. job'[v] = job[v] /\ AwardSound(v)
        BY <2>2, <3>6 DEF EarnInv
      <4> QED BY <2>1, <3>4, <4>1 DEF AwardSound
    <3>7. EarnedByActivation'
      BY <2>1 DEF EarnInv, EarnedByActivation
    <3> QED BY <1>0, <2>1, <2>2, <3>1, <3>5, <3>6, <3>7 DEF EarnInv
  <2> QED BY <2>4, <2>5
<1>8. ASSUME NEW w \in Workers, AwardCredit(w) PROVE EarnInv'
  <2>1. /\ UNCHANGED <<status, referrer>> /\ job[w].op = "award" /\ job[w].at = "credit" /\ job'[w].op = "idle"
        /\ job[w].m \in Members /\ job[w].ref \in Members /\ job[w].points \in Nat
    BY <1>0, <1>8 DEF AwardCredit, At, Finish, NoJob, TypeOK, ShapedJob, Job
  <2>2. \A v \in Workers : v # w => job'[v] = job[v]
    BY <1>8, OthersKeep DEF AwardCredit, Finish
  <2>3. AwardSound(w)
    BY <2>1 DEF EarnInv
  <2>4. CASE ledger' = ledger
    BY <1>0, <2>1, <2>2, <2>4, EarnQuiet
  <2>5. CASE ledger' # ledger
    <3> DEFINE r == NewRow(job[w].m, job[w].ref, job[w].points, "APPROVED")
    <3>1. ledger' = ledger \cup {r}
      BY <1>8, <2>5 DEF AwardCredit, CreditPoints, points_vars
    <3>2. /\ r.source = job[w].m /\ r.m = job[w].ref /\ r.points = job[w].points
          /\ r.status = "APPROVED"
      BY DEF NewRow
    <3> HIDE DEF r
    <3>3. EarnedByActivation'
      BY <2>1, <2>3, <3>1, <3>2 DEF AwardSound, EarnInv, EarnedByActivation
    <3>4. ASSUME NEW v \in Workers, v # w, job'[v].op = "award" PROVE AwardSound(v)'
      <4>1. job'[v] = job[v] /\ AwardSound(v) /\ job[v].m # job[w].m
        BY <2>1, <2>2, <2>3, <3>4 DEF EarnInv, AwardSound
      <4>2. \A u \in Workers : job'[u].op = "award" => job'[u] = job[u]
        BY <2>1, <2>2
      <4> QED BY <2>1, <3>1, <3>2, <4>1, <4>2 DEF AwardSound
    <3> QED BY <1>0, <2>1, <2>2, <3>3, <3>4 DEF EarnInv
  <2> QED BY <2>4, <2>5
<1>9. ASSUME NEW m \in Members, Submit(m) PROVE EarnInv'
  <2>1. ledger' = ledger /\ \A n \in Members : status[n] \in {"ACTIVE", "REMOVED"} => status'[n] \in {"ACTIVE", "REMOVED"}
    BY <1>0, <1>9 DEF Submit, SetStatus, TypeOK, points_vars
  <2> QED BY <1>0, <1>9, <2>1, EarnQuiet DEF Submit, SetStatus
<1>12. ASSUME NEW w \in Workers, NEW m \in Members, RemoveRead(w, m) PROVE EarnInv'
  <2>1. \A v \in Workers : job'[v].op \in {"award", "update"} => job'[v] = job[v]
    BY <1>0, <1>12, OthersKeep DEF RemoveRead, Begin, NoJob, TypeOK
  <2> QED BY <1>0, <1>12, <2>1, EarnQuiet DEF RemoveRead, points_vars
<1>10. ASSUME NEW w \in Workers, RemoveWrite(w) PROVE EarnInv'
  <2>0. \A v \in Workers : job'[v].op \in {"award", "update"} => job'[v] = job[v]
    BY <1>0, <1>10, OthersKeep DEF RemoveWrite, Finish, NoJob, TypeOK
  <2>1. ledger' \subseteq ledger /\ \A n \in Members : status[n] \in {"ACTIVE", "REMOVED"} => status'[n] \in {"ACTIVE", "REMOVED"}
    BY <1>0, <1>10 DEF RemoveWrite, RowsLeft, TypeOK, points_vars
  <2>2. \A n \in Members : referrer'[n] # n
    BY <1>0, <1>10 DEF RemoveWrite
  <2> QED BY <1>0, <2>0, <2>1, <2>2, EarnQuiet
<1>11. CASE UNCHANGED vars
  BY <1>0, <1>11, EarnQuiet DEF vars, points_vars
<1> QED
  BY <1>1, <1>2, <1>3, <1>4, <1>5, <1>6, <1>7, <1>8, <1>9, <1>10, <1>11, <1>12
  DEF Next, Start, Proceed

\* A member's activation earns their referrer points at most once, and nobody
\* earns for themselves, whatever overlaps.
THEOREM Earned == Spec => []EarnedByActivation
<1>1. Init => TypeInv /\ EarnInv
  BY InitType, InitEarn
<1>2. TypeInv /\ EarnInv /\ [Next]_vars => TypeInv' /\ EarnInv'
  BY NextType, NextEarn
<1> QED BY <1>1, <1>2, PTL DEF Spec, EarnInv

\* Every step of a walk up the referrers is its last or comes to somebody new.
THEOREM WalksAdvance == Spec => WalkAdvances
<1>1. ASSUME TypeInv, Next, NEW w \in Workers,
             At(w, "update", "walk"), At(w, "update", "walk")', job'[w] # job[w]
      PROVE  job'[w].visited \ job[w].visited # {}
  <2>0. job \in [Workers -> Job] /\ job[w].op = "update" /\ job[w].at = "walk"
    BY <1>1 DEF TypeInv, TypeOK, At
  <2>1. UpdateWalk(w)
    <3>1. PICK v \in Workers : Start(v) \/ Proceed(v) \/ Abort(v)
      BY <1>1 DEF Next, Submit, SetStatus
    <3>2. v = w
      <4> SUFFICES ASSUME v # w PROVE FALSE
        OBVIOUS
      <4>1. job'[w] = job[w]
        BY <2>0, <3>1 DEF Start, RegisterRead, RemoveRead, Activate, UpdateRead, Begin, Proceed, RegisterCreate,
           UpdateReadCandidate, UpdateWalk, UpdateWrite, RemoveWrite, AwardReadMember, AwardReadReferrer,
           AwardCredit, AwardReadCap, Abort, Goto, Finish
      <4> QED BY <1>1, <4>1
    <3>3. ~Start(w)
      BY <2>0 DEF Start, RegisterRead, RemoveRead, Activate, UpdateRead, Begin, Idle
    <3>4. ~Finish(w)
      BY <1>1, <2>0 DEF Finish, NoJob, At
    <3> QED BY <2>0, <3>1, <3>2, <3>3, <3>4 DEF Proceed, Abort, RegisterCreate, UpdateReadCandidate,
            UpdateWrite, RemoveWrite, AwardReadMember, AwardReadReferrer, AwardCredit, AwardReadCap, At
  <2>2. job'[w].at = "walk" /\ job'[w].op = "update"
    BY <1>1 DEF At
  <2>3. job'[w].visited = job[w].visited \cup {job[w].next} /\ job[w].next \notin job[w].visited
    BY <2>0, <2>1, <2>2 DEF UpdateWalk, ClosesLoop, Goto, Finish, NoJob, Job
  <2> QED BY <2>3
<1>2. TypeInv /\ [Next]_vars =>
        [\A w \in Workers :
           At(w, "update", "walk") /\ At(w, "update", "walk")' /\ job'[w] # job[w] =>
              job'[w].visited \ job[w].visited # {}]_vars
  BY <1>1
<1> QED BY <1>2, AlwaysTyped, PTL DEF Spec, WalkAdvances

-----------------------------------------------------------------------------
(* Points: the cap, and the balance.                                       *)

LEMMA LedgerSteps ==
    ASSUME TypeInv, EarnInv, Next \/ UNCHANGED vars
    PROVE  \/ ledger' = ledger /\ balance' = balance
           \/ \E m \in Members :
                 ledger' = {r \in ledger : r.m # m} /\ balance' = [balance EXCEPT ![m] = 0]
           \/ \E w \in Workers, c \in LedgerRow :
                 /\ job[w].op = "award" /\ job[w].at = "credit" /\ job'[w].op = "idle"
                 /\ c \notin ledger /\ c.status = "APPROVED" /\ c.m = job[w].ref /\ c.points = job[w].points
                 /\ ledger' = ledger \cup {c}
                 /\ balance' = [balance EXCEPT ![c.m] = @ + c.points]
<1>0. job \in [Workers -> Job] /\ \A w \in Workers : job[w] \in ShapedJob
  BY DEF TypeInv, TypeOK
<1>1. ASSUME NEW w \in Workers, RemoveWrite(w)
      PROVE  \/ ledger' = ledger /\ balance' = balance
             \/ \E m \in Members :
                   ledger' = {r \in ledger : r.m # m} /\ balance' = [balance EXCEPT ![m] = 0]
  <2>1. job[w].m \in Members
    BY <1>0, <1>1 DEF RemoveWrite, At, ShapedJob
  <2> QED BY <1>1, <2>1 DEF RemoveWrite, RowsLeft, points_vars
<1>2. ASSUME NEW w \in Workers, AwardCredit(w), ~(ledger' = ledger /\ balance' = balance)
      PROVE  \E c \in LedgerRow :
                 /\ job[w].op = "award" /\ job[w].at = "credit" /\ job'[w].op = "idle"
                 /\ c \notin ledger /\ c.status = "APPROVED" /\ c.m = job[w].ref /\ c.points = job[w].points
                 /\ ledger' = ledger \cup {c}
                 /\ balance' = [balance EXCEPT ![c.m] = @ + c.points]
  <2>1. /\ job[w].m \in Members /\ job[w].ref \in Members /\ job[w].points \in Nat
        /\ job[w].op = "award" /\ job[w].at = "credit"
    BY <1>0, <1>2 DEF AwardCredit, At, ShapedJob, Job
  <2> DEFINE c == NewRow(job[w].m, job[w].ref, job[w].points, "APPROVED")
  <2>2. c \in LedgerRow
    BY <2>1, NewRowType
  <2>3. c.source = job[w].m /\ c.status = "APPROVED" /\ c.m = job[w].ref /\ c.points = job[w].points
    BY DEF NewRow
  <2>4. \A r \in ledger : r.source # job[w].m
    BY <2>1 DEF EarnInv, AwardSound
  <2>5. ledger' = ledger \cup {c} /\ balance' = [balance EXCEPT ![job[w].ref] = @ + job[w].points]
    BY <1>2 DEF AwardCredit, CreditPoints, points_vars
  <2>6. job'[w].op = "idle"
    BY <1>0, <1>2 DEF AwardCredit, Finish, NoJob
  <2> HIDE DEF c
  <2> QED BY <2>1, <2>2, <2>3, <2>4, <2>5, <2>6
<1>3. CASE UNCHANGED points_vars
  BY <1>3 DEF points_vars
<1> QED BY <1>1, <1>2, <1>3
        DEF Next, Start, Proceed, RegisterRead, RemoveRead, Activate, UpdateRead, RegisterCreate, UpdateReadCandidate,
            UpdateWalk, UpdateWrite, AwardReadMember, AwardReadReferrer, AwardReadCap, Abort, Submit, SetStatus, vars

\* The total of a member after the steps that change the ledger.
LEMMA Totals ==
    ASSUME TypeInv, NEW m \in Members
    PROVE  /\ ReferralTotal(m) = RowSum(ledger, m) /\ ReferralTotal(m) \in Nat
           /\ \A n \in Members : RowSum({r \in ledger : r.m # n}, m) = IF n = m THEN 0 ELSE ReferralTotal(m)
           /\ \A c \in LedgerRow : c \notin ledger =>
                 RowSum(ledger \cup {c}, m) = IF c.m = m THEN ReferralTotal(m) + c.points ELSE ReferralTotal(m)
<1>1. IsFiniteSet(ledger) /\ \A r \in LedgerRow : r.points \in Nat
  BY DEF TypeInv, LedgerRow
<1>2. ledger \subseteq LedgerRow
  BY DEF TypeInv, TypeOK
<1>3. ReferralTotal(m) = RowSum(ledger, m)
  BY DEF ReferralTotal, SumOfPoints, RowSum
<1>4. ASSUME NEW n \in Members
      PROVE  RowSum({r \in ledger : r.m # n}, m) = IF n = m THEN 0 ELSE RowSum(ledger, m)
  <2> DEFINE R == {r \in ledger : r.m # n}
  <2>1. CASE n = m
    <3>1. {q \in R : q.m = m} = {}
      BY <2>1
    <3>2. RowSum(R, m) = 0
      BY <3>1, SumEmpty DEF RowSum
    <3> QED BY <2>1, <3>2
  <2>2. CASE n # m
    <3>1. {q \in R : q.m = m} = {q \in ledger : q.m = m}
      BY <2>2
    <3>2. RowSum(R, m) = RowSum(ledger, m)
      BY <3>1 DEF RowSum
    <3> QED BY <2>2, <3>2
  <2> QED BY <2>1, <2>2
<1>5. ASSUME NEW c \in LedgerRow, c \notin ledger
      PROVE  /\ RowSum(ledger, m) \in Nat
             /\ RowSum(ledger \cup {c}, m) = IF c.m = m THEN RowSum(ledger, m) + c.points ELSE RowSum(ledger, m)
  BY <1>1, <1>2, <1>5, SumOfRows
<1>6. RowSum(ledger, m) \in Nat
  <2> DEFINE S == {q \in ledger : q.m = m}
             f == [r \in S |-> r.points]
  <2>1. IsFiniteSet(S) /\ \A x \in S : f[x] \in Nat
    BY <1>1, <1>2, FS_Subset
  <2>2. SumFunctionOnSet(f, S) \in Nat
    <3> HIDE DEF S, f
    <3> QED BY <2>1, SumType
  <2> QED BY <2>2 DEF RowSum
<1> QED BY <1>3, <1>4, <1>5, <1>6

\* The cached balance is the sum of the member's approved rows, though a member
\* who is removed takes theirs along.
THEOREM BalancesSum == Spec => []BalanceIsSum
<1>1. Init => BalanceIsSum
  <2> SUFFICES ASSUME Init, NEW m \in Members PROVE balance[m] = SumOfPoints({r \in Approved : r.m = m})
    BY DEF BalanceIsSum
  <2>1. {r \in Approved : r.m = m} = {}
    BY DEF Init, Approved
  <2>2. SumOfPoints({}) = 0
    BY SumEmpty DEF SumOfPoints
  <2> QED BY <2>1, <2>2 DEF Init
<1>2. EarnInv => (BalanceIsSum <=> \A m \in Members : balance[m] = ReferralTotal(m))
  <2>1. EarnInv => Approved = ledger
    BY DEF EarnInv, EarnedByActivation, Approved
  <2> QED BY <2>1 DEF BalanceIsSum, ReferralTotal
<1>3. TypeInv /\ TypeInv' /\ EarnInv /\ EarnInv' /\ BalanceIsSum /\ [Next]_vars => BalanceIsSum'
  <2> SUFFICES ASSUME TypeInv, TypeInv', EarnInv, EarnInv', BalanceIsSum, Next \/ UNCHANGED vars,
                      NEW m \in Members
               PROVE  balance'[m] = ReferralTotal(m)'
    <3>1. EarnInv' => Approved' = ledger'
      BY DEF EarnInv, EarnedByActivation, Approved
    <3>2. ASSUME EarnInv', \A m \in Members : balance'[m] = ReferralTotal(m)' PROVE BalanceIsSum'
      BY <3>1, <3>2 DEF BalanceIsSum, ReferralTotal
    <3> QED BY <3>2
  <2>5. balance[m] = ReferralTotal(m)
    BY <1>2
  <2>0. balance \in [Members -> Nat]
    BY DEF TypeInv, TypeOK
  <2>1. ReferralTotal(m)' = RowSum(ledger', m)
    BY DEF ReferralTotal, SumOfPoints, RowSum
  <2>2. CASE ledger' = ledger /\ balance' = balance
    BY <2>1, <2>2, <2>5, Totals
  <2>3. ASSUME NEW n \in Members, ledger' = {r \in ledger : r.m # n}, balance' = [balance EXCEPT ![n] = 0]
        PROVE  balance'[m] = ReferralTotal(m)'
    <3>1. RowSum(ledger', m) = IF n = m THEN 0 ELSE ReferralTotal(m)
      BY <2>3, Totals
    <3> QED BY <2>0, <2>1, <2>3, <2>5, <3>1
  <2>4. ASSUME NEW c \in LedgerRow, c \notin ledger, ledger' = ledger \cup {c},
               balance' = [balance EXCEPT ![c.m] = @ + c.points]
        PROVE  balance'[m] = ReferralTotal(m)'
    <3>1. RowSum(ledger', m) = IF c.m = m THEN ReferralTotal(m) + c.points ELSE ReferralTotal(m)
      BY <2>4, Totals
    <3> QED BY <2>0, <2>1, <2>4, <2>5, <3>1
  <2> QED BY <2>2, <2>3, <2>4, LedgerSteps
<1>4. Init => TypeInv /\ EarnInv
  BY InitType, InitEarn
<1>5. TypeInv /\ EarnInv /\ [Next]_vars => TypeInv' /\ EarnInv'
  BY NextType, NextEarn
<1> QED BY <1>1, <1>3, <1>4, <1>5, PTL DEF Spec

\* Unless two awards overlapped: nobody is over the cap, and the award under way,
\* the only one, leaves them under it.
CapInv ==
    "award" \notin overlapped =>
        /\ \A m \in Members : ReferralTotal(m) <= Cap
        /\ \A v, w \in Workers : job[v].op = "award" /\ job[w].op = "award" => v = w
        /\ \A w \in Workers : job[w].op = "award" /\ job[w].at = "credit" =>
              ReferralTotal(job[w].ref) + job[w].points <= Cap

\* What an award under way just did.
LEMMA AwardSteps ==
    ASSUME TypeInv, Next \/ UNCHANGED vars, NEW w \in Workers, job'[w].op = "award", job'[w] # job[w]
    PROVE  \/ /\ job'[w].at = "member" /\ ledger' = ledger
              /\ "award" \notin overlapped' => \A v \in Workers : job[v].op # "award"
              /\ \A v \in Workers \ {w} : job'[v] = job[v]
           \/ /\ job[w].op = "award" /\ ledger' = ledger
              /\ \A v \in Workers \ {w} : job'[v] = job[v]
              /\ job'[w].at = "credit" => /\ job'[w].ref = job[w].ref /\ job[w].ref \in Members
                                          /\ \E n \in AwardPoints :
                                                job'[w].points = applyReferralCap(n, ReferralTotal(job[w].ref))
<1>0. job \in [Workers -> Job] /\ job[w] \in Job /\ job[w] \in ShapedJob
  BY DEF TypeInv, TypeOK
<1>1. ASSUME NEW v \in Workers, NEW j, job' = [job EXCEPT ![v] = j]
      PROVE  v = w /\ j = job'[w] /\ \A u \in Workers \ {w} : job'[u] = job[u]
  BY <1>0, <1>1
<1>2. ASSUME NEW v \in Workers, Finish(v) PROVE FALSE
  BY <1>1, <1>2 DEF Finish, NoJob
<1>3. ASSUME NEW v \in Workers, NEW at, Goto(v, at)
      PROVE  /\ v = w /\ job'[w] = [job[w] EXCEPT !.at = at] /\ job'[w].at = at /\ job'[w].op = job[w].op
             /\ \A u \in Workers \ {w} : job'[u] = job[u]
  <2>1. v = w /\ job'[w] = [job[w] EXCEPT !.at = at] /\ \A u \in Workers \ {w} : job'[u] = job[u]
    BY <1>1, <1>3 DEF Goto
  <2> QED BY <1>0, <2>1 DEF Job
<1>4. ASSUME NEW v \in Workers, NEW m \in Members, Activate(v, m)
      PROVE  /\ job'[w].at = "member" /\ ledger' = ledger
             /\ "award" \notin overlapped' => \A u \in Workers : job[u].op # "award"
             /\ \A u \in Workers \ {w} : job'[u] = job[u]
  <2> DEFINE j == [NoJob EXCEPT !.op = "award", !.at = "member", !.m = m]
  <2>1. j.op = "award" /\ j.at = "member"
    BY DEF NoJob
  <2>2. job' = [job EXCEPT ![v] = j] /\ ledger' = ledger
    BY <1>4 DEF Activate, Begin, points_vars
  <2>3. overlapped' = overlapped \cup ({j.op} \cap {"update", "award"} \cap {job[u].op : u \in Workers})
    BY <1>4 DEF Activate, Begin
  <2>4. "award" \notin overlapped' => \A u \in Workers : job[u].op # "award"
    BY <2>1, <2>3
  <2> HIDE DEF j
  <2> QED BY <1>1, <2>1, <2>2, <2>4
<1>5. ASSUME NEW v \in Workers, Start(v), ~(\E m \in Members : Activate(v, m)) PROVE FALSE
  <2>1. ASSUME NEW m \in Members, RegisterRead(v, m) PROVE FALSE
    BY <1>1, <2>1 DEF RegisterRead, Begin, NoJob
  <2>2. ASSUME NEW m \in Members, RemoveRead(v, m) PROVE FALSE
    BY <1>1, <2>2 DEF RemoveRead, Begin, NoJob
  <2>3. ASSUME NEW m \in Members, NEW ref \in Members \cup {None}, UpdateRead(v, m, ref) PROVE FALSE
    BY <1>1, <2>3 DEF UpdateRead, Begin, NoJob
  <2> QED BY <1>5, <2>1, <2>2, <2>3 DEF Start
<1>6. ASSUME NEW v \in Workers, UpdateReadCandidate(v) \/ UpdateWalk(v) PROVE FALSE
  <2>1. v = w /\ job[w].op = "update"
    <3>1. \E j : job' = [job EXCEPT ![v] = j]
      BY <1>6 DEF UpdateReadCandidate, UpdateWalk, Goto, Finish
    <3> QED BY <1>1, <1>6, <3>1 DEF UpdateReadCandidate, UpdateWalk, At
  <2>2. job'[w].op = job[w].op
    BY <1>0, <1>2, <1>3, <1>6, <2>1 DEF UpdateReadCandidate, UpdateWalk, Job
  <2> QED BY <2>1, <2>2
<1>7. ASSUME NEW v \in Workers, AwardReadMember(v) \/ AwardReadReferrer(v)
      PROVE  /\ job[w].op = "award" /\ ledger' = ledger /\ job'[w].at # "credit"
             /\ \A u \in Workers \ {w} : job'[u] = job[u]
  <2>1. CASE AwardReadMember(v)
    <3>1. job' = [job EXCEPT ![v].at = "referrer", ![v].ref = referrer[job[v].m]]
      BY <1>2, <2>1 DEF AwardReadMember
    <3>2. v = w /\ \A u \in Workers \ {w} : job'[u] = job[u]
      BY <1>1, <3>1, ZenonT(40)
    <3> QED BY <1>0, <2>1, <3>1, <3>2 DEF AwardReadMember, At, points_vars, Job
  <2>2. CASE AwardReadReferrer(v)
    BY <1>2, <1>3, <2>2 DEF AwardReadReferrer, At, points_vars
  <2> QED BY <1>7, <2>1, <2>2
<1>8. ASSUME NEW v \in Workers, NEW n \in AwardPoints, AwardReadCap(v, n)
      PROVE  /\ job[w].op = "award" /\ ledger' = ledger
             /\ \A u \in Workers \ {w} : job'[u] = job[u]
             /\ job'[w].ref = job[w].ref /\ job[w].ref \in Members
             /\ job'[w].points = applyReferralCap(n, ReferralTotal(job[w].ref))
  <2> DEFINE p == applyReferralCap(n, ReferralTotal(job[v].ref))
             j == [job[v] EXCEPT !.at = "credit", !.points = p]
  <2>1. job' = [job EXCEPT ![v] = j]
    BY <1>0, <1>2, <1>8 DEF AwardReadCap
  <2> HIDE DEF p, j
  <2>2. v = w /\ j = job'[w] /\ \A u \in Workers \ {w} : job'[u] = job[u]
    BY <1>1, <2>1
  <2>3. job'[w].ref = job[w].ref /\ job'[w].points = p
    BY <1>0, <2>2 DEF Job, j
  <2> QED BY <1>0, <1>8, <2>2, <2>3 DEF AwardReadCap, At, points_vars, p, ShapedJob
<1>9. job' # job
  OBVIOUS
<1>10. ASSUME NEW v \in Workers, Start(v) \/ Proceed(v) \/ Abort(v)
       PROVE  \/ \E m \in Members : Activate(v, m)
              \/ AwardReadMember(v) \/ AwardReadReferrer(v) \/ \E n \in AwardPoints : AwardReadCap(v, n)
  BY <1>2, <1>5, <1>6, <1>10 DEF Proceed, Abort, RegisterCreate, UpdateWrite, RemoveWrite, AwardCredit
<1> QED BY <1>4, <1>7, <1>8, <1>9, <1>10 DEF Next, Submit, SetStatus, vars

\* Only the award that is about to credit lifts a total.
LEMMA TotalSteps ==
    ASSUME TypeInv, EarnInv, Next \/ UNCHANGED vars, NEW m \in Members
    PROVE  \/ ReferralTotal(m)' \in Nat /\ ReferralTotal(m)' <= ReferralTotal(m)
           \/ \E w \in Workers : /\ job[w].op = "award" /\ job[w].at = "credit" /\ job'[w].op = "idle"
                                 /\ job[w].ref = m /\ ReferralTotal(m)' = ReferralTotal(m) + job[w].points
<1>1. ReferralTotal(m)' = RowSum(ledger', m)
  BY DEF ReferralTotal, SumOfPoints, RowSum
<1>2. CASE ledger' = ledger
  BY <1>1, <1>2, Totals
<1>3. ASSUME NEW n \in Members, ledger' = {r \in ledger : r.m # n}
      PROVE  ReferralTotal(m)' \in Nat /\ ReferralTotal(m)' <= ReferralTotal(m)
  <2>1. RowSum(ledger', m) = IF n = m THEN 0 ELSE ReferralTotal(m)
    BY <1>3, Totals
  <2> QED BY <1>1, <2>1, Totals
<1>4. ASSUME NEW w \in Workers, NEW c \in LedgerRow,
             job[w].op = "award", job[w].at = "credit", job'[w].op = "idle",
             c \notin ledger, c.m = job[w].ref, c.points = job[w].points, ledger' = ledger \cup {c}
      PROVE  \/ ReferralTotal(m)' \in Nat /\ ReferralTotal(m)' <= ReferralTotal(m)
             \/ job[w].ref = m /\ ReferralTotal(m)' = ReferralTotal(m) + job[w].points
  <2>1. RowSum(ledger', m) = IF c.m = m THEN ReferralTotal(m) + c.points ELSE ReferralTotal(m)
    BY <1>4, Totals
  <2> QED BY <1>1, <1>4, <2>1, Totals
<1> QED BY <1>2, <1>3, <1>4, LedgerSteps

LEMMA InitCap == Init => CapInv
<1> SUFFICES ASSUME Init PROVE CapInv
  OBVIOUS
<1>1. TypeInv
  BY InitType
<1>2. ASSUME NEW m \in Members PROVE ReferralTotal(m) = 0
  <2>1. {r \in ledger : r.m = m} = {}
    BY DEF Init
  <2> QED BY <2>1, SumEmpty DEF ReferralTotal, SumOfPoints
<1> QED BY <1>2 DEF Init, CapInv, NoJob

LEMMA NextCap ==
    ASSUME TypeInv, TypeInv', EarnInv, CapInv, Next \/ UNCHANGED vars
    PROVE  CapInv'
<1> SUFFICES ASSUME "award" \notin overlapped'
             PROVE  /\ \A m \in Members : ReferralTotal(m)' <= Cap
                    /\ \A v, w \in Workers : job'[v].op = "award" /\ job'[w].op = "award" => v = w
                    /\ \A w \in Workers : job'[w].op = "award" /\ job'[w].at = "credit" =>
                          (ReferralTotal(job[w].ref) + job[w].points <= Cap)'
  BY DEF CapInv
<1>1. /\ \A m \in Members : ReferralTotal(m) <= Cap
      /\ \A v, w \in Workers : job[v].op = "award" /\ job[w].op = "award" => v = w
      /\ \A w \in Workers : job[w].op = "award" /\ job[w].at = "credit" =>
            ReferralTotal(job[w].ref) + job[w].points <= Cap
  <2>1. overlapped \subseteq overlapped'
    <3>1. ASSUME NEW w \in Workers, NEW j, Begin(w, j) PROVE overlapped \subseteq overlapped'
      BY <3>1 DEF Begin
    <3>2. ASSUME NEW w \in Workers, Start(w) PROVE overlapped \subseteq overlapped'
      BY <3>1, <3>2 DEF Start, RegisterRead, RemoveRead, Activate, UpdateRead
    <3>3. ASSUME NEW w \in Workers, Proceed(w) \/ Abort(w) PROVE overlapped' = overlapped
      BY <3>3 DEF Proceed, RegisterCreate, RemoveWrite, UpdateReadCandidate, UpdateWalk, UpdateWrite,
                  AwardReadMember, AwardReadReferrer, AwardReadCap, AwardCredit, Abort
    <3>4. ASSUME NEW m \in Members, Submit(m) PROVE overlapped' = overlapped
      BY <3>4 DEF Submit, SetStatus
    <3> QED BY <3>2, <3>3, <3>4 DEF Next, vars
  <2> QED BY <2>1 DEF CapInv
<1>2. ASSUME NEW m \in Members PROVE ReferralTotal(m) \in Nat
  BY <1>2, Totals
<1>3. ASSUME NEW m \in Members PROVE ReferralTotal(m)' <= Cap
  <2>1. ReferralTotal(m) \in Nat /\ ReferralTotal(m) <= Cap /\ Cap \in Nat
    BY <1>1, <1>2
  <2> QED BY <1>1, <2>1, TotalSteps
<1>4. ASSUME NEW v \in Workers, NEW w \in Workers, job'[v].op = "award", job'[w].op = "award", v # w
      PROVE  FALSE
  <2>1. CASE job'[v] = job[v] /\ job'[w] = job[w]
    BY <1>1, <1>4, <2>1
  <2>2. ASSUME NEW a \in Workers, NEW b \in Workers, a # b, job'[a].op = "award", job'[b].op = "award", job'[a] # job[a]
        PROVE  FALSE
    <3>1. job'[b] = job[b]
      BY <2>2, AwardSteps
    <3> QED BY <1>1, <2>2, <3>1, AwardSteps
  <2> QED BY <1>4, <2>1, <2>2
<1>5. ASSUME NEW w \in Workers, job'[w].op = "award", job'[w].at = "credit"
      PROVE  (ReferralTotal(job[w].ref) + job[w].points <= Cap)'
  <2>0. job[w] \in Job /\ job'[w] \in Job /\ job'[w] \in ShapedJob
    BY DEF TypeInv, TypeOK
  <2>1. job'[w].ref \in Members /\ job'[w].points \in Nat
    BY <1>5, <2>0 DEF ShapedJob, Job
  <2>2. PICK m \in Members : m = job'[w].ref
    BY <2>1
  <2>3. CASE job'[w] = job[w]
    <3>1. ReferralTotal(m)' \in Nat /\ ReferralTotal(m)' <= ReferralTotal(m)
      <4>1. ASSUME NEW v \in Workers, job[v].op = "award", job'[v].op = "idle" PROVE FALSE
        <5>1. v = w
          BY <1>1, <1>5, <2>3, <4>1
        <5> QED BY <1>5, <4>1, <5>1
      <4> QED BY <4>1, TotalSteps
    <3>2. ReferralTotal(m) + job'[w].points <= Cap
      BY <1>1, <1>5, <2>2, <2>3
    <3>3. ReferralTotal(m)' + job'[w].points <= Cap
      BY <1>2, <2>1, <3>1, <3>2
    <3> QED BY <2>2, <3>3
  <2>4. CASE job'[w] # job[w]
    <3>1. PICK n \in AwardPoints :
              /\ job'[w].ref = job[w].ref /\ ledger' = ledger
              /\ job'[w].points = applyReferralCap(n, ReferralTotal(job[w].ref))
      BY <1>5, <2>4, AwardSteps
    <3>2. job'[w].points = applyReferralCap(n, ReferralTotal(m))
      BY <2>2, <3>1
    <3>3. n \in Nat /\ Cap \in Nat /\ ReferralTotal(m) \in Nat
      BY <1>2
    <3>4. ReferralTotal(m) + job'[w].points <= Cap
      BY <3>2, <3>3 DEF applyReferralCap
    <3>5. ReferralTotal(m)' = ReferralTotal(m)
      BY <3>1 DEF ReferralTotal
    <3> QED BY <2>2, <3>4, <3>5
  <2> QED BY <2>3, <2>4
<1> QED BY <1>3, <1>4, <1>5

\* applyReferralCap: unless two awards overlapped, nobody's referrals have earned
\* them more than the cap, whoever is removed meanwhile.
THEOREM CapKept == Spec => []CapRespected
<1>1. CapInv => CapRespected
  BY DEF CapInv, CapRespected
<1>2. Init => TypeInv /\ EarnInv /\ CapInv
  BY InitType, InitEarn, InitCap
<1>3. TypeInv /\ EarnInv /\ CapInv /\ [Next]_vars => TypeInv' /\ EarnInv' /\ CapInv'
  BY NextType, NextEarn, NextCap
<1> QED BY <1>1, <1>2, <1>3, PTL DEF Spec
=============================================================================
