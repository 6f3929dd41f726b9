---------------------------- MODULE Accounts_proofs ----------------------------
(***************************************************************************)
(* Proofs about Accounts, for any members, handlers at work, numbers, emails  *)
(* and bounds.                                                             *)
(***************************************************************************)
EXTENDS Accounts, FiniteSetTheorems, TLAPS

USE NoneAssumption, EmailAssumption, BoundsAssumption

-----------------------------------------------------------------------------
(* Type correctness.                                                       *)

\* What a handler remembers, and which are its steps.
ShapedJob ==
    {j \in Job :
        /\ j.op = "idle" => j.at = "start"
        /\ j.op = "create" => j.at = "insert" /\ j.mobile \in Mobiles
        /\ j.op = "register" => j.at \in {"system", "account", "insert"} /\ j.mobile \in Mobiles
        /\ j.op = "mobile" => j.at = "write" /\ j.m \in Members /\ j.mobile \in Mobiles
        /\ j.op = "promote" => j.at \in {"account", "cas", "undo"} /\ j.m \in Members /\ j.email \in Emails
        /\ j.op = "code" => j.at \in {"check", "write"} /\ j.m \in Members
        /\ j.op = "request" => j.at \in {"invalidate", "insert code", "sms"} /\ j.m \in Members
        /\ j.op = "confirm" => j.at \in {"wrong", "cas", "password"} /\ j.m \in Members}

TypeInv ==
    /\ TypeOK /\ job \in [Workers -> ShapedJob]
    /\ \A w \in Workers : job[w].op = "confirm" \/ job[w].at = "sms" => job[w].r \in DOMAIN reset

LEMMA NoJobType == NoJob \in Job /\ NoJob \in ShapedJob
  BY DEF NoJob, Job, ShapedJob

\* A handler whose job changes leaves those of the others.
LEMMA JobUpdate ==
    ASSUME TypeInv, NEW w \in Workers, NEW j \in ShapedJob, job' = [job EXCEPT ![w] = j]
    PROVE  /\ job' \in [Workers -> ShapedJob] /\ job' \in [Workers -> Job]
           /\ job'[w] = j /\ \A v \in Workers : v # w => job'[v] = job[v]
<1>1. job' \in [Workers -> ShapedJob]
  BY DEF TypeInv
<1>2. ShapedJob \subseteq Job
  BY DEF ShapedJob
<1> QED BY <1>1, <1>2 DEF TypeInv

\* How far a handler goes with a step of its own: on, with what it remembers, or
\* to its end.
Follows(j, k) ==
    \/ k = NoJob
    \/ /\ k \in ShapedJob /\ k.op = j.op /\ k.m = j.m /\ k.mobile = j.mobile /\ k.email = j.email /\ k.n = j.n
       /\ k.at = "sms" \/ k.r = j.r

LEMMA FinishFollows ==
    ASSUME TypeInv, NEW w \in Workers, Finish(w)
    PROVE  job' = [job EXCEPT ![w] = NoJob] /\ UNCHANGED <<started, overlapped, aborts>>
  BY DEF Finish

LEMMA GotoFollows ==
    ASSUME TypeInv, NEW w \in Workers, NEW at, Goto(w, at),
           \/ job[w].op = "register" /\ at = "account"
           \/ job[w].op = "promote" /\ at \in {"cas", "undo"}
           \/ job[w].op = "code" /\ at = "write"
           \/ job[w].op = "request" /\ at = "insert code"
           \/ job[w].op = "confirm" /\ at = "password"
    PROVE  /\ [job[w] EXCEPT !.at = at] \in ShapedJob
           /\ job' = [job EXCEPT ![w] = [job[w] EXCEPT !.at = at]]
           /\ UNCHANGED <<started, overlapped, aborts>>
<1>1. job[w] \in ShapedJob /\ job[w] \in Job
  BY DEF TypeInv, ShapedJob
<1>2. [job[w] EXCEPT !.at = at] \in ShapedJob
  BY <1>1 DEF ShapedJob, Job
<1> QED BY <1>2 DEF Goto, TypeInv

LEMMA InsertForFollows ==
    ASSUME TypeInv, NEW w \in Workers, NEW id \in Nat, GotoInsertFor(w, id), job[w].op = "register"
    PROVE  /\ [job[w] EXCEPT !.at = "insert", !.u = id] \in ShapedJob
           /\ job' = [job EXCEPT ![w] = [job[w] EXCEPT !.at = "insert", !.u = id]]
           /\ UNCHANGED <<started, overlapped, aborts>>
<1>1. job[w] \in ShapedJob /\ job[w] \in Job
  BY DEF TypeInv, ShapedJob
<1>2. [job[w] EXCEPT !.at = "insert", !.u = id] \in ShapedJob
  BY <1>1 DEF ShapedJob, Job
<1> QED BY <1>2 DEF GotoInsertFor, TypeInv

\* Every step of a handler under way takes its job where Follows says.
LEMMA ProceedFollows ==
    ASSUME TypeInv, NEW w \in Workers, Proceed(w) \/ Abort(w)
    PROVE  \E k \in ShapedJob :
              /\ Follows(job[w], k) /\ job' = [job EXCEPT ![w] = k]
              /\ UNCHANGED <<started, overlapped>>
              /\ k.at = "sms" => RequestInsert(w) /\ k.r = Len(reset) + 1
<1>0. NoJob \in ShapedJob /\ Follows(job[w], NoJob) /\ NoJob.at # "sms"
  BY NoJobType DEF Follows, NoJob
<1>1. CASE \/ \E m \in Members : InsertMember(w, m)
           \/ MobileWrite(w) \/ PromoteUndo(w) \/ CodeWrite(w) \/ RequestSms(w) \/ ConfirmWrong(w)
           \/ ConfirmWrite(w) \/ Abort(w)
  <2>1. job' = [job EXCEPT ![w] = NoJob] /\ UNCHANGED <<started, overlapped>>
    BY <1>1 DEF InsertMember, MobileWrite, PromoteUndo, CodeWrite, RequestSms, ConfirmWrong, ConfirmWrite,
       Abort, Finish
  <2> QED BY <1>0, <2>1
<1>2. ASSUME Finish(w) PROVE job' = [job EXCEPT ![w] = NoJob] /\ UNCHANGED <<started, overlapped>>
  BY <1>2 DEF Finish
<1>3. ASSUME NEW at, Goto(w, at),
             \/ job[w].op = "register" /\ at = "account"
             \/ job[w].op = "promote" /\ at \in {"cas", "undo"}
             \/ job[w].op = "code" /\ at = "write"
             \/ job[w].op = "request" /\ at = "insert code"
             \/ job[w].op = "confirm" /\ at = "password"
      PROVE  \E k \in ShapedJob :
                /\ Follows(job[w], k) /\ job' = [job EXCEPT ![w] = k] /\ UNCHANGED <<started, overlapped>>
                /\ k.at # "sms"
  <2> DEFINE k == [job[w] EXCEPT !.at = at]
  <2>1. k \in ShapedJob /\ job' = [job EXCEPT ![w] = k] /\ UNCHANGED <<started, overlapped>>
    BY <1>3, GotoFollows
  <2>2. job[w] \in Job
    BY DEF TypeInv, ShapedJob
  <2>3. k.op = job[w].op /\ k.m = job[w].m /\ k.mobile = job[w].mobile /\ k.email = job[w].email /\ k.n = job[w].n
        /\ k.r = job[w].r /\ k.at # "sms"
    BY <1>3, <2>2 DEF Job
  <2> HIDE DEF k
  <2>4. Follows(job[w], k)
    BY <2>1, <2>3 DEF Follows
  <2> QED BY <2>1, <2>3, <2>4
<1>4. ASSUME NEW id \in Nat, GotoInsertFor(w, id), job[w].op = "register"
      PROVE  \E k \in ShapedJob :
                /\ Follows(job[w], k) /\ job' = [job EXCEPT ![w] = k] /\ UNCHANGED <<started, overlapped>>
                /\ k.at # "sms"
  <2> DEFINE k == [job[w] EXCEPT !.at = "insert", !.u = id]
  <2>1. k \in ShapedJob /\ job' = [job EXCEPT ![w] = k] /\ UNCHANGED <<started, overlapped>>
    BY <1>4, InsertForFollows
  <2>2. job[w] \in Job
    BY DEF TypeInv, ShapedJob
  <2>3. k.op = job[w].op /\ k.m = job[w].m /\ k.mobile = job[w].mobile /\ k.email = job[w].email /\ k.n = job[w].n
        /\ k.r = job[w].r /\ k.at # "sms"
    BY <2>2 DEF Job
  <2> HIDE DEF k
  <2>4. Follows(job[w], k)
    BY <2>1, <2>3 DEF Follows
  <2> QED BY <2>1, <2>3, <2>4
<1>5. CASE RegisterFindSystem(w) \/ RegisterCreateSystem(w)
  <2>1. \A u \in SystemUsers : u.id \in Nat
    BY DEF SystemUsers, TypeInv, TypeOK, User
  <2>2. job[w].op = "register" /\ job[w].n \in Nat
    BY <1>5 DEF RegisterFindSystem, RegisterCreateSystem, At, TypeInv, TypeOK, Job
  <2>3. Goto(w, "account") \/ \E id \in Nat : GotoInsertFor(w, id)
    BY <1>5, <2>1, <2>2 DEF RegisterFindSystem, RegisterCreateSystem
  <2> QED BY <1>3, <1>4, <2>2, <2>3
<1>6. CASE PromoteCreateUser(w) \/ PromoteCas(w)
  <2>1. job[w].op = "promote" /\ (Finish(w) \/ Goto(w, "cas") \/ Goto(w, "undo"))
    BY <1>6 DEF PromoteCreateUser, PromoteCas, At
  <2> QED BY <1>0, <1>2, <1>3, <2>1
<1>7. CASE CodeCheck(w)
  <2>1. job[w].op = "code" /\ (Finish(w) \/ Goto(w, "write"))
    BY <1>7 DEF CodeCheck, At
  <2> QED BY <1>0, <1>2, <1>3, <2>1
<1>8. CASE RequestInvalidate(w)
  <2>1. job[w].op = "request" /\ Goto(w, "insert code")
    BY <1>8 DEF RequestInvalidate, At
  <2> QED BY <1>3, <2>1
<1>9. CASE ConfirmCas(w)
  <2>1. job[w].op = "confirm" /\ (Finish(w) \/ Goto(w, "password"))
    BY <1>9 DEF ConfirmCas, At
  <2> QED BY <1>0, <1>2, <1>3, <2>1
<1>10. CASE RequestInsert(w)
  <2> DEFINE k == [job[w] EXCEPT !.at = "sms", !.r = Len(reset) + 1]
  <2>0. job[w] \in ShapedJob /\ job[w] \in Job /\ job[w].op = "request"
    BY <1>10 DEF RequestInsert, At, TypeInv, ShapedJob
  <2>1. Len(reset) + 1 \in Nat
    BY DEF TypeInv, TypeOK
  <2>2. k \in ShapedJob
    BY <2>0, <2>1 DEF ShapedJob, Job
  <2>3. job' = [job EXCEPT ![w] = k] /\ UNCHANGED <<started, overlapped>>
    BY <1>10 DEF RequestInsert, TypeInv
  <2>4. Follows(job[w], k) /\ k.r = Len(reset) + 1
    BY <2>0, <2>2 DEF Follows, Job
  <2> HIDE DEF k
  <2> QED BY <1>10, <2>2, <2>3, <2>4
<1> QED BY <1>1, <1>5, <1>6, <1>7, <1>8, <1>9, <1>10 DEF Proceed

\* What a handler remembers when it begins.
Begun(w, k) ==
    /\ k \in ShapedJob /\ k.op # "idle" /\ k.n = started + 1
    /\ job[w].op = "idle" /\ job' = [job EXCEPT ![w] = k] /\ started' = started + 1
    /\ overlapped' = overlapped \cup ({Kind(k.op)} \cap {Kind(job[v].op) : v \in Workers})
    /\ UNCHANGED <<rows, aborts>>

LEMMA BeginBegun ==
    ASSUME TypeInv, NEW w \in Workers, NEW j \in ShapedJob, j.op # "idle", Begin(w, j)
    PROVE  Begun(w, [j EXCEPT !.n = started + 1])
<1>0. started + 1 \in Nat
  BY DEF TypeInv, TypeOK
<1>1. j \in Job
  BY DEF ShapedJob
<1> DEFINE k == [j EXCEPT !.n = started + 1]
<1>2. k \in Job /\ k.op = j.op /\ k.at = j.at /\ k.m = j.m /\ k.mobile = j.mobile /\ k.email = j.email
      /\ k.n = started + 1
  BY <1>0, <1>1 DEF Job
<1>3. k \in ShapedJob
  BY <1>2 DEF ShapedJob
<1>4. job' = [job EXCEPT ![w] = k]
  BY DEF Begin
<1> HIDE DEF k
<1>5. Begun(w, k)
  BY <1>2, <1>3, <1>4 DEF Begun, Begin, Idle
<1> QED BY <1>5 DEF k

\* What a handler has found when it begins.
Found(k) ==
    /\ k.op \in {"create", "register"} => \A o \in Members : Exists(o) => member[o].mobile # k.mobile
    /\ k.op = "mobile" => \A o \in Members \ {k.m} : Exists(o) => member[o].mobile # k.mobile
    /\ k.op = "create" => k.u = 0
    /\ k.op = "register" => k.at = "system"
    /\ k.op = "promote" => k.at = "account"
    /\ k.op = "code" => k.at = "check" /\ Exists(k.m)
    /\ k.op = "request" => k.at = "invalidate"
    /\ k.op = "confirm" =>
        /\ k.r \in DOMAIN reset /\ k.at \in {"wrong", "cas"}
        /\ k.at = "wrong" => reset[k.r].attempts < MaxResetAttempts

LEMMA StartBegun ==
    ASSUME TypeInv, NEW w \in Workers, Start(w)
    PROVE  \E k \in ShapedJob : Begun(w, k) /\ Found(k)
<1>1. ASSUME NEW j \in ShapedJob, j.op # "idle", Begin(w, j), Found(j)
      PROVE  \E k \in ShapedJob : Begun(w, k) /\ Found(k)
  <2> DEFINE k == [j EXCEPT !.n = started + 1]
  <2>1. Begun(w, k)
    BY <1>1, BeginBegun
  <2>2. k.op = j.op /\ k.at = j.at /\ k.m = j.m /\ k.mobile = j.mobile /\ k.r = j.r /\ k.u = j.u
    BY <1>1 DEF ShapedJob, Job
  <2> HIDE DEF k
  <2>3. Found(k)
    BY <1>1, <2>2 DEF Found
  <2> QED BY <2>1, <2>3 DEF Begun
<1>2. ASSUME NEW p \in Mobiles, CreateRead(w, p)
      PROVE  \E k \in ShapedJob : Begun(w, k) /\ Found(k)
  <2> DEFINE j == [NoJob EXCEPT !.op = "create", !.at = "insert", !.mobile = p]
  <2>1. j \in ShapedJob /\ j.op = "create" /\ j.mobile = p /\ j.u = 0
    BY DEF NoJob, ShapedJob, Job
  <2>2. Begin(w, j) /\ ~MobileTaken(p, None)
    BY <1>2 DEF CreateRead
  <2> HIDE DEF j
  <2>3. Found(j)
    BY <2>1, <2>2 DEF Found, MobileTaken
  <2> QED BY <1>1, <2>1, <2>2, <2>3
<1>3. ASSUME NEW p \in Mobiles, RegisterRead(w, p)
      PROVE  \E k \in ShapedJob : Begun(w, k) /\ Found(k)
  <2> DEFINE j == [NoJob EXCEPT !.op = "register", !.at = "system", !.mobile = p]
  <2>1. j \in ShapedJob /\ j.op = "register" /\ j.mobile = p /\ j.at = "system"
    BY DEF NoJob, ShapedJob, Job
  <2>2. Begin(w, j) /\ ~MobileTaken(p, None)
    BY <1>3 DEF RegisterRead
  <2> HIDE DEF j
  <2>3. Found(j)
    BY <2>1, <2>2 DEF Found, MobileTaken
  <2> QED BY <1>1, <2>1, <2>2, <2>3
<1>4. ASSUME NEW m \in Members, NEW p \in Mobiles, MobileRead(w, m, p)
      PROVE  \E k \in ShapedJob : Begun(w, k) /\ Found(k)
  <2> DEFINE j == [NoJob EXCEPT !.op = "mobile", !.at = "write", !.m = m, !.mobile = p]
  <2>1. j \in ShapedJob /\ j.op = "mobile" /\ j.mobile = p /\ j.m = m
    BY DEF NoJob, ShapedJob, Job
  <2>2. Begin(w, j) /\ ~MobileTaken(p, m)
    BY <1>4 DEF MobileRead
  <2> HIDE DEF j
  <2>3. Found(j)
    BY <2>1, <2>2 DEF Found, MobileTaken
  <2> QED BY <1>1, <2>1, <2>2, <2>3
<1>5. ASSUME NEW m \in Members, NEW e \in Emails, PromoteRead(w, m, e)
      PROVE  \E k \in ShapedJob : Begun(w, k) /\ Found(k)
  <2> DEFINE j == [NoJob EXCEPT !.op = "promote", !.at = "account", !.m = m, !.email = e]
  <2>1. j \in ShapedJob /\ j.op = "promote" /\ j.at = "account"
    BY DEF NoJob, ShapedJob, Job
  <2>2. Begin(w, j)
    BY <1>5 DEF PromoteRead
  <2> HIDE DEF j
  <2>3. Found(j)
    BY <2>1 DEF Found
  <2> QED BY <1>1, <2>1, <2>2, <2>3
<1>6. ASSUME NEW m \in Members, CodeRead(w, m)
      PROVE  \E k \in ShapedJob : Begun(w, k) /\ Found(k)
  <2> DEFINE j == [NoJob EXCEPT !.op = "code", !.at = "check", !.m = m]
  <2>1. j \in ShapedJob /\ j.op = "code" /\ j.at = "check" /\ j.m = m
    BY DEF NoJob, ShapedJob, Job
  <2>2. Begin(w, j) /\ Exists(m)
    BY <1>6 DEF CodeRead, Exists
  <2> HIDE DEF j
  <2>3. Found(j)
    BY <2>1, <2>2 DEF Found
  <2> QED BY <1>1, <2>1, <2>2, <2>3
<1>7. ASSUME NEW m \in Members, RequestCode(w, m)
      PROVE  \E k \in ShapedJob : Begun(w, k) /\ Found(k)
  <2> DEFINE j == [NoJob EXCEPT !.op = "request", !.at = "invalidate", !.m = m]
  <2>1. j \in ShapedJob /\ j.op = "request" /\ j.at = "invalidate"
    BY DEF NoJob, ShapedJob, Job
  <2>2. Begin(w, j)
    BY <1>7 DEF RequestCode
  <2> HIDE DEF j
  <2>3. Found(j)
    BY <2>1 DEF Found
  <2> QED BY <1>1, <2>1, <2>2, <2>3
<1>8. ASSUME NEW m \in Members, NEW i \in DOMAIN reset, NEW guess, ConfirmRead(w, m, i, guess)
      PROVE  \E k \in ShapedJob : Begun(w, k) /\ Found(k)
  <2> DEFINE at == IF guess = i THEN "cas" ELSE "wrong"
             j == [NoJob EXCEPT !.op = "confirm", !.at = at, !.m = m, !.r = i]
  <2>1. at \in {"cas", "wrong"} /\ i \in Nat
    BY DEF TypeInv, TypeOK
  <2>2. Begin(w, j) /\ reset[i].attempts < MaxResetAttempts
    BY <1>8 DEF ConfirmRead, AttemptsLeft
  <2> HIDE DEF at
  <2>3. j \in ShapedJob /\ j.op = "confirm" /\ j.at = at /\ j.r = i
    BY <2>1 DEF NoJob, ShapedJob, Job
  <2> HIDE DEF j
  <2>4. Found(j)
    BY <2>1, <2>2, <2>3 DEF Found
  <2> QED BY <1>1, <2>2, <2>3, <2>4
<1> QED BY <1>2, <1>3, <1>4, <1>5, <1>6, <1>7, <1>8 DEF Start

LEMMA InitType == Init => TypeInv
<1> SUFFICES ASSUME Init PROVE TypeInv
  OBVIOUS
<1>a. PICK S \in SUBSET Members : \E f \in [S -> Mobiles] :
          member = [m \in Members |-> IF m \in S THEN OldMember(f[m]) ELSE NoMember]
  BY DEF Init
<1>1. PICK f \in [S -> Mobiles] :
          member = [m \in Members |-> IF m \in S THEN OldMember(f[m]) ELSE NoMember]
  BY <1>a
<1>2. NoMember \in MemberRow /\ \A p \in Mobiles : OldMember(p) \in MemberRow
  BY DEF NoMember, OldMember, MemberRow
<1>3. member \in [Members -> MemberRow]
  BY <1>1, <1>2
<1>4. job \in [Workers -> ShapedJob] /\ job \in [Workers -> Job]
      /\ \A w \in Workers : job[w].op = "idle" /\ job[w].at = "start"
  BY NoJobType DEF Init, NoJob
<1>5. reset \in Seq(ResetRow) /\ users \subseteq User /\ sent \subseteq DOMAIN reset /\ now \in Nat
      /\ started \in Nat /\ aborts \in Nat /\ overlapped = {}
  BY DEF Init
<1> QED BY <1>3, <1>4, <1>5 DEF TypeInv, TypeOK

LEMMA RowUpdate ==
    ASSUME NEW x \in ResetRow
    PROVE  /\ [x EXCEPT !.attempts = x.attempts + 1] \in ResetRow
           /\ [x EXCEPT !.used = TRUE] \in ResetRow
           /\ [x EXCEPT !.changes = x.changes + 1] \in ResetRow
<1>0. x.attempts \in Nat /\ x.changes \in Nat
  BY DEF ResetRow
<1>1. [x EXCEPT !.attempts = x.attempts + 1] \in ResetRow
  BY <1>0 DEF ResetRow
<1>2. [x EXCEPT !.used = TRUE] \in ResetRow
  BY DEF ResetRow
<1>3. [x EXCEPT !.changes = x.changes + 1] \in ResetRow
  BY <1>0 DEF ResetRow
<1> QED BY <1>1, <1>2, <1>3

\* A code's row that is written to stays a row, and none is lost.
LEMMA ResetUpdate ==
    ASSUME TypeInv, NEW i \in DOMAIN reset, NEW x \in ResetRow, reset' = [reset EXCEPT ![i] = x]
    PROVE  reset' \in Seq(ResetRow) /\ DOMAIN reset' = DOMAIN reset /\ reset'[i] = x
           /\ \A h \in DOMAIN reset : h # i => reset'[h] = reset[h]
  BY DEF TypeInv, TypeOK

\* The rows of members, accounts and codes keep their types under every step.
RowTypes ==
    /\ member \in [Members -> MemberRow] /\ users \subseteq User
    /\ reset \in Seq(ResetRow) /\ sent \subseteq DOMAIN reset /\ now \in Nat

LEMMA ProceedRows ==
    ASSUME TypeInv, NEW w \in Workers, Proceed(w)
    PROVE  RowTypes' /\ DOMAIN reset \subseteq DOMAIN reset'
<1>0. /\ RowTypes /\ job[w] \in Job /\ job[w] \in ShapedJob
      /\ job[w].op = "confirm" \/ job[w].at = "sms" => job[w].r \in DOMAIN reset
  BY DEF TypeInv, TypeOK, RowTypes, ShapedJob
<1>1. ASSUME NEW m \in Members, InsertMember(w, m) PROVE RowTypes' /\ reset' = reset
  <2> DEFINE x == [NoMember EXCEPT !.status = "DRAFT", !.mobile = job[w].mobile,
                                   !.portal = (job[w].op = "register"), !.createdBy = job[w].u]
  <2>1. x \in MemberRow
    BY <1>0 DEF NoMember, MemberRow, Job
  <2> HIDE DEF x
  <2>2. (member' = member \/ member' = [member EXCEPT ![m] = x]) /\ UNCHANGED <<users, reset, sent, now>>
    BY <1>1 DEF InsertMember, x
  <2> QED BY <1>0, <2>1, <2>2 DEF RowTypes
<1>2. ASSUME MobileWrite(w) \/ PromoteCas(w) \/ CodeWrite(w) PROVE RowTypes' /\ reset' = reset
  <2>1. job[w].m \in Members /\ job[w].n \in Nat
    BY <1>0, <1>2 DEF MobileWrite, PromoteCas, CodeWrite, At, ShapedJob, Job
  <2>2. member[job[w].m] \in MemberRow
    BY <1>0, <2>1 DEF RowTypes
  <2>3. UNCHANGED <<users, reset, sent, now>>
    BY <1>2 DEF MobileWrite, PromoteCas, CodeWrite
  <2>4. member' \in [Members -> MemberRow]
    <3>1. CASE MobileWrite(w)
      <4>1. job[w].mobile \in Mobiles
        BY <1>0, <3>1 DEF MobileWrite, At, ShapedJob
      <4>2. [member[job[w].m] EXCEPT !.mobile = job[w].mobile] \in MemberRow
        BY <2>2, <4>1 DEF MemberRow
      <4> QED BY <1>0, <2>1, <3>1, <4>2 DEF MobileWrite, RowTypes
    <3>2. CASE PromoteCas(w)
      <4>1. [member[job[w].m] EXCEPT !.promotedTo = job[w].n] \in MemberRow
        BY <2>1, <2>2 DEF MemberRow
      <4> QED BY <1>0, <2>1, <3>2, <4>1 DEF PromoteCas, RowTypes
    <3>3. CASE CodeWrite(w)
      <4>1. [member[job[w].m] EXCEPT !.code = member[job[w].m].code + 1] \in MemberRow
        BY <2>2 DEF MemberRow
      <4> QED BY <1>0, <2>1, <3>3, <4>1 DEF CodeWrite, RowTypes
    <3> QED BY <1>2, <3>1, <3>2, <3>3
  <2> QED BY <1>0, <2>3, <2>4 DEF RowTypes
<1>3. ASSUME RegisterFindSystem(w) \/ CodeCheck(w) PROVE RowTypes' /\ reset' = reset
  BY <1>0, <1>3 DEF RegisterFindSystem, CodeCheck, rows, RowTypes
<1>4. ASSUME RegisterCreateSystem(w) \/ PromoteCreateUser(w) \/ PromoteUndo(w) PROVE RowTypes' /\ reset' = reset
  <2>1. UNCHANGED <<member, reset, sent, now>> /\ job[w].n \in Nat
    BY <1>0, <1>4 DEF RegisterCreateSystem, PromoteCreateUser, PromoteUndo, Job
  <2>2. PromoteCreateUser(w) => job[w].email \in Emails
    BY <1>0 DEF PromoteCreateUser, At, ShapedJob
  <2>3. users' \subseteq users \cup {[id |-> job[w].n, email |-> e] : e \in Emails \cup {SystemEmail}}
    BY <1>4, <2>2 DEF RegisterCreateSystem, PromoteCreateUser, PromoteUndo
  <2> QED BY <1>0, <2>1, <2>3 DEF RowTypes, User
<1>5. ASSUME RequestSms(w) PROVE RowTypes' /\ reset' = reset
  BY <1>0, <1>5 DEF RequestSms, At, RowTypes
<1>6. ASSUME RequestInvalidate(w) PROVE RowTypes' /\ DOMAIN reset' = DOMAIN reset
  <2>1. \A i \in DOMAIN reset : [reset[i] EXCEPT !.used = TRUE] \in ResetRow /\ reset[i] \in ResetRow
    <3>1. \A i \in DOMAIN reset : reset[i] \in ResetRow
      BY <1>0 DEF RowTypes
    <3> QED BY <3>1, RowUpdate
  <2>2. reset' \in Seq(ResetRow) /\ DOMAIN reset' = DOMAIN reset
    <3>1. DOMAIN reset = 1 .. Len(reset) /\ Len(reset) \in Nat
      BY <1>0 DEF RowTypes
    <3>2. reset' \in [1 .. Len(reset) -> ResetRow]
      BY <1>6, <2>1, <3>1 DEF RequestInvalidate
    <3> QED BY <3>1, <3>2
  <2> QED BY <1>0, <1>6, <2>2 DEF RequestInvalidate, RowTypes
<1>7. ASSUME RequestInsert(w) PROVE RowTypes' /\ DOMAIN reset \subseteq DOMAIN reset'
  <2> DEFINE x == [m |-> job[w].m, at |-> now, attempts |-> 0, used |-> FALSE, changes |-> 0]
  <2>1. x \in ResetRow
    BY <1>0, <1>7 DEF RequestInsert, At, ShapedJob, ResetRow, RowTypes
  <2> HIDE DEF x
  <2>2. reset' = Append(reset, x) /\ UNCHANGED <<member, users, sent, now>>
    BY <1>7 DEF RequestInsert, x
  <2> QED BY <1>0, <2>1, <2>2 DEF RowTypes
<1>8. ASSUME ConfirmWrong(w) \/ ConfirmCas(w) \/ ConfirmWrite(w) PROVE RowTypes' /\ DOMAIN reset' = DOMAIN reset
  <2> DEFINE i == job[w].r
  <2>1. i \in DOMAIN reset /\ reset[i] \in ResetRow
    BY <1>0, <1>8 DEF ConfirmWrong, ConfirmCas, ConfirmWrite, At, RowTypes
  <2>2. \/ reset' = reset
        \/ reset' = [reset EXCEPT ![i] = [reset[i] EXCEPT !.attempts = reset[i].attempts + 1]]
        \/ reset' = [reset EXCEPT ![i] = [reset[i] EXCEPT !.used = TRUE]]
        \/ reset' = [reset EXCEPT ![i] = [reset[i] EXCEPT !.changes = reset[i].changes + 1]]
    BY <1>0, <1>8, <2>1 DEF ConfirmWrong, ConfirmCas, ConfirmWrite
  <2>3. /\ [reset[i] EXCEPT !.attempts = reset[i].attempts + 1] \in ResetRow
        /\ [reset[i] EXCEPT !.used = TRUE] \in ResetRow
        /\ [reset[i] EXCEPT !.changes = reset[i].changes + 1] \in ResetRow
    BY <2>1, RowUpdate
  <2> HIDE DEF i
  <2>4. reset' \in Seq(ResetRow) /\ DOMAIN reset' = DOMAIN reset
    BY <1>0, <2>1, <2>2, <2>3, ResetUpdate DEF RowTypes
  <2>5. UNCHANGED <<member, users, sent, now>>
    BY <1>8 DEF ConfirmWrong, ConfirmCas, ConfirmWrite
  <2> QED BY <1>0, <2>4, <2>5 DEF RowTypes
<1> QED BY <1>1, <1>2, <1>3, <1>4, <1>5, <1>6, <1>7, <1>8 DEF Proceed

\* Every step keeps the types.
LEMMA NextType == TypeInv /\ [Next]_vars => TypeInv'
<1> SUFFICES ASSUME TypeInv, [Next]_vars PROVE TypeInv'
  OBVIOUS
<1>0. RowTypes /\ started \in Nat /\ aborts \in Nat
      /\ overlapped \subseteq {"identity", "promote", "code", "request", "confirm"}
      /\ \A w \in Workers : job[w].op = "confirm" \/ job[w].at = "sms" => job[w].r \in DOMAIN reset
  BY DEF TypeInv, TypeOK, RowTypes
<1>1. ASSUME NEW w \in Workers, Start(w) PROVE TypeInv'
  <2>1. PICK k \in ShapedJob : Begun(w, k) /\ Found(k)
    BY <1>1, StartBegun
  <2>2. /\ job' \in [Workers -> ShapedJob] /\ job' \in [Workers -> Job]
        /\ job'[w] = k /\ \A v \in Workers : v # w => job'[v] = job[v]
    BY <2>1, JobUpdate DEF Begun
  <2>3. UNCHANGED <<member, users, reset, sent, now, aborts>> /\ started' = started + 1
    BY <2>1 DEF Begun, rows
  <2>4. overlapped' \subseteq {"identity", "promote", "code", "request", "confirm"}
    <3>1. Kind(k.op) \in {"identity", "promote", "code", "request", "confirm"}
      BY <2>1 DEF Begun, ShapedJob, Job, Kind
    <3> QED BY <1>0, <2>1, <3>1 DEF Begun
  <2>5. k.op = "confirm" => k.r \in DOMAIN reset
    BY <2>1 DEF Found
  <2>6. k.at # "sms"
    BY <2>1 DEF Found, Begun, ShapedJob, Job
  <2>7. \A v \in Workers : job'[v].op = "confirm" \/ job'[v].at = "sms" => job'[v].r \in DOMAIN reset'
    BY <1>0, <2>2, <2>3, <2>5, <2>6
  <2> QED BY <1>0, <2>2, <2>3, <2>4, <2>7 DEF TypeInv, TypeOK, RowTypes
<1>2. ASSUME NEW w \in Workers, Proceed(w) \/ Abort(w) PROVE TypeInv'
  <2>1. PICK k \in ShapedJob :
            /\ Follows(job[w], k) /\ job' = [job EXCEPT ![w] = k] /\ UNCHANGED <<started, overlapped>>
            /\ k.at = "sms" => RequestInsert(w) /\ k.r = Len(reset) + 1
    BY <1>2, ProceedFollows
  <2>2. /\ job' \in [Workers -> ShapedJob] /\ job' \in [Workers -> Job]
        /\ job'[w] = k /\ \A v \in Workers : v # w => job'[v] = job[v]
    BY <2>1, JobUpdate
  <2>3. RowTypes' /\ DOMAIN reset \subseteq DOMAIN reset'
    BY <1>0, <1>2, ProceedRows DEF Abort, rows, RowTypes
  <2>4. aborts' \in Nat
    <3>1. CASE Abort(w)
      BY <1>0, <3>1 DEF Abort
    <3>2. CASE Proceed(w)
      <4>1. aborts' = aborts
        BY <3>2 DEF Proceed, InsertMember, RegisterFindSystem, RegisterCreateSystem, MobileWrite,
         PromoteCreateUser, PromoteCas, PromoteUndo, CodeCheck, CodeWrite, RequestInvalidate, RequestInsert,
         RequestSms, ConfirmWrong, ConfirmCas, ConfirmWrite, Goto, GotoInsertFor, Finish
      <4> QED BY <1>0, <4>1
    <3> QED BY <1>2, <3>1, <3>2
  <2>5. k.at = "sms" => k.r \in DOMAIN reset'
    <3> SUFFICES ASSUME k.at = "sms" PROVE k.r \in DOMAIN reset'
      OBVIOUS
    <3>1. PICK x : reset' = Append(reset, x)
      BY <2>1 DEF RequestInsert
    <3> QED BY <1>0, <2>1, <3>1 DEF RowTypes
  <2>6. k.op = "confirm" => k.r \in DOMAIN reset'
    BY <1>0, <2>1, <2>3, <2>5 DEF Follows, NoJob
  <2>7. \A v \in Workers : job'[v].op = "confirm" \/ job'[v].at = "sms" => job'[v].r \in DOMAIN reset'
    BY <1>0, <2>2, <2>3, <2>5, <2>6
  <2> QED BY <1>0, <2>1, <2>2, <2>3, <2>4, <2>7 DEF TypeInv, TypeOK, RowTypes
<1>3. ASSUME NEW m \in Members, Suspend(m) \/ Reactivate(m) PROVE TypeInv'
  <2>1. member' \in [Members -> MemberRow]
    <3>1. member[m] \in MemberRow
      BY <1>0 DEF RowTypes
    <3>2. [member[m] EXCEPT !.status = "SUSPENDED"] \in MemberRow /\ [member[m] EXCEPT !.status = "ACTIVE"] \in MemberRow
      BY <3>1 DEF MemberRow
    <3> QED BY <1>0, <1>3, <3>2 DEF Suspend, Reactivate, SetStatus, RowTypes
  <2> QED BY <1>0, <1>3, <2>1 DEF Suspend, Reactivate, SetStatus, TypeInv, TypeOK, RowTypes
<1>4. CASE Tick
  BY <1>0, <1>4 DEF Tick, TypeInv, TypeOK, RowTypes
<1>5. CASE UNCHANGED vars
  BY <1>5 DEF vars, rows, TypeInv, TypeOK
<1> QED BY <1>1, <1>2, <1>3, <1>4, <1>5 DEF Next

LEMMA AlwaysTyped == Spec => []TypeInv
  BY InitType, NextType, PTL DEF Spec

\* Every variable has its type, however the handlers interleave and fail.
THEOREM TypeCorrect == Spec => []TypeOK
  BY AlwaysTyped, PTL DEF TypeInv

-----------------------------------------------------------------------------
(* Mobile numbers and referral codes.                                      *)

\* A handler's step in terms of its own job: those of the others stay.
LEMMA Stepped ==
    ASSUME TypeInv, NEW w \in Workers, Proceed(w) \/ Abort(w)
    PROVE  /\ Follows(job[w], job'[w]) /\ UNCHANGED <<started, overlapped>>
           /\ job'[w].at = "sms" => RequestInsert(w)
           /\ \A v \in Workers : v # w => job'[v] = job[v]
<1>1. PICK k \in ShapedJob :
          /\ Follows(job[w], k) /\ job' = [job EXCEPT ![w] = k] /\ UNCHANGED <<started, overlapped>>
          /\ k.at = "sms" => RequestInsert(w) /\ k.r = Len(reset) + 1
  BY ProceedFollows
<1>2. job'[w] = k /\ \A v \in Workers : v # w => job'[v] = job[v]
  BY <1>1, JobUpdate
<1> QED BY <1>1, <1>2

\* Which steps change which rows.
LEMMA Writers ==
    ASSUME NEW w \in Workers, Proceed(w)
    PROVE  /\ \/ \E m \in Members : InsertMember(w, m)
              \/ MobileWrite(w) \/ PromoteCas(w) \/ CodeWrite(w) \/ member' = member
           /\ \/ RegisterCreateSystem(w) \/ PromoteCreateUser(w) \/ PromoteUndo(w) \/ users' = users
           /\ \/ RequestInvalidate(w) \/ RequestInsert(w)
              \/ ConfirmWrong(w) \/ ConfirmCas(w) \/ ConfirmWrite(w) \/ reset' = reset
<1>1. CASE \/ \E m \in Members : InsertMember(w, m)
           \/ MobileWrite(w) \/ PromoteCas(w) \/ CodeWrite(w)
  BY <1>1 DEF InsertMember, MobileWrite, PromoteCas, CodeWrite
<1>2. CASE RegisterFindSystem(w) \/ CodeCheck(w) \/ RequestSms(w)
  BY <1>2 DEF RegisterFindSystem, CodeCheck, RequestSms, rows
<1>3. CASE RegisterCreateSystem(w) \/ PromoteCreateUser(w) \/ PromoteUndo(w)
  BY <1>3 DEF RegisterCreateSystem, PromoteCreateUser, PromoteUndo
<1>4. CASE RequestInvalidate(w) \/ RequestInsert(w) \/ ConfirmWrong(w) \/ ConfirmCas(w) \/ ConfirmWrite(w)
  BY <1>4 DEF RequestInvalidate, RequestInsert, ConfirmWrong, ConfirmCas, ConfirmWrite
<1> QED BY <1>1, <1>2, <1>3, <1>4 DEF Proceed

\* What each of them writes to members.
LEMMA MemberWrites ==
    ASSUME TypeInv, NEW w \in Workers, Proceed(w)
    PROVE  \/ member' = member
           \/ /\ job[w].op \in {"create", "register"} /\ job[w].at = "insert"
              /\ \E m \in Members :
                    /\ ~Exists(m) /\ Exists(m)' /\ member'[m].mobile = job[w].mobile
                    /\ member'[m].code = 0 /\ member'[m].promotedTo = 0 /\ member'[m].createdBy = job[w].u
                    /\ \A o \in Members : o # m => member'[o] = member[o]
              /\ job'[w] = NoJob /\ users' = users
           \/ /\ job[w].op = "mobile"
              /\ member' = [member EXCEPT ![job[w].m] = [member[job[w].m] EXCEPT !.mobile = job[w].mobile]]
              /\ job'[w] = NoJob /\ users' = users
           \/ /\ job[w].op = "promote" /\ job[w].at = "cas" /\ MayPromote(job[w].m)
              /\ member' = [member EXCEPT ![job[w].m] = [member[job[w].m] EXCEPT !.promotedTo = job[w].n]]
              /\ job'[w] = NoJob /\ users' = users
           \/ /\ job[w].op = "code" /\ job[w].at = "write"
              /\ member' = [member EXCEPT ![job[w].m] = [member[job[w].m] EXCEPT !.code = member[job[w].m].code + 1]]
              /\ job'[w] = NoJob /\ users' = users
<1>0. TypeOK /\ job[w] \in ShapedJob /\ job[w] \in Job
  BY DEF TypeInv, ShapedJob
<1>1. ASSUME NEW m \in Members, InsertMember(w, m)
      PROVE  /\ job[w].op \in {"create", "register"} /\ job[w].at = "insert"
             /\ ~Exists(m) /\ job'[w] = NoJob /\ users' = users
             /\ member' # member =>
                   /\ Exists(m)' /\ member'[m].mobile = job[w].mobile
                   /\ member'[m].code = 0 /\ member'[m].promotedTo = 0 /\ member'[m].createdBy = job[w].u
                   /\ \A o \in Members : o # m => member'[o] = member[o]
  <2>1. job[w].op \in {"create", "register"} /\ job[w].at = "insert" /\ ~Exists(m)
    BY <1>0, <1>1 DEF InsertMember, ShapedJob, Job
  <2>2. /\ member' # member =>
              /\ member'[m].status = "DRAFT" /\ member'[m].mobile = job[w].mobile
              /\ member'[m].code = 0 /\ member'[m].promotedTo = 0 /\ member'[m].createdBy = job[w].u
              /\ \A o \in Members : o # m => member'[o] = member[o]
        /\ users' = users
    <3> DEFINE x == [NoMember EXCEPT !.status = "DRAFT", !.mobile = job[w].mobile,
                                     !.portal = (job[w].op = "register"), !.createdBy = job[w].u]
    <3>1. /\ x.status = "DRAFT" /\ x.mobile = job[w].mobile
          /\ x.code = 0 /\ x.promotedTo = 0 /\ x.createdBy = job[w].u
      BY DEF NoMember
    <3>2. (member' = member \/ member' = [member EXCEPT ![m] = x]) /\ users' = users
      BY <1>1 DEF InsertMember
    <3> HIDE DEF x
    <3> QED BY <1>0, <3>1, <3>2 DEF TypeOK
  <2>3. job'[w] = NoJob
    BY <1>0, <1>1 DEF InsertMember, Finish, TypeOK
  <2> QED BY <2>1, <2>2, <2>3 DEF Exists
<1>2. CASE MobileWrite(w)
  BY <1>0, <1>2 DEF MobileWrite, At, Finish, TypeOK
<1>3. CASE PromoteCas(w)
  BY <1>0, <1>3 DEF PromoteCas, At, Finish, TypeOK
<1>4. CASE CodeWrite(w)
  BY <1>0, <1>4 DEF CodeWrite, At, Finish, TypeOK
<1>5. CASE \E m \in Members : InsertMember(w, m)
  <2>1. PICK m \in Members : InsertMember(w, m)
    BY <1>5
  <2> QED BY <1>1, <2>1
<1> QED BY <1>2, <1>3, <1>4, <1>5, Writers

IdentityInv ==
    "identity" \notin overlapped =>
        /\ \A v, w \in Workers : Kind(job[v].op) = "identity" /\ Kind(job[w].op) = "identity" => v = w
        /\ \A w \in Workers : job[w].op \in {"create", "register"} =>
              \A o \in Members : Exists(o) => member[o].mobile # job[w].mobile
        /\ \A w \in Workers : job[w].op = "mobile" =>
              \A o \in Members \ {job[w].m} : Exists(o) => member[o].mobile # job[w].mobile
        /\ \A m, o \in Members : Exists(m) /\ Exists(o) /\ member[m].mobile = member[o].mobile => m = o

\* A step that brings no member, number or handler of the kind.
LEMMA IdentityQuiet ==
    ASSUME IdentityInv, overlapped' = overlapped,
           \A m \in Members : Exists(m)' => Exists(m) /\ member'[m].mobile = member[m].mobile,
           \A w \in Workers : Kind(job'[w].op) = "identity" =>
              job'[w].op = job[w].op /\ job'[w].m = job[w].m /\ job'[w].mobile = job[w].mobile
    PROVE  IdentityInv'
<1> SUFFICES ASSUME "identity" \notin overlapped PROVE IdentityInv'
  BY DEF IdentityInv
<1>1. \A w \in Workers : Kind(job'[w].op) = "identity" => Kind(job[w].op) = "identity"
  OBVIOUS
<1>2. \A w \in Workers : job'[w].op \in {"create", "register", "mobile"} => Kind(job'[w].op) = "identity"
  BY DEF Kind
<1> HIDE DEF Kind
<1> QED BY <1>1, <1>2 DEF IdentityInv

LEMMA InitIdentity == Init => IdentityInv
<1> SUFFICES ASSUME Init PROVE IdentityInv
  OBVIOUS
<1>a. PICK S \in SUBSET Members : \E f \in [S -> Mobiles] :
          /\ \A m, o \in S : f[m] = f[o] => m = o
          /\ member = [m \in Members |-> IF m \in S THEN OldMember(f[m]) ELSE NoMember]
  BY DEF Init
<1>1. PICK f \in [S -> Mobiles] :
          /\ \A m, o \in S : f[m] = f[o] => m = o
          /\ member = [m \in Members |-> IF m \in S THEN OldMember(f[m]) ELSE NoMember]
  BY <1>a
<1>2. \A m \in Members : Exists(m) => m \in S /\ member[m].mobile = f[m]
  BY <1>1 DEF Exists, OldMember, NoMember
<1>3. \A w \in Workers : job[w].op = "idle"
  BY DEF Init, NoJob
<1>4. \A m, o \in Members : Exists(m) /\ Exists(o) /\ member[m].mobile = member[o].mobile => m = o
  BY <1>1, <1>2
<1> QED BY <1>3, <1>4 DEF IdentityInv, Kind

LEMMA NextIdentity == TypeInv /\ IdentityInv /\ [Next]_vars => IdentityInv'
<1> SUFFICES ASSUME TypeInv, IdentityInv, [Next]_vars PROVE IdentityInv'
  OBVIOUS
<1>0. member \in [Members -> MemberRow] /\ \A w \in Workers : job[w] \in Job /\ job[w] \in ShapedJob
  BY DEF TypeInv, TypeOK
<1>1. ASSUME NEW w \in Workers, Start(w) PROVE IdentityInv'
  <2>1. PICK k \in ShapedJob : Begun(w, k) /\ Found(k)
    BY <1>1, StartBegun
  <2>2. job'[w] = k /\ \A v \in Workers : v # w => job'[v] = job[v]
    BY <2>1, JobUpdate DEF Begun
  <2>3. member' = member /\ overlapped \subseteq overlapped'
    BY <2>1 DEF Begun, rows
  <2> SUFFICES ASSUME "identity" \notin overlapped' PROVE IdentityInv'
    BY DEF IdentityInv
  <2>4. Kind(k.op) = "identity" => \A v \in Workers : Kind(job[v].op) # "identity"
    BY <2>1 DEF Begun
  <2>5. \A op \in {"create", "register", "mobile"} : Kind(op) = "identity"
    BY DEF Kind
  <2> QED BY <2>1, <2>2, <2>3, <2>4, <2>5 DEF IdentityInv, Found, Exists
<1>2. ASSUME NEW w \in Workers, Proceed(w) PROVE IdentityInv'
  <2>1. /\ Follows(job[w], job'[w]) /\ overlapped' = overlapped
        /\ \A v \in Workers : v # w => job'[v] = job[v]
    BY <1>2, Stepped
  <2>2. \A v \in Workers : Kind(job'[v].op) = "identity" =>
           job'[v].op = job[v].op /\ job'[v].m = job[v].m /\ job'[v].mobile = job[v].mobile
    BY <2>1 DEF Follows, NoJob, Kind
  <2>3. CASE member' = member
    BY <2>1, <2>2, <2>3, IdentityQuiet DEF Exists
  <2>4. CASE job[w].op \in {"promote", "code"}
    <3>1. \A m \in Members : Exists(m)' => Exists(m) /\ member'[m].mobile = member[m].mobile
      <4>1. job[w].m \in Members /\ member[job[w].m] \in MemberRow
        BY <1>0, <2>4 DEF ShapedJob
      <4> DEFINE m == job[w].m
                 x == [member[m] EXCEPT !.promotedTo = job[w].n]
                 y == [member[m] EXCEPT !.code = member[m].code + 1]
      <4>2. x.status = member[m].status /\ x.mobile = member[m].mobile
            /\ y.status = member[m].status /\ y.mobile = member[m].mobile
        BY <4>1 DEF MemberRow
      <4>3. member' = member \/ member' = [member EXCEPT ![m] = x] \/ member' = [member EXCEPT ![m] = y]
        BY <1>2, <2>4, MemberWrites
      <4> HIDE DEF x, y
      <4> QED BY <1>0, <4>1, <4>2, <4>3 DEF Exists
    <3> QED BY <2>1, <2>2, <3>1, IdentityQuiet
  <2>5. CASE job[w].op \in {"create", "register", "mobile"} /\ member' # member
    <3>1. job'[w] = NoJob
      BY <1>2, <2>5, MemberWrites
    <3>2. Kind(job[w].op) = "identity"
      BY <2>5 DEF Kind
    <3>3. "identity" \notin overlapped => \A v \in Workers : Kind(job'[v].op) # "identity"
      BY <2>1, <3>1, <3>2 DEF IdentityInv, NoJob, Kind
    <3>4. ASSUME "identity" \notin overlapped, NEW m \in Members, NEW o \in Members,
                 Exists(m)', Exists(o)', member'[m].mobile = member'[o].mobile
          PROVE  m = o
      <4>1. CASE job[w].op = "mobile"
        <5>1. /\ job[w].m \in Members /\ member[job[w].m] \in MemberRow
              /\ member' = [member EXCEPT ![job[w].m] = [member[job[w].m] EXCEPT !.mobile = job[w].mobile]]
          BY <1>0, <1>2, <2>5, <4>1, MemberWrites DEF ShapedJob
        <5>2. \A n \in Members : Exists(n)' => Exists(n)
          BY <1>0, <5>1 DEF Exists, MemberRow
        <5>3. member'[job[w].m].mobile = job[w].mobile /\ \A n \in Members : n # job[w].m => member'[n] = member[n]
          BY <1>0, <5>1 DEF MemberRow
        <5>4. \A n \in Members \ {job[w].m} : Exists(n) => member[n].mobile # job[w].mobile
          BY <3>4, <4>1 DEF IdentityInv
        <5>5. \A x, y \in Members : Exists(x) /\ Exists(y) /\ member[x].mobile = member[y].mobile => x = y
          BY <3>4 DEF IdentityInv
        <5> QED BY <3>4, <5>2, <5>3, <5>4, <5>5
      <4>2. CASE job[w].op \in {"create", "register"}
        <5>1. PICK n \in Members :
                 /\ ~Exists(n) /\ member'[n].mobile = job[w].mobile
                 /\ \A x \in Members : x # n => member'[x] = member[x]
          BY <1>2, <2>5, <4>2, MemberWrites
        <5>2. \A x \in Members : Exists(x) => member[x].mobile # job[w].mobile
          BY <3>4, <4>2 DEF IdentityInv
        <5>3. \A x, y \in Members : Exists(x) /\ Exists(y) /\ member[x].mobile = member[y].mobile => x = y
          BY <3>4 DEF IdentityInv
        <5>4. \A x \in Members : x # n /\ Exists(x)' => Exists(x)
          BY <5>1 DEF Exists
        <5> QED BY <3>4, <5>1, <5>2, <5>3, <5>4
      <4> QED BY <2>5, <4>1, <4>2
    <3>5. \A op \in {"create", "register", "mobile"} : Kind(op) = "identity"
      BY DEF Kind
    <3> HIDE DEF Kind
    <3> QED BY <2>1, <3>3, <3>4, <3>5 DEF IdentityInv
  <2> QED BY <1>2, <2>3, <2>4, <2>5, MemberWrites
<1>3. ASSUME NEW w \in Workers, Abort(w) PROVE IdentityInv'
  <2>1. job'[w] = NoJob /\ overlapped' = overlapped /\ member' = member
        /\ \A v \in Workers : v # w => job'[v] = job[v]
    BY <1>3 DEF Abort, rows, TypeInv, TypeOK
  <2>2. Kind(NoJob.op) # "identity"
    BY DEF NoJob, Kind
  <2> QED BY <2>1, <2>2, IdentityQuiet DEF Exists
<1>4. ASSUME NEW m \in Members, Suspend(m) \/ Reactivate(m) PROVE IdentityInv'
  <2>1. member[m] \in MemberRow /\ Exists(m)
    BY <1>0, <1>4 DEF Suspend, Reactivate, SetStatus, Exists
  <2>2. \A n \in Members : Exists(n)' => Exists(n) /\ member'[n].mobile = member[n].mobile
    BY <1>0, <1>4, <2>1 DEF Suspend, Reactivate, SetStatus, Exists, MemberRow
  <2>3. UNCHANGED <<job, overlapped>>
    BY <1>4 DEF Suspend, Reactivate, SetStatus
  <2> QED BY <2>2, <2>3, IdentityQuiet
<1>5. CASE Tick \/ UNCHANGED vars
  BY <1>5, IdentityQuiet DEF Tick, vars, rows, Exists
<1> QED BY <1>1, <1>2, <1>3, <1>4, <1>5 DEF Next

\* The unique key: who can log in has a number of their own.
Login(m) == member[m].portal = TRUE
LoginInv == \A m, o \in Members : Login(m) /\ Login(o) /\ member[m].mobile = member[o].mobile => m = o

\* A step that brings no login and changes no number.
LEMMA LoginQuiet ==
    ASSUME LoginInv, \A m \in Members : Login(m)' => Login(m) /\ member'[m].mobile = member[m].mobile
    PROVE  LoginInv'
  BY DEF LoginInv

\* A step that gives one member a number that nobody logs in with, or no login.
LEMMA LoginUpdate ==
    ASSUME LoginInv, NEW m \in Members, \A o \in Members : o # m => member'[o] = member[o],
           Login(m)' => ~PortalTaken(member'[m].mobile, m)
    PROVE  LoginInv'
<1>1. \A o \in Members : o # m => (Login(o)' <=> Login(o))
  BY DEF Login
<1>2. Login(m)' => \A o \in Members : o # m /\ Login(o) => member[o].mobile # member'[m].mobile
  BY DEF PortalTaken, Login
<1> HIDE DEF Login
<1> QED BY <1>1, <1>2 DEF LoginInv

LEMMA NextLogin == TypeInv /\ LoginInv /\ [Next]_vars => LoginInv'
<1> SUFFICES ASSUME TypeInv, LoginInv, [Next]_vars PROVE LoginInv'
  OBVIOUS
<1>0. member \in [Members -> MemberRow] /\ \A w \in Workers : job[w] \in Job /\ job[w] \in ShapedJob
  BY DEF TypeInv, TypeOK
<1>1. CASE member' = member
  BY <1>1, LoginQuiet DEF Login
<1>2. ASSUME NEW w \in Workers, NEW m \in Members, InsertMember(w, m), member' # member PROVE LoginInv'
  <2> DEFINE x == [NoMember EXCEPT !.status = "DRAFT", !.mobile = job[w].mobile,
                                   !.portal = (job[w].op = "register"), !.createdBy = job[w].u]
  <2>1. x.portal = (job[w].op = "register") /\ x.mobile = job[w].mobile
    BY DEF NoMember
  <2>2. member' = [member EXCEPT ![m] = x] /\ ~(job[w].op = "register" /\ PortalTaken(job[w].mobile, m))
    BY <1>2 DEF InsertMember
  <2> HIDE DEF x
  <2>3. member'[m] = x /\ \A o \in Members : o # m => member'[o] = member[o]
    BY <1>0, <2>2
  <2>4. Login(m)' => ~PortalTaken(member'[m].mobile, m)
    BY <2>1, <2>2, <2>3 DEF Login
  <2> QED BY <2>3, <2>4, LoginUpdate
<1>3. ASSUME NEW w \in Workers, MobileWrite(w), member' # member PROVE LoginInv'
  <2>0. PICK m \in Members : m = job[w].m
    BY <1>0, <1>3 DEF MobileWrite, At, ShapedJob
  <2> DEFINE x == [member[m] EXCEPT !.mobile = job[w].mobile]
  <2>1. member[m] \in MemberRow
    BY <1>0
  <2>2. x.portal = member[m].portal /\ x.mobile = job[w].mobile
    BY <2>1 DEF MemberRow
  <2>3. member' = [member EXCEPT ![m] = x] /\ ~(member[m].portal /\ PortalTaken(job[w].mobile, m))
    BY <1>3, <2>0 DEF MobileWrite
  <2> HIDE DEF x
  <2>4. member'[m] = x /\ \A o \in Members : o # m => member'[o] = member[o]
    BY <1>0, <2>1, <2>3
  <2>5. Login(m)' => ~PortalTaken(member'[m].mobile, m)
    BY <2>2, <2>3, <2>4 DEF Login
  <2> QED BY <2>1, <2>4, <2>5, LoginUpdate
<1>4. ASSUME NEW w \in Workers, PromoteCas(w) \/ CodeWrite(w), member' # member PROVE LoginInv'
  <2> DEFINE m == job[w].m
             x == [member[m] EXCEPT !.promotedTo = job[w].n]
             y == [member[m] EXCEPT !.code = member[m].code + 1]
  <2>1. m \in Members /\ member[m] \in MemberRow
    BY <1>0, <1>4 DEF PromoteCas, CodeWrite, At, ShapedJob
  <2>2. /\ x.portal = member[m].portal /\ x.mobile = member[m].mobile
        /\ y.portal = member[m].portal /\ y.mobile = member[m].mobile
    BY <2>1 DEF MemberRow
  <2>3. member' = [member EXCEPT ![m] = x] \/ member' = [member EXCEPT ![m] = y]
    BY <1>4 DEF PromoteCas, CodeWrite
  <2> HIDE DEF x, y
  <2> QED BY <1>0, <2>1, <2>2, <2>3, LoginQuiet DEF Login
<1>5. ASSUME NEW m \in Members, Suspend(m) \/ Reactivate(m) PROVE LoginInv'
  <2>1. \A n \in Members : member'[n].portal = member[n].portal /\ member'[n].mobile = member[n].mobile
    BY <1>0, <1>5 DEF Suspend, Reactivate, SetStatus, MemberRow
  <2> QED BY <2>1, LoginQuiet DEF Login
<1>6. ASSUME NEW w \in Workers, Start(w) \/ Abort(w) PROVE member' = member
  <2>1. CASE Start(w)
    BY <2>1, StartBegun DEF Begun, rows
  <2>2. CASE Abort(w)
    BY <2>2 DEF Abort, rows
  <2> QED BY <1>6, <2>1, <2>2
<1> QED BY <1>1, <1>2, <1>3, <1>4, <1>5, <1>6, Writers DEF Next, Tick, vars, rows

LEMMA InitLogin == Init => LoginInv
<1> SUFFICES ASSUME Init PROVE LoginInv
  OBVIOUS
<1>a. PICK S \in SUBSET Members : \E f \in [S -> Mobiles] :
          /\ \A m, o \in S : f[m] = f[o] => m = o
          /\ member = [m \in Members |-> IF m \in S THEN OldMember(f[m]) ELSE NoMember]
  BY DEF Init
<1>1. PICK f \in [S -> Mobiles] :
          /\ \A m, o \in S : f[m] = f[o] => m = o
          /\ member = [m \in Members |-> IF m \in S THEN OldMember(f[m]) ELSE NoMember]
  BY <1>a
<1>2. \A m \in Members : Login(m) => m \in S /\ member[m].mobile = f[m]
  BY <1>1 DEF Login, OldMember, NoMember
<1> QED BY <1>1, <1>2 DEF LoginInv

\* A mobile number belongs to one member, unless two handlers that enter one
\* overlapped; whatever overlaps, it logs in one member.
THEOREM OneMemberPerMobile == Spec => []MobileUnique
<1>1. TypeInv /\ IdentityInv /\ [Next]_vars => TypeInv' /\ IdentityInv'
  BY NextType, NextIdentity
<1>2. TypeInv /\ LoginInv /\ [Next]_vars => TypeInv' /\ LoginInv'
  BY NextType, NextLogin
<1>3. IdentityInv /\ LoginInv => MobileUnique
  BY DEF IdentityInv, LoginInv, Login, MobileUnique
<1> QED BY InitType, InitIdentity, InitLogin, <1>1, <1>2, <1>3, PTL DEF Spec

CodeInv ==
    /\ \A m \in Members : ~Exists(m) => member[m].code = 0
    /\ \A w \in Workers : job[w].op = "code" => Exists(job[w].m)
    /\ "code" \notin overlapped =>
        /\ \A v, w \in Workers : job[v].op = "code" /\ job[w].op = "code" => v = w
        /\ \A w \in Workers : At(w, "code", "write") => member[job[w].m].code = 0

\* What one step may do to members and codes.
LEMMA CodeSteps ==
    ASSUME TypeInv, CodeInv, Next
    PROVE  \A m \in Members :
             /\ Exists(m) => Exists(m)'
             /\ \/ member'[m].code = member[m].code
                \/ Exists(m) /\ \E w \in Workers :
                      At(w, "code", "write") /\ job[w].m = m /\ job'[w] = NoJob /\ overlapped' = overlapped
<1>0. member \in [Members -> MemberRow] /\ \A w \in Workers : job[w] \in Job /\ job[w] \in ShapedJob
  BY DEF TypeInv, TypeOK
<1>1. CASE member' = member
  BY <1>1 DEF Exists
<1>2. ASSUME NEW n \in Members, Suspend(n) \/ Reactivate(n), NEW m \in Members
      PROVE  (Exists(m) => Exists(m)') /\ member'[m].code = member[m].code
  BY <1>0, <1>2 DEF Suspend, Reactivate, SetStatus, Exists, MemberRow
<1>3. ASSUME NEW w \in Workers, Proceed(w), member' # member, NEW m \in Members
      PROVE  /\ Exists(m) => Exists(m)'
             /\ \/ member'[m].code = member[m].code
                \/ Exists(m) /\ At(w, "code", "write") /\ job[w].m = m /\ job'[w] = NoJob /\ overlapped' = overlapped
  <2>0. overlapped' = overlapped
    BY <1>3, Stepped
  <2>1. CASE job[w].op \in {"create", "register"}
    <3>1. PICK n \in Members : /\ ~Exists(n) /\ Exists(n)' /\ member'[n].code = 0
                               /\ \A o \in Members : o # n => member'[o] = member[o]
      BY <1>3, <2>1, MemberWrites
    <3> QED BY <3>1 DEF CodeInv, Exists
  <2>2. CASE job[w].op = "mobile" \/ job[w].op = "promote"
    <3>1. job[w].m \in Members /\ member[job[w].m] \in MemberRow
      BY <1>0, <2>2 DEF ShapedJob
    <3> DEFINE n == job[w].m
               x == [member[n] EXCEPT !.mobile = job[w].mobile]
               y == [member[n] EXCEPT !.promotedTo = job[w].n]
    <3>2. x.status = member[n].status /\ x.code = member[n].code
          /\ y.status = member[n].status /\ y.code = member[n].code
      BY <3>1 DEF MemberRow
    <3>3. member' = [member EXCEPT ![n] = x] \/ member' = [member EXCEPT ![n] = y]
      BY <1>3, <2>2, MemberWrites
    <3> HIDE DEF x, y
    <3> QED BY <1>0, <3>1, <3>2, <3>3 DEF Exists
  <2>3. CASE job[w].op = "code"
    <3> DEFINE n == job[w].m
               x == [member[n] EXCEPT !.code = member[n].code + 1]
    <3>1. n \in Members /\ member[n] \in MemberRow
      BY <1>0, <2>3 DEF ShapedJob
    <3>2. /\ At(w, "code", "write") /\ job'[w] = NoJob
          /\ member' = [member EXCEPT ![n] = x]
      BY <1>3, <2>3, MemberWrites DEF At
    <3>3. x.status = member[n].status
      BY <3>1 DEF MemberRow
    <3>4. Exists(n)
      BY <2>3 DEF CodeInv
    <3> HIDE DEF x
    <3> QED BY <1>0, <2>0, <3>1, <3>2, <3>3, <3>4 DEF Exists
  <2> QED BY <1>3, <2>1, <2>2, <2>3, MemberWrites
<1>4. ASSUME NEW w \in Workers, Start(w) \/ Abort(w) PROVE member' = member
  <2>1. CASE Start(w)
    BY <2>1, StartBegun DEF Begun, rows
  <2>2. CASE Abort(w)
    BY <2>2 DEF Abort, rows
  <2> QED BY <1>4, <2>1, <2>2
<1>5. CASE Tick
  BY <1>1, <1>5 DEF Tick
<1> QED BY <1>1, <1>2, <1>3, <1>4, <1>5 DEF Next

LEMMA InitCode == Init => CodeInv
<1> SUFFICES ASSUME Init PROVE CodeInv
  OBVIOUS
<1>a. PICK S \in SUBSET Members : \E f \in [S -> Mobiles] :
          member = [m \in Members |-> IF m \in S THEN OldMember(f[m]) ELSE NoMember]
  BY DEF Init
<1>1. PICK f \in [S -> Mobiles] :
          member = [m \in Members |-> IF m \in S THEN OldMember(f[m]) ELSE NoMember]
  BY <1>a
<1>2. \A m \in Members : member[m].code = 0
  BY <1>1 DEF OldMember, NoMember
<1>3. \A w \in Workers : job[w].op = "idle"
  BY DEF Init, NoJob
<1> QED BY <1>2, <1>3 DEF CodeInv, At

LEMMA NextCode == TypeInv /\ CodeInv /\ [Next]_vars => CodeInv'
<1> SUFFICES ASSUME TypeInv, CodeInv, [Next]_vars PROVE CodeInv'
  OBVIOUS
<1>0. member \in [Members -> MemberRow] /\ \A w \in Workers : job[w] \in Job /\ job[w] \in ShapedJob
  BY DEF TypeInv, TypeOK
<1>1. CASE UNCHANGED vars
  BY <1>1 DEF vars, rows, CodeInv, Exists, At
<1>2. CASE Next
  <2>1. \A m \in Members :
           /\ Exists(m) => Exists(m)'
           /\ \/ member'[m].code = member[m].code
              \/ Exists(m) /\ \E w \in Workers :
                    At(w, "code", "write") /\ job[w].m = m /\ job'[w] = NoJob /\ overlapped' = overlapped
    BY <1>2, CodeSteps
  <2>2. \A m \in Members : ~Exists(m)' => member'[m].code = 0
    BY <2>1 DEF CodeInv
  <2>3. \A w \in Workers : job[w].op = "code" => job[w].m \in Members
    BY <1>0 DEF ShapedJob
  <2>4. ASSUME NEW w \in Workers, Start(w) PROVE CodeInv'
    <3>1. PICK k \in ShapedJob : Begun(w, k) /\ Found(k)
      BY <2>4, StartBegun
    <3>2. job'[w] = k /\ \A v \in Workers : v # w => job'[v] = job[v]
      BY <3>1, JobUpdate DEF Begun
    <3>3. member' = member /\ overlapped \subseteq overlapped'
      BY <3>1 DEF Begun, rows
    <3>4. "code" \notin overlapped' /\ k.op = "code" => \A v \in Workers : job[v].op # "code"
      BY <3>1 DEF Begun, Kind
    <3>5. ~At(w, "code", "write")'
      BY <3>1, <3>2 DEF Found, At
    <3>6. k.op = "code" => Exists(k.m)
      BY <3>1 DEF Found
    <3> QED BY <2>2, <3>2, <3>3, <3>4, <3>5, <3>6 DEF CodeInv, At, Exists
  <2>5. ASSUME NEW w \in Workers, Proceed(w) \/ Abort(w) PROVE CodeInv'
    <3>1. /\ Follows(job[w], job'[w]) /\ overlapped' = overlapped
          /\ \A v \in Workers : v # w => job'[v] = job[v]
      BY <2>5, Stepped
    <3>2. \A v \in Workers : job'[v].op = "code" => job[v].op = "code" /\ job'[v].m = job[v].m
      BY <3>1 DEF Follows, NoJob
    <3>3. ASSUME "code" \notin overlapped, NEW v \in Workers, At(v, "code", "write")'
          PROVE  member'[job'[v].m].code = 0
      <4>1. job'[v].op = "code" /\ job'[v].at = "write"
        BY <3>3 DEF At
      <4>2. job[v].op = "code" /\ job'[v].m = job[v].m /\ job[v].m \in Members
        BY <2>3, <3>2, <4>1
      <4>3. member'[job[v].m].code = member[job[v].m].code
        <5>1. \A u \in Workers : job[u].op = "code" => u = v
          BY <3>3, <4>2 DEF CodeInv
        <5>2. job'[v] # NoJob
          BY <4>1 DEF NoJob
        <5> QED BY <2>1, <4>2, <5>1, <5>2 DEF At
      <4>4. CASE job[v].at = "write"
        BY <3>3, <4>2, <4>3, <4>4 DEF CodeInv, At
      <4>5. CASE job[v].at # "write"
        <5>1. v = w /\ CodeCheck(w)
          <6>1. v = w
            BY <3>1, <4>1, <4>5
          <6>2. ~Abort(w)
            BY <4>1, <6>1 DEF Abort, NoJob, TypeInv, TypeOK
          <6> QED BY <2>5, <4>2, <4>5, <6>1, <6>2, <1>0
                  DEF Proceed, InsertMember, RegisterFindSystem, RegisterCreateSystem, MobileWrite, PromoteCreateUser,
                      PromoteCas, PromoteUndo, CodeWrite, RequestInvalidate, RequestInsert, RequestSms,
                      ConfirmWrong, ConfirmCas, ConfirmWrite, At, ShapedJob
        <5>2. ~HasCode(job[w].m)
          BY <4>1, <5>1 DEF CodeCheck, Finish, NoJob, TypeInv, TypeOK
        <5>3. member[job[w].m].code \in Nat
          BY <1>0, <4>2, <5>1 DEF MemberRow
        <5> QED BY <4>2, <4>3, <5>1, <5>2, <5>3 DEF HasCode
      <4> QED BY <4>4, <4>5
    <3>4. \A v \in Workers : job'[v].op = "code" => member'[job'[v].m].status # "NONE"
      BY <2>1, <2>3, <3>2 DEF CodeInv, Exists
    <3>5. \A u, v \in Workers : "code" \notin overlapped /\ job'[u].op = "code" /\ job'[v].op = "code" => u = v
      BY <3>2 DEF CodeInv
    <3> QED BY <2>2, <3>1, <3>3, <3>4, <3>5 DEF CodeInv, Exists
  <2>6. ASSUME UNCHANGED <<job, overlapped>> PROVE CodeInv'
    <3>1. \A w \in Workers : ~(job'[w] = NoJob /\ At(w, "code", "write"))
      BY <2>6 DEF NoJob, At
    <3>2. \A m \in Members : member'[m].code = member[m].code
      BY <2>1, <3>1
    <3> QED BY <2>1, <2>2, <2>3, <2>6, <3>2 DEF CodeInv, At
  <2> QED BY <1>2, <2>4, <2>5, <2>6 DEF Next, Suspend, Reactivate, SetStatus, Tick
<1> QED BY <1>1, <1>2

\* A referral code, once written, is never replaced, unless two handlers that
\* write a first one overlapped.
THEOREM CodeStays == Spec => CodeKept
<1>1. ASSUME TypeInv, CodeInv, Next, NEW m \in Members, member[m].code > 0, "code" \notin overlapped'
      PROVE  member'[m].code = member[m].code
  <2>1. \/ member'[m].code = member[m].code
        \/ \E w \in Workers : At(w, "code", "write") /\ job[w].m = m /\ overlapped' = overlapped
    BY <1>1, CodeSteps
  <2> QED BY <1>1, <2>1 DEF CodeInv
<1>2. TypeInv /\ CodeInv /\ [Next]_vars =>
        [\A m \in Members :
           member[m].code > 0 /\ "code" \notin overlapped' => member'[m].code = member[m].code]_vars
  BY <1>1
<1>3. TypeInv /\ CodeInv /\ [Next]_vars => TypeInv' /\ CodeInv'
  BY NextType, NextCode
<1> QED BY InitType, InitCode, <1>2, <1>3, PTL DEF Spec, CodeKept

-----------------------------------------------------------------------------
(* Codes for a new password.                                               *)

OnceInv ==
    /\ \A w \in Workers : At(w, "confirm", "password") =>
          reset[job[w].r].used /\ reset[job[w].r].changes = 0
    /\ \A v, w \in Workers :
          At(v, "confirm", "password") /\ At(w, "confirm", "password") /\ job[v].r = job[w].r => v = w

LastInv ==
    "request" \notin overlapped =>
        /\ \A v, w \in Workers : job[v].op = "request" /\ job[w].op = "request" => v = w
        /\ \A w \in Workers : At(w, "request", "insert code") =>
              \A i \in DOMAIN reset : reset[i].m = job[w].m => reset[i].used
        /\ \A i, j \in DOMAIN reset : reset[i].m = reset[j].m /\ ~reset[i].used => j <= i

LimitInv ==
    "confirm" \notin overlapped =>
        /\ \A v, w \in Workers : job[v].op = "confirm" /\ job[w].op = "confirm" => v = w
        /\ \A w \in Workers : At(w, "confirm", "wrong") => reset[job[w].r].attempts < MaxResetAttempts
        /\ \A i \in DOMAIN reset : reset[i].attempts <= MaxResetAttempts

ResetInv == CodeWorksOnce /\ OnceInv /\ LastInv /\ LimitInv

LEMMA InitReset == Init => ResetInv
<1> SUFFICES ASSUME Init PROVE ResetInv
  OBVIOUS
<1>1. reset = <<>> /\ \A w \in Workers : job[w].op = "idle"
  BY DEF Init, NoJob
<1> QED BY <1>1 DEF ResetInv, CodeWorksOnce, OnceInv, LastInv, LimitInv, At

\* A step that writes no code and takes no handler of codes further but to its end.
LEMMA ResetQuiet ==
    ASSUME ResetInv, reset' = reset, overlapped \subseteq overlapped',
           \A w \in Workers : job'[w].op \in {"request", "confirm"} => job'[w] = job[w]
    PROVE  ResetInv'
<1>1. CodeWorksOnce'
  BY DEF ResetInv, CodeWorksOnce
<1>2. OnceInv'
  BY DEF ResetInv, OnceInv, At
<1>3. LastInv'
  BY ZenonT(20) DEF ResetInv, LastInv, At
<1>4. LimitInv'
  BY DEF ResetInv, LimitInv, At
<1> QED BY <1>1, <1>2, <1>3, <1>4 DEF ResetInv

\* What no code of a handler that confirms one has become of: its two invariants stay.
LEMMA OnceKept ==
    ASSUME ResetInv,
           \A v \in Workers : job'[v].op = "confirm" => job'[v] = job[v] /\ job[v].r \in DOMAIN reset,
           \A i \in DOMAIN reset : (reset[i].used => reset'[i].used) /\ reset'[i].changes = reset[i].changes
    PROVE  OnceInv'
<1>1. \A v \in Workers : At(v, "confirm", "password")' => At(v, "confirm", "password") /\ job'[v].r = job[v].r
  BY DEF At
<1>2. \A v \in Workers : At(v, "confirm", "password")' =>
         job[v].r \in DOMAIN reset /\ reset[job[v].r].used /\ reset[job[v].r].changes = 0
  BY <1>1 DEF ResetInv, OnceInv, At
<1>3. \A v \in Workers : At(v, "confirm", "password")' =>
         reset'[job'[v].r].used /\ reset'[job'[v].r].changes = 0
  BY <1>1, <1>2
<1>4. \A u, v \in Workers :
         At(u, "confirm", "password")' /\ At(v, "confirm", "password")' /\ job'[u].r = job'[v].r => u = v
  BY <1>1 DEF ResetInv, OnceInv
<1> QED BY <1>3, <1>4 DEF OnceInv

LEMMA LimitKept ==
    ASSUME ResetInv, overlapped' = overlapped,
           \A v \in Workers : job'[v].op = "confirm" => job[v].op = "confirm",
           \A v \in Workers : At(v, "confirm", "wrong")' => job'[v] = job[v] /\ job[v].r \in DOMAIN reset,
           \A i \in DOMAIN reset : reset'[i].attempts = reset[i].attempts,
           \A i \in DOMAIN reset' : i \in DOMAIN reset \/ reset'[i].attempts <= MaxResetAttempts
    PROVE  LimitInv'
<1> SUFFICES ASSUME "confirm" \notin overlapped PROVE LimitInv'
  BY DEF LimitInv
<1>1. \A u, v \in Workers : job'[u].op = "confirm" /\ job'[v].op = "confirm" => u = v
  BY DEF ResetInv, LimitInv
<1>2. \A v \in Workers : At(v, "confirm", "wrong")' =>
         job[v].r \in DOMAIN reset /\ job'[v].r = job[v].r /\ reset[job[v].r].attempts < MaxResetAttempts
  BY DEF ResetInv, LimitInv, At
<1>3. \A i \in DOMAIN reset' : reset'[i].attempts <= MaxResetAttempts
  BY DEF ResetInv, LimitInv
<1> QED BY <1>1, <1>2, <1>3 DEF LimitInv

LEMMA Appended ==
    ASSUME NEW S, NEW s \in Seq(S), NEW x \in S
    PROVE  /\ DOMAIN Append(s, x) = 1 .. Len(s) + 1
           /\ Append(s, x)[Len(s) + 1] = x /\ \A i \in 1 .. Len(s) : Append(s, x)[i] = s[i]
  OBVIOUS

\* A step that replaces one row of the codes.
LEMMA CodeUpdate ==
    ASSUME NEW i \in DOMAIN reset, NEW y, reset \in Seq(ResetRow), reset' = [reset EXCEPT ![i] = y]
    PROVE  DOMAIN reset' = DOMAIN reset /\ reset'[i] = y /\ \A h \in DOMAIN reset : h # i => reset'[h] = reset[h]
  OBVIOUS

LEMMA StartReset ==
    ASSUME TypeInv, ResetInv, NEW w \in Workers, Start(w)
    PROVE  ResetInv'
<1>1. PICK k \in ShapedJob : Begun(w, k) /\ Found(k)
  BY StartBegun
<1>2. job'[w] = k /\ \A v \in Workers : v # w => job'[v] = job[v]
  BY <1>1, JobUpdate DEF Begun
<1>3. reset' = reset /\ overlapped \subseteq overlapped'
  BY <1>1 DEF Begun, rows
<1>4. \A op \in {"request", "confirm"} :
         op \notin overlapped' /\ k.op = op => \A v \in Workers : job[v].op # op
  BY <1>1 DEF Begun, Kind
<1>5. k.op = "request" => k.at = "invalidate"
  BY <1>1 DEF Found
<1>6. k.op = "confirm" => k.at \in {"wrong", "cas"} /\ (k.at = "wrong" => reset[k.r].attempts < MaxResetAttempts)
  BY <1>1 DEF Found
<1>7. CodeWorksOnce'
  BY <1>3 DEF ResetInv, CodeWorksOnce
<1>8. OnceInv'
  BY <1>2, <1>3, <1>6 DEF ResetInv, OnceInv, At
<1>9. LastInv'
  BY <1>2, <1>3, <1>4, <1>5 DEF ResetInv, LastInv, At
<1>10. LimitInv'
  BY <1>2, <1>3, <1>4, <1>6 DEF ResetInv, LimitInv, At
<1> QED BY <1>7, <1>8, <1>9, <1>10 DEF ResetInv

LEMMA ProceedReset ==
    ASSUME TypeInv, ResetInv, NEW w \in Workers, Proceed(w)
    PROVE  ResetInv'
<1>0. /\ reset \in Seq(ResetRow) /\ \A v \in Workers : job[v] \in Job /\ job[v] \in ShapedJob
      /\ \A v \in Workers : job[v].op = "confirm" => job[v].r \in DOMAIN reset
  BY DEF TypeInv, TypeOK
<1>1. /\ Follows(job[w], job'[w]) /\ overlapped' = overlapped
      /\ \A v \in Workers : v # w => job'[v] = job[v]
  BY Stepped
<1>2. \A i \in DOMAIN reset : reset[i] \in ResetRow
  BY <1>0
<1>3. CASE job[w].op \notin {"request", "confirm"}
  <2>1. reset' = reset
    BY <1>3, Writers DEF RequestInvalidate, RequestInsert, ConfirmWrong, ConfirmCas, ConfirmWrite, At
  <2>2. job'[w].op \notin {"request", "confirm"}
    BY <1>1, <1>3 DEF Follows, NoJob
  <2> QED BY <1>1, <2>1, <2>2, ResetQuiet
<1>4. ASSUME RequestSms(w) PROVE ResetInv'
  <2>1. reset' = reset /\ job'[w] = NoJob
    BY <1>4 DEF RequestSms, Finish, TypeInv, TypeOK
  <2> QED BY <1>1, <2>1, ResetQuiet DEF NoJob
<1>5. ASSUME RequestInvalidate(w) PROVE ResetInv'
  <2>1. /\ job[w].op = "request" /\ DOMAIN reset' = DOMAIN reset
        /\ \A i \in DOMAIN reset :
              reset'[i] = IF reset[i].m = job[w].m THEN [reset[i] EXCEPT !.used = TRUE] ELSE reset[i]
    BY <1>5 DEF RequestInvalidate, At
  <2>2. \A i \in DOMAIN reset :
           /\ reset'[i].m = reset[i].m /\ reset'[i].attempts = reset[i].attempts
           /\ reset'[i].changes = reset[i].changes
           /\ (reset[i].used => reset'[i].used)
           /\ (reset[i].m = job[w].m => reset'[i].used)
    BY <1>2, <2>1 DEF ResetRow
  <2>3. job'[w].op = "request" /\ job'[w].m = job[w].m
    BY <1>0, <1>5, <2>1, ZenonT(40) DEF RequestInvalidate, Goto, TypeInv, TypeOK, Job
  <2>4. CodeWorksOnce'
    BY <1>2, <2>1, <2>2 DEF ResetInv, CodeWorksOnce, ResetRow
  <2>a. \A v \in Workers : job'[v].op = "confirm" => job'[v] = job[v] /\ job[v].r \in DOMAIN reset
    BY <1>0, <1>1, <2>3
  <2>5. OnceInv'
    BY <2>2, <2>a, OnceKept
  <2>6. LastInv'
    <3> SUFFICES ASSUME "request" \notin overlapped PROVE LastInv'
      BY <1>1 DEF LastInv
    <3>1. \A v \in Workers : job'[v].op = "request" => v = w
      BY <1>1, <2>1 DEF ResetInv, LastInv
    <3>2. \A i \in DOMAIN reset' : reset'[i].m = job[w].m => reset'[i].used
      BY <2>1, <2>2
    <3>3. \A i, j \in DOMAIN reset' : reset'[i].m = reset'[j].m /\ ~reset'[i].used => j <= i
      BY <2>1, <2>2 DEF ResetInv, LastInv
    <3>4. \A u, v \in Workers : job'[u].op = "request" /\ job'[v].op = "request" => u = v
      BY <3>1
    <3>5. \A v \in Workers : At(v, "request", "insert code")' =>
             \A i \in DOMAIN reset' : reset'[i].m = job'[v].m => reset'[i].used
      BY <2>3, <3>1, <3>2 DEF At
    <3> QED BY <3>3, <3>4, <3>5 DEF LastInv
  <2>7. LimitInv'
    <3>1. \A v \in Workers : At(v, "confirm", "wrong")' => job'[v] = job[v] /\ job[v].r \in DOMAIN reset
      BY <2>a DEF At
    <3>2. \A v \in Workers : job'[v].op = "confirm" => job[v].op = "confirm"
      BY <2>a
    <3> QED BY <1>1, <2>1, <2>2, <3>1, <3>2, LimitKept
  <2> QED BY <2>4, <2>5, <2>6, <2>7 DEF ResetInv
<1>6. ASSUME RequestInsert(w) PROVE ResetInv'
  <2> DEFINE x == [m |-> job[w].m, at |-> now, attempts |-> 0, used |-> FALSE, changes |-> 0]
             n == Len(reset) + 1
  <2>1. job[w].op = "request" /\ job[w].at = "insert code" /\ reset' = Append(reset, x)
    BY <1>6 DEF RequestInsert, At
  <2>2. x.m = job[w].m /\ x.attempts = 0 /\ ~x.used /\ x.changes = 0 /\ x.used = FALSE
    OBVIOUS
  <2>a. x \in ResetRow
    BY <1>0, <2>1 DEF ResetRow, ShapedJob, TypeInv, TypeOK
  <2> HIDE DEF x
  <2>3. /\ DOMAIN reset' = DOMAIN reset \cup {n} /\ n \notin DOMAIN reset /\ reset'[n] = x
        /\ \A i \in DOMAIN reset : reset'[i] = reset[i] /\ i <= n /\ ~(n <= i) /\ i \in Nat
        /\ n \in Nat
    <3>1. Len(reset) \in Nat /\ DOMAIN reset = 1 .. Len(reset)
      BY <1>0
    <3>2. /\ DOMAIN reset' = 1 .. n
          /\ reset'[n] = x /\ \A i \in 1 .. Len(reset) : reset'[i] = reset[i]
      <4>1. /\ DOMAIN Append(reset, x) = 1 .. Len(reset) + 1
            /\ Append(reset, x)[Len(reset) + 1] = x /\ \A i \in 1 .. Len(reset) : Append(reset, x)[i] = reset[i]
        <5>1. reset \in Seq(ResetRow)
          BY <1>0
        <5> HIDE DEF n
        <5> QED BY <5>1, <2>a, Appended
      <4> HIDE DEF n
      <4>2. n = Len(reset) + 1 /\ reset' = Append(reset, x)
        BY <2>1 DEF n
      <4> QED BY <4>1, <4>2, Zenon
    <3>3. 1 .. n = 1 .. Len(reset) \cup {n}
      BY <3>1
    <3> QED BY <3>1, <3>2, <3>3
  <2> HIDE DEF n
  <2>4. job'[w].op = "request" /\ job'[w].at = "sms"
    BY <1>0, <1>6, <2>1, ZenonT(40) DEF RequestInsert, TypeInv, TypeOK, Job
  <2>b. \A v \in Workers : job'[v].op = "confirm" => job'[v] = job[v] /\ job[v].r \in DOMAIN reset
    BY <1>0, <1>1, <2>4
  <2>5. CodeWorksOnce'
    BY <2>2, <2>3 DEF ResetInv, CodeWorksOnce
  <2>6. OnceInv'
    BY <2>3, <2>b, OnceKept
  <2>7. LastInv'
    <3> SUFFICES ASSUME "request" \notin overlapped PROVE LastInv'
      BY <1>1 DEF LastInv
    <3>1. \A v \in Workers : job[v].op = "request" => v = w
      BY <2>1 DEF ResetInv, LastInv
    <3>2. \A v \in Workers : job'[v].op = "request" => v = w
      BY <1>1, <3>1
    <3>3. \A i \in DOMAIN reset : reset[i].m = job[w].m => reset[i].used
      BY <2>1 DEF ResetInv, LastInv, At
    <3>4. \A i, j \in DOMAIN reset : reset[i].m = reset[j].m /\ ~reset[i].used => j <= i
      BY DEF ResetInv, LastInv
    <3>5. \A i, j \in DOMAIN reset' : reset'[i].m = reset'[j].m /\ ~reset'[i].used => j <= i
      BY <2>2, <2>3, <3>3, <3>4
    <3> QED BY <2>4, <3>2, <3>5 DEF LastInv, At
  <2>8. LimitInv'
    <3>1. \A v \in Workers : At(v, "confirm", "wrong")' => job'[v] = job[v] /\ job[v].r \in DOMAIN reset
      BY <2>b DEF At
    <3>2. \A v \in Workers : job'[v].op = "confirm" => job[v].op = "confirm"
      BY <2>b
    <3>3. \A i \in DOMAIN reset' : i \in DOMAIN reset \/ reset'[i].attempts <= MaxResetAttempts
      BY <2>2, <2>3, BoundsAssumption
    <3> QED BY <1>1, <2>3, <3>1, <3>2, <3>3, LimitKept
  <2> QED BY <2>5, <2>6, <2>7, <2>8 DEF ResetInv
<1>7. ASSUME ConfirmWrong(w) \/ ConfirmCas(w) \/ ConfirmWrite(w) PROVE ResetInv'
  <2> DEFINE i == job[w].r
  <2>1. job[w].op = "confirm" /\ i \in DOMAIN reset /\ reset[i] \in ResetRow
        /\ reset[i].attempts \in Nat /\ reset[i].changes \in Nat /\ reset[i].used \in BOOLEAN
    BY <1>0, <1>2, <1>7 DEF ConfirmWrong, ConfirmCas, ConfirmWrite, At, ResetRow
  <2> DEFINE wrong == [reset[i] EXCEPT !.attempts = reset[i].attempts + 1]
             used == [reset[i] EXCEPT !.used = TRUE]
             changed == [reset[i] EXCEPT !.changes = reset[i].changes + 1]
  <2>a. /\ ConfirmWrong(w) => reset' = [reset EXCEPT ![i] = wrong]
        /\ ConfirmCas(w) => (reset' = reset /\ reset[i].used) \/ reset' = [reset EXCEPT ![i] = used]
        /\ ConfirmWrite(w) => reset' = [reset EXCEPT ![i] = changed]
    BY DEF ConfirmWrong, ConfirmCas, ConfirmWrite, IsUnused
  <2>b. /\ wrong.m = reset[i].m /\ wrong.attempts = reset[i].attempts + 1
        /\ wrong.used = reset[i].used /\ wrong.changes = reset[i].changes
        /\ used.m = reset[i].m /\ used.attempts = reset[i].attempts
        /\ used.used = TRUE /\ used.changes = reset[i].changes
        /\ changed.m = reset[i].m /\ changed.attempts = reset[i].attempts
        /\ changed.used = reset[i].used /\ changed.changes = reset[i].changes + 1
    BY <2>1 DEF ResetRow
  <2> HIDE DEF wrong, used, changed
  <2>c. ASSUME NEW y, reset' = [reset EXCEPT ![i] = y]
        PROVE  DOMAIN reset' = DOMAIN reset /\ reset'[i] = y /\ \A h \in DOMAIN reset : h # i => reset'[h] = reset[h]
    BY <1>0, <2>1, <2>c, CodeUpdate
  <2>d. w \in DOMAIN job /\ job[w] \in Job
    BY <1>0 DEF TypeInv, TypeOK
  <2>e. Finish(w) => job'[w] = NoJob
    BY <2>d DEF Finish
  <2>2. /\ DOMAIN reset' = DOMAIN reset /\ \A h \in DOMAIN reset : h # i => reset'[h] = reset[h]
        /\ reset'[i].m = reset[i].m
    BY <1>7, <2>a, <2>b, <2>c
  <2>3. \A v \in Workers : job'[v].op = "request" => job'[v] = job[v]
    BY <1>1, <2>1 DEF Follows, NoJob
  <2>4. (reset[i].used => reset'[i].used) /\ reset'[i].used \in BOOLEAN
    BY <1>7, <2>1, <2>a, <2>b, <2>c
  <2>5. LastInv'
    <3> SUFFICES ASSUME "request" \notin overlapped PROVE LastInv'
      BY <1>1 DEF LastInv
    <3>1. \A h \in DOMAIN reset : reset'[h].m = reset[h].m /\ (reset[h].used => reset'[h].used)
      BY <2>2, <2>4
    <3>2. \A u, v \in Workers : job'[u].op = "request" /\ job'[v].op = "request" => u = v
      BY <2>3 DEF ResetInv, LastInv
    <3>3. \A v \in Workers : At(v, "request", "insert code")' => At(v, "request", "insert code") /\ job'[v] = job[v]
      BY <2>3 DEF At
    <3>4. \A v \in Workers : At(v, "request", "insert code")' =>
             \A h \in DOMAIN reset' : reset'[h].m = job'[v].m => reset'[h].used
      BY <2>2, <3>1, <3>3, ZenonT(40) DEF ResetInv, LastInv
    <3>5. \A h, j \in DOMAIN reset' : reset'[h].m = reset'[j].m /\ ~reset'[h].used => j <= h
      BY <2>2, <3>1 DEF ResetInv, LastInv
    <3> QED BY <3>2, <3>4, <3>5 DEF LastInv
  <2>6. CASE ConfirmWrong(w)
    <3>1. /\ At(w, "confirm", "wrong") /\ job'[w] = NoJob
          /\ reset'[i].attempts = reset[i].attempts + 1
          /\ reset'[i].used = reset[i].used /\ reset'[i].changes = reset[i].changes
      BY <2>6, <2>a, <2>b, <2>c, <2>e DEF ConfirmWrong
    <3>2. CodeWorksOnce'
      BY <2>2, <3>1 DEF ResetInv, CodeWorksOnce
    <3>3. \A h \in DOMAIN reset : reset'[h].used = reset[h].used /\ reset'[h].changes = reset[h].changes
      BY <2>2, <3>1
    <3>4. OnceInv'
      <4>1. \A v \in Workers : job'[v].op = "confirm" => job'[v] = job[v] /\ job[v].r \in DOMAIN reset
        BY <1>0, <1>1, <3>1 DEF NoJob
      <4> QED BY <3>3, <4>1, OnceKept
    <3>5. LimitInv'
      <4> SUFFICES ASSUME "confirm" \notin overlapped PROVE LimitInv'
        BY <1>1 DEF LimitInv
      <4>1. \A v \in Workers : job'[v].op # "confirm"
        BY <1>1, <2>1, <3>1 DEF ResetInv, LimitInv, NoJob
      <4>2. reset[i].attempts < MaxResetAttempts /\ MaxResetAttempts \in Nat
        BY <3>1 DEF ResetInv, LimitInv
      <4>3. \A h \in DOMAIN reset' : reset'[h].attempts <= MaxResetAttempts
        BY <2>1, <2>2, <3>1, <4>2 DEF ResetInv, LimitInv
      <4> QED BY <4>1, <4>3 DEF LimitInv, At
    <3> QED BY <2>5, <3>2, <3>4, <3>5 DEF ResetInv
  <2>7. CASE ConfirmWrite(w)
    <3>1. /\ At(w, "confirm", "password") /\ job'[w] = NoJob
          /\ reset'[i].attempts = reset[i].attempts
          /\ reset'[i].used = reset[i].used /\ reset'[i].changes = reset[i].changes + 1
      BY <2>7, <2>a, <2>b, <2>c, <2>e DEF ConfirmWrite
    <3>2. reset[i].used /\ reset[i].changes = 0
      BY <3>1 DEF ResetInv, OnceInv
    <3>3. CodeWorksOnce'
      <4>1. reset'[i].changes <= IF reset'[i].used THEN 1 ELSE 0
        BY <3>1, <3>2
      <4> HIDE DEF i
      <4> QED BY <2>2, <4>1 DEF ResetInv, CodeWorksOnce
    <3>4. \A v \in Workers : v # w /\ At(v, "confirm", "password") => job[v].r # i
      BY <3>1 DEF ResetInv, OnceInv
    <3>5. OnceInv'
      <4>1. \A v \in Workers : At(v, "confirm", "password")' =>
               /\ At(v, "confirm", "password") /\ job'[v].r = job[v].r /\ job[v].r # i
               /\ job[v].r \in DOMAIN reset
        BY <1>0, <1>1, <3>1, <3>4 DEF At, NoJob
      <4>2. \A v \in Workers : At(v, "confirm", "password")' =>
               reset'[job'[v].r].used /\ reset'[job'[v].r].changes = 0
        BY <2>2, <4>1 DEF ResetInv, OnceInv
      <4>3. \A u, v \in Workers :
               At(u, "confirm", "password")' /\ At(v, "confirm", "password")' /\ job'[u].r = job'[v].r => u = v
        BY <4>1 DEF ResetInv, OnceInv
      <4> QED BY <4>2, <4>3 DEF OnceInv
    <3>6. \A h \in DOMAIN reset : reset'[h].attempts = reset[h].attempts
      BY <2>2, <3>1
    <3>7. LimitInv'
      BY <1>0, <1>1, <2>2, <3>1, <3>6 DEF ResetInv, LimitInv, At, NoJob
    <3> QED BY <2>5, <3>3, <3>5, <3>7 DEF ResetInv
  <2>8. CASE ConfirmCas(w) /\ reset[i].used
    <3>1. reset' = reset /\ job'[w] = NoJob
      <4>1. Finish(w) /\ reset' = reset
        BY <2>8 DEF ConfirmCas, IsUnused
      <4> QED BY <4>1, <2>e
    <3> QED BY <1>1, <3>1, ResetQuiet DEF NoJob
  <2>9. CASE ConfirmCas(w) /\ ~reset[i].used
    <3>1. /\ job'[w].op = "confirm" /\ job'[w].at = "password" /\ job'[w].r = i
          /\ reset'[i].attempts = reset[i].attempts
          /\ reset'[i].used = TRUE /\ reset'[i].changes = reset[i].changes
      <4>1. reset' = [reset EXCEPT ![i] = used]
        BY <2>9, <2>a
      <4>2. job' = [job EXCEPT ![w].at = "password"]
        BY <2>9 DEF ConfirmCas, IsUnused, Goto
      <4>3. job'[w].op = job[w].op /\ job'[w].at = "password" /\ job'[w].r = job[w].r
        BY <2>d, <4>2 DEF Job
      <4> QED BY <2>1, <2>b, <2>c, <4>1, <4>3
    <3>2. reset[i].changes = 0
      BY <2>1, <2>9 DEF ResetInv, CodeWorksOnce
    <3>3. CodeWorksOnce'
      BY <2>2, <3>1, <3>2 DEF ResetInv, CodeWorksOnce
    <3>4. \A v \in Workers : At(v, "confirm", "password") => job[v].r # i
      BY <2>9 DEF ResetInv, OnceInv
    <3>5. OnceInv'
      <4>1. \A v \in Workers : v # w /\ At(v, "confirm", "password")' =>
               /\ At(v, "confirm", "password") /\ job'[v].r = job[v].r /\ job[v].r # i
               /\ job[v].r \in DOMAIN reset
        BY <1>0, <1>1, <3>4 DEF At
      <4>2. \A v \in Workers : At(v, "confirm", "password")' =>
               reset'[job'[v].r].used /\ reset'[job'[v].r].changes = 0
        BY <2>2, <3>1, <3>2, <4>1 DEF ResetInv, OnceInv
      <4>3. \A u, v \in Workers :
               At(u, "confirm", "password")' /\ At(v, "confirm", "password")' /\ job'[u].r = job'[v].r => u = v
        BY <3>1, <4>1 DEF ResetInv, OnceInv
      <4> QED BY <4>2, <4>3 DEF OnceInv
    <3>6. \A h \in DOMAIN reset : reset'[h].attempts = reset[h].attempts
      BY <2>2, <3>1
    <3>7. LimitInv'
      <4>1. \A v \in Workers : job'[v].op = "confirm" => job[v].op = "confirm"
        BY <1>1, <2>1
      <4>2. \A v \in Workers : At(v, "confirm", "wrong")' => job'[v] = job[v] /\ job[v].r \in DOMAIN reset
        BY <1>0, <1>1, <3>1 DEF At
      <4> QED BY <1>1, <2>2, <3>6, <4>1, <4>2, LimitKept
    <3> QED BY <2>5, <3>3, <3>5, <3>7 DEF ResetInv
  <2> QED BY <1>7, <2>6, <2>7, <2>8, <2>9
<1> QED
  <2>1. CASE job[w].op = "request"
    BY <1>0, <1>4, <1>5, <1>6, <2>1 DEF Proceed, InsertMember, RegisterFindSystem, RegisterCreateSystem, MobileWrite,
       PromoteCreateUser, PromoteCas, PromoteUndo, CodeCheck, CodeWrite, ConfirmWrong, ConfirmCas, ConfirmWrite,
       At, ShapedJob
  <2>2. CASE job[w].op = "confirm"
    BY <1>0, <1>7, <2>2 DEF Proceed, InsertMember, RegisterFindSystem, RegisterCreateSystem, MobileWrite,
       PromoteCreateUser, PromoteCas, PromoteUndo, CodeCheck, CodeWrite, RequestInvalidate, RequestInsert, RequestSms,
       At, ShapedJob
  <2> QED BY <1>3, <2>1, <2>2

LEMMA AlwaysReset == Spec => []ResetInv
<1>1. TypeInv /\ ResetInv /\ [Next]_vars => ResetInv'
  <2> SUFFICES ASSUME TypeInv, ResetInv, [Next]_vars PROVE ResetInv'
    OBVIOUS
  <2>1. ASSUME NEW w \in Workers, Abort(w) PROVE ResetInv'
    <3>1. reset' = reset /\ overlapped' = overlapped /\ job' = [job EXCEPT ![w] = NoJob]
      BY <2>1 DEF Abort, rows
    <3>2. \A v \in Workers : job'[v].op \in {"request", "confirm"} => job'[v] = job[v]
      BY <3>1 DEF NoJob, TypeInv, TypeOK
    <3> QED BY <3>1, <3>2, ResetQuiet
  <2>2. CASE \/ \E m \in Members : Suspend(m) \/ Reactivate(m)
             \/ Tick \/ UNCHANGED vars
    <3>1. UNCHANGED <<reset, job, overlapped>>
      BY <2>2 DEF Suspend, Reactivate, SetStatus, Tick, vars, rows
    <3> QED BY <3>1, ResetQuiet
  <2> QED BY <2>1, <2>2, StartReset, ProceedReset DEF Next
<1> QED BY InitType, NextType, InitReset, <1>1, PTL DEF Spec

\* A code changes a password once, however many handlers confirm it together.
THEOREM CodeOnce == Spec => []CodeWorksOnce
  BY AlwaysReset, PTL DEF ResetInv

\* Only a member's last code works, unless two handlers that send one overlapped.
THEOREM LastCode == Spec => []OnlyLastCodeWorks
<1>1. ResetInv => OnlyLastCodeWorks
  BY DEF ResetInv, LastInv, OnlyLastCodeWorks, ResetsOf
<1> QED BY <1>1, AlwaysReset, PTL

\* A code is guessed wrong at most MaxResetAttempts times, unless tries overlapped.
THEOREM Limited == Spec => []AttemptsLimited
<1>1. ResetInv => AttemptsLimited
  BY DEF ResetInv, LimitInv, AttemptsLimited
<1> QED BY <1>1, AlwaysReset, PTL

-----------------------------------------------------------------------------
(* Staff accounts.                                                         *)

\* Every handler has a number of its own, and accounts have those of handlers.
NumberInv ==
    /\ \A w \in Workers : job[w].op # "idle" => job[w].n \in 1..started
    /\ \A v, w \in Workers : v # w /\ job[v].op # "idle" /\ job[w].op # "idle" => job[v].n # job[w].n
    /\ \A u \in users : u.id \in 1..started

\* A handler before it creates an account, and one that has created one for a
\* promotion that it has not made, or could not make.
Pending(j) ==
    \/ j.op = "promote" /\ j.at = "account"
    \/ j.op = "register" /\ j.at \in {"system", "account"}
Undecided(j) == j.op = "promote" /\ j.at \in {"cas", "undo"}
PromotedByOne(id) == \E m \in Members : \A o \in Members : member[o].promotedTo = id <=> o = m

UserInv ==
    /\ \A u, v \in users : u.id = v.id \/ u.email = v.email => u = v
    /\ \A u \in users : \/ u.email = SystemEmail \/ PromotedByOne(u.id) \/ aborts > 0
                        \/ \E w \in Workers : job[w].op = "promote" /\ job[w].n = u.id
HandlerInv ==
    \A w \in Workers :
        /\ Pending(job[w]) => \A u \in users : u.id # job[w].n
        /\ Undecided(job[w]) => /\ \E u \in users : u.id = job[w].n /\ u.email # SystemEmail
                                /\ \A m \in Members : member[m].promotedTo # job[w].n
        /\ job[w].op = "create" => job[w].u = 0
        /\ job[w].op = "register" /\ job[w].at = "insert" => \E u \in SystemUsers : u.id = job[w].u
OwnerInv ==
    \A m \in Members :
        /\ ~Exists(m) => member[m].promotedTo = 0
        /\ member[m].promotedTo # 0 => \E u \in users : u.id = member[m].promotedTo
        /\ member[m].createdBy # 0 => \E u \in SystemUsers : u.id = member[m].createdBy
AccountInv == NumberInv /\ UserInv /\ HandlerInv /\ OwnerInv

\* Which account a step creates or takes back, and where its handler goes.
LEMMA UserWrites ==
    ASSUME TypeInv, NEW w \in Workers, Proceed(w)
    PROVE  \/ users' = users
           \/ /\ member' = member /\ UNCHANGED aborts
              /\ \/ /\ job[w].op = "register" /\ job[w].at = "account" /\ SystemUsers = {}
                    /\ users' = users \cup {[id |-> job[w].n, email |-> SystemEmail]}
                    /\ job'[w].at = "insert" /\ job'[w].u = job[w].n
                 \/ /\ job[w].op = "promote" /\ job[w].at = "account" /\ ~EmailTaken(job[w].email)
                    /\ users' = users \cup {[id |-> job[w].n, email |-> job[w].email]}
                    /\ job'[w].at = "cas"
                 \/ /\ job[w].op = "promote" /\ job[w].at = "undo"
                    /\ users' = {u \in users : u.id # job[w].n} /\ job'[w] = NoJob
<1>0. job \in [Workers -> ShapedJob] /\ job[w] \in Job
  BY DEF TypeInv, TypeOK
<1>1. CASE RegisterCreateSystem(w) /\ users' # users
  <2>1. /\ job[w].op = "register" /\ job[w].at = "account" /\ ~EmailTaken(SystemEmail) /\ member' = member
        /\ users' = users \cup {[id |-> job[w].n, email |-> SystemEmail]}
        /\ GotoInsertFor(w, job[w].n)
    BY <1>1 DEF RegisterCreateSystem, At
  <2>2. job[w].n \in Nat
    BY <1>0 DEF Job
  <2>3. /\ [job[w] EXCEPT !.at = "insert", !.u = job[w].n].at = "insert"
        /\ [job[w] EXCEPT !.at = "insert", !.u = job[w].n].u = job[w].n
    BY <1>0 DEF Job
  <2>4. job'[w] = [job[w] EXCEPT !.at = "insert", !.u = job[w].n] /\ UNCHANGED aborts
    BY <1>0, <2>1, <2>2, InsertForFollows DEF GotoInsertFor
  <2> QED BY <2>1, <2>3, <2>4 DEF EmailTaken, SystemUsers
<1>2. CASE PromoteCreateUser(w) /\ users' # users
  <2>1. /\ job[w].op = "promote" /\ job[w].at = "account" /\ ~EmailTaken(job[w].email) /\ member' = member
        /\ users' = users \cup {[id |-> job[w].n, email |-> job[w].email]}
        /\ Goto(w, "cas")
    BY <1>2 DEF PromoteCreateUser, At
  <2>2. job' = [job EXCEPT ![w] = [job[w] EXCEPT !.at = "cas"]] /\ UNCHANGED aborts
    BY <2>1, GotoFollows DEF Goto
  <2>3. job'[w] = [job[w] EXCEPT !.at = "cas"] /\ [job[w] EXCEPT !.at = "cas"].at = "cas"
    BY <1>0, <2>2 DEF Job
  <2> QED BY <2>1, <2>2, <2>3
<1>3. CASE PromoteUndo(w)
  BY <1>0, <1>3 DEF PromoteUndo, At, Finish
<1> QED BY <1>1, <1>2, <1>3, Writers

\* Numbers are given once.
LEMMA NumberStep == TypeInv /\ NumberInv /\ [Next]_vars => NumberInv'
<1> SUFFICES ASSUME TypeInv, NumberInv, [Next]_vars PROVE NumberInv'
  OBVIOUS
<1>0. started \in Nat /\ \A w \in Workers : job[w] \in Job
  BY DEF TypeInv, TypeOK
<1>1. ASSUME NEW w \in Workers, Start(w) PROVE NumberInv'
  <2>1. PICK k \in ShapedJob : Begun(w, k) /\ Found(k)
    BY <1>1, StartBegun
  <2>2. job'[w] = k /\ \A v \in Workers : v # w => job'[v] = job[v]
    BY <2>1, JobUpdate DEF Begun
  <2>3. users' = users /\ started' = started + 1 /\ k.n = started + 1
    BY <2>1 DEF Begun, rows
  <2> QED BY <1>0, <2>2, <2>3 DEF NumberInv
<1>2. ASSUME NEW w \in Workers, Proceed(w) \/ Abort(w) PROVE NumberInv'
  <2>1. /\ started' = started /\ \A v \in Workers : v # w => job'[v] = job[v]
        /\ job'[w].op # "idle" => job'[w].op = job[w].op /\ job'[w].n = job[w].n
    BY <1>2, Stepped DEF Follows, NoJob
  <2>2. \A u \in users' : u \in users \/ (job[w].op # "idle" /\ u.id = job[w].n)
    <3>1. CASE Proceed(w)
      BY <3>1, UserWrites
    <3>2. CASE Abort(w)
      BY <3>2 DEF Abort, rows
    <3> QED BY <1>2, <3>1, <3>2
  <2> QED BY <2>1, <2>2 DEF NumberInv
<1>3. ASSUME NEW m \in Members, Suspend(m) \/ Reactivate(m) PROVE NumberInv'
  BY <1>3 DEF Suspend, Reactivate, SetStatus, NumberInv
<1>4. CASE Tick \/ UNCHANGED vars
  BY <1>4 DEF Tick, vars, rows, NumberInv
<1> QED BY <1>1, <1>2, <1>3, <1>4 DEF Next

\* A handler that goes on has not failed.
LEMMA ProceedAborts ==
    ASSUME NEW w \in Workers, Proceed(w)
    PROVE  aborts' = aborts
  BY DEF Proceed, InsertMember, RegisterFindSystem, RegisterCreateSystem, MobileWrite,
     PromoteCreateUser, PromoteCas, PromoteUndo, CodeCheck, CodeWrite, RequestInvalidate, RequestInsert,
     RequestSms, ConfirmWrong, ConfirmCas, ConfirmWrite, Goto, GotoInsertFor, Finish

\* A step that is not about accounts, or the failure of one that is.
LEMMA AccountsQuiet ==
    ASSUME AccountInv, users' = users, aborts > 0 => aborts' > 0,
           \A m \in Members : /\ Exists(m) => Exists(m)'
                              /\ member'[m].promotedTo = member[m].promotedTo
                              /\ member'[m].createdBy = member[m].createdBy,
           \A w \in Workers : job'[w].op \in {"create", "register", "promote"} => job'[w] = job[w],
           \A w \in Workers : job[w].op = "promote" => job'[w] = job[w] \/ aborts' > 0
    PROVE  UserInv' /\ HandlerInv' /\ OwnerInv'
<1>1. UserInv'
  BY DEF AccountInv, UserInv, PromotedByOne
<1>2. HandlerInv'
  BY DEF AccountInv, HandlerInv, Pending, Undecided, SystemUsers
<1>3. OwnerInv'
  BY DEF AccountInv, OwnerInv, SystemUsers
<1> QED BY <1>1, <1>2, <1>3

\* A handler begins.
LEMMA AccountsStart ==
    ASSUME TypeInv, AccountInv, NEW w \in Workers, Start(w)
    PROVE  UserInv' /\ HandlerInv' /\ OwnerInv'
<1>1. PICK k \in ShapedJob : Begun(w, k) /\ Found(k)
  BY StartBegun
<1>2. job'[w] = k /\ \A v \in Workers : v # w => job'[v] = job[v]
  BY <1>1, JobUpdate DEF Begun
<1>3. users' = users /\ member' = member /\ aborts' = aborts /\ k.n = started + 1 /\ job[w].op = "idle"
  BY <1>1 DEF Begun, rows
<1>4. \A u \in users : u.id # k.n
  <2>1. started \in Nat
    BY DEF TypeInv, TypeOK
  <2> QED BY <1>3, <2>1 DEF AccountInv, NumberInv
<1>5. UserInv'
  BY <1>2, <1>3 DEF AccountInv, UserInv, PromotedByOne
<1>6. HandlerInv'
  BY <1>1, <1>2, <1>3, <1>4 DEF AccountInv, HandlerInv, Pending, Undecided, SystemUsers, Found
<1>7. OwnerInv'
  BY <1>3 DEF AccountInv, OwnerInv, SystemUsers, Exists
<1> QED BY <1>5, <1>6, <1>7

\* A member is entered, by staff or for the system.
LEMMA AccountsInsert ==
    ASSUME TypeInv, AccountInv, NEW w \in Workers, Proceed(w), member' # member,
           job[w].op \in {"create", "register"}
    PROVE  UserInv' /\ HandlerInv' /\ OwnerInv'
<1>1. PICK m \in Members :
         /\ job[w].at = "insert" /\ ~Exists(m) /\ Exists(m)'
         /\ member'[m].promotedTo = 0 /\ member'[m].createdBy = job[w].u
         /\ \A o \in Members : o # m => member'[o] = member[o]
         /\ job'[w] = NoJob /\ users' = users
  BY MemberWrites
<1>2. aborts' = aborts /\ \A v \in Workers : v # w => job'[v] = job[v]
  BY Stepped, ProceedAborts
<1>3. \A o \in Members : member'[o].promotedTo = member[o].promotedTo /\ (Exists(o) => Exists(o)')
  BY <1>1 DEF AccountInv, OwnerInv, Exists
<1>4. member'[m].createdBy # 0 => \E u \in SystemUsers : u.id = member'[m].createdBy
  BY <1>1 DEF AccountInv, HandlerInv
<1>5. UserInv'
  BY <1>1, <1>2, <1>3 DEF AccountInv, UserInv, PromotedByOne
<1>6. HandlerInv'
  BY <1>1, <1>2, <1>3 DEF AccountInv, HandlerInv, Pending, Undecided, SystemUsers, NoJob
<1>7. OwnerInv'
  BY <1>1, <1>3, <1>4 DEF AccountInv, OwnerInv, SystemUsers
<1> QED BY <1>5, <1>6, <1>7

\* A promotion is made, with an account that nobody else was promoted to.
LEMMA AccountsPromote ==
    ASSUME TypeInv, AccountInv, NEW w \in Workers, Proceed(w), member' # member, job[w].op = "promote"
    PROVE  UserInv' /\ HandlerInv' /\ OwnerInv'
<1> DEFINE m == job[w].m
           x == [member[m] EXCEPT !.promotedTo = job[w].n]
<1>0. member \in [Members -> MemberRow] /\ m \in Members /\ member[m] \in MemberRow
  BY DEF TypeInv, TypeOK, ShapedJob
<1>1. /\ job[w].at = "cas" /\ MayPromote(m) /\ member' = [member EXCEPT ![m] = x]
      /\ job'[w] = NoJob /\ users' = users
  BY MemberWrites
<1>2. aborts' = aborts /\ \A v \in Workers : v # w => job'[v] = job[v]
  BY Stepped, ProceedAborts
<1>3. x.status = member[m].status /\ x.createdBy = member[m].createdBy /\ x.promotedTo = job[w].n
  BY <1>0 DEF MemberRow
<1> HIDE DEF x
<1>4. /\ member[m].promotedTo = 0 /\ member'[m].promotedTo = job[w].n
      /\ \A o \in Members : /\ Exists(o)' = Exists(o) /\ member'[o].createdBy = member[o].createdBy
                            /\ o # m => member'[o].promotedTo = member[o].promotedTo
  BY <1>0, <1>1, <1>3 DEF MayPromote, Exists
<1>5. /\ \A o \in Members : member[o].promotedTo # job[w].n
      /\ \E u \in users : u.id = job[w].n
  BY <1>1 DEF AccountInv, HandlerInv, Undecided
<1>6. /\ \A u \in users : u.id # 0
      /\ \A v \in Workers : v # w /\ job[v].op # "idle" => job[v].n # job[w].n
  BY DEF AccountInv, NumberInv
<1>7. \A u \in users : PromotedByOne(u.id) \/ u.id = job[w].n => PromotedByOne(u.id)'
  BY <1>0, <1>4, <1>5, <1>6 DEF PromotedByOne
<1>8. UserInv'
  BY <1>1, <1>2, <1>7 DEF AccountInv, UserInv
<1>9. HandlerInv'
  BY <1>0, <1>1, <1>2, <1>4, <1>6 DEF AccountInv, HandlerInv, Pending, Undecided, SystemUsers, NoJob
<1>10. OwnerInv'
  BY <1>0, <1>1, <1>4, <1>5 DEF AccountInv, OwnerInv, SystemUsers, MayPromote, Exists
<1> QED BY <1>8, <1>9, <1>10

\* The system's account is created.
LEMMA AccountsSystem ==
    ASSUME TypeInv, AccountInv, NEW w \in Workers, Proceed(w), users' # users, job[w].op = "register"
    PROVE  UserInv' /\ HandlerInv' /\ OwnerInv'
<1>1. /\ member' = member /\ job[w].at = "account" /\ SystemUsers = {}
      /\ users' = users \cup {[id |-> job[w].n, email |-> SystemEmail]}
      /\ job'[w].at = "insert" /\ job'[w].u = job[w].n
  BY UserWrites
<1>2. /\ aborts' = aborts /\ \A v \in Workers : v # w => job'[v] = job[v]
      /\ job'[w].op = "register" /\ job'[w].n = job[w].n
  BY <1>1, Stepped, ProceedAborts DEF Follows, NoJob
<1>3. /\ \A u \in users : u.id # job[w].n /\ u.email # SystemEmail
      /\ \A v \in Workers : v # w /\ job[v].op # "idle" => job[v].n # job[w].n
  BY <1>1 DEF AccountInv, HandlerInv, NumberInv, Pending, SystemUsers
<1>4. UserInv'
  BY <1>1, <1>2, <1>3 DEF AccountInv, UserInv, PromotedByOne
<1>5. HandlerInv'
  BY <1>1, <1>2, <1>3 DEF AccountInv, HandlerInv, Pending, Undecided, SystemUsers
<1>6. OwnerInv'
  BY <1>1 DEF AccountInv, OwnerInv, SystemUsers, Exists
<1> QED BY <1>4, <1>5, <1>6

\* An account is created for a promotion that is still to be made.
LEMMA AccountsCreate ==
    ASSUME TypeInv, AccountInv, NEW w \in Workers, Proceed(w), users' # users,
           job[w].op = "promote", job[w].at = "account"
    PROVE  UserInv' /\ HandlerInv' /\ OwnerInv'
<1>1. /\ member' = member /\ ~EmailTaken(job[w].email)
      /\ users' = users \cup {[id |-> job[w].n, email |-> job[w].email]}
      /\ job'[w].at = "cas"
  BY UserWrites
<1>2. /\ aborts' = aborts /\ \A v \in Workers : v # w => job'[v] = job[v]
      /\ job'[w].op = "promote" /\ job'[w].n = job[w].n
  BY <1>1, Stepped, ProceedAborts DEF Follows, NoJob
<1>3. /\ \A u \in users : u.id # job[w].n /\ u.email # job[w].email
      /\ \A v \in Workers : v # w /\ job[v].op # "idle" => job[v].n # job[w].n
      /\ job[w].n # 0 /\ job[w].email # SystemEmail
  <2>1. \A u \in users : u.id # job[w].n /\ u.email # job[w].email
    BY <1>1 DEF AccountInv, HandlerInv, Pending, EmailTaken
  <2>2. job[w].n \in 1..started /\ \A v \in Workers : v # w /\ job[v].op # "idle" => job[v].n # job[w].n
    BY DEF AccountInv, NumberInv
  <2>3. job[w].email \in Emails /\ started \in Nat
    BY DEF TypeInv, TypeOK, ShapedJob
  <2> QED BY <2>1, <2>2, <2>3
<1>4. \A m \in Members : member[m].promotedTo # job[w].n
  BY <1>3 DEF AccountInv, OwnerInv
<1>5. UserInv'
  BY <1>1, <1>2, <1>3 DEF AccountInv, UserInv, PromotedByOne
<1>6. HandlerInv'
  BY <1>1, <1>2, <1>3, <1>4 DEF AccountInv, HandlerInv, Pending, Undecided, SystemUsers
<1>7. OwnerInv'
  BY <1>1 DEF AccountInv, OwnerInv, SystemUsers, Exists
<1> QED BY <1>5, <1>6, <1>7

\* The account of a promotion that was not made is taken back: it is nobody's.
LEMMA AccountsUndo ==
    ASSUME TypeInv, AccountInv, NEW w \in Workers, Proceed(w), users' # users,
           job[w].op = "promote", job[w].at = "undo"
    PROVE  UserInv' /\ HandlerInv' /\ OwnerInv'
<1>1. member' = member /\ users' = {u \in users : u.id # job[w].n} /\ job'[w] = NoJob
  BY UserWrites
<1>2. aborts' = aborts /\ \A v \in Workers : v # w => job'[v] = job[v]
  BY Stepped, ProceedAborts
<1>3. /\ \A m \in Members : member[m].promotedTo # job[w].n
      /\ \A u \in SystemUsers : u \in users'
  BY <1>1 DEF AccountInv, HandlerInv, UserInv, Undecided, SystemUsers
<1>4. \A v \in Workers : v # w /\ job[v].op # "idle" => job[v].n # job[w].n
  BY DEF AccountInv, NumberInv
<1>5. SystemUsers' = SystemUsers
  BY <1>1, <1>3 DEF SystemUsers
<1>6. UserInv'
  BY <1>1, <1>2 DEF AccountInv, UserInv, PromotedByOne
<1>7. HandlerInv'
  BY <1>1, <1>2, <1>4, <1>5 DEF AccountInv, HandlerInv, Pending, Undecided, NoJob
<1>8. OwnerInv'
  BY <1>1, <1>3, <1>5 DEF AccountInv, OwnerInv, Exists
<1> QED BY <1>6, <1>7, <1>8

\* Where a handler about accounts goes with a step that writes no row.
LEMMA ReadSteps ==
    ASSUME TypeInv, NumberInv, NEW w \in Workers, Proceed(w), users' = users, member' = member,
           job[w].op \in {"create", "register", "promote"}
    PROVE  \/ job'[w] = NoJob /\ (job[w].op = "promote" => job[w].at \in {"account", "undo"})
           \/ job[w].op = "register" /\ job[w].at = "system" /\ job'[w].at = "account"
           \/ job[w].op = "register" /\ job'[w].at = "insert" /\ \E u \in SystemUsers : job'[w].u = u.id
           \/ job[w].op = "promote" /\ job[w].at = "cas" /\ job'[w].at = "undo"
<1>0. job \in [Workers -> ShapedJob] /\ job[w] \in Job /\ job[w] \in ShapedJob /\ users \subseteq User
  BY DEF TypeInv, TypeOK
<1>1. CASE job[w].at = "insert"
  <2>1. \E m \in Members : InsertMember(w, m)
    BY <1>0, <1>1 DEF Proceed, RegisterFindSystem, RegisterCreateSystem, MobileWrite, PromoteCreateUser, PromoteCas,
       PromoteUndo, CodeCheck, CodeWrite, RequestInvalidate, RequestInsert, RequestSms, ConfirmWrong, ConfirmCas,
       ConfirmWrite, At
  <2>2. job'[w] = NoJob
    BY <1>0, <2>1 DEF InsertMember, Finish
  <2>3. job[w].op # "promote"
    BY <1>0, <1>1 DEF ShapedJob
  <2> QED BY <2>2, <2>3
<1>2. ASSUME NEW u \in SystemUsers, GotoInsertFor(w, u.id), job[w].op = "register"
      PROVE  job'[w].at = "insert" /\ job'[w].u = u.id
  <2>1. u.id \in Nat
    BY <1>0 DEF SystemUsers, User
  <2> DEFINE k == [job[w] EXCEPT !.at = "insert", !.u = u.id]
  <2>2. k.at = "insert" /\ k.u = u.id
    BY <1>0 DEF Job
  <2>3. job' = [job EXCEPT ![w] = k]
    BY <1>2, <2>1, InsertForFollows
  <2> HIDE DEF k
  <2> QED BY <1>0, <2>2, <2>3
<1>3. ASSUME NEW at, Goto(w, at), \/ job[w].op = "register" /\ at = "account"
                                  \/ job[w].op = "promote" /\ at \in {"cas", "undo"}
      PROVE  job'[w].at = at
  <2> DEFINE k == [job[w] EXCEPT !.at = at]
  <2>1. k.at = at
    BY <1>0 DEF Job
  <2>2. job' = [job EXCEPT ![w] = k]
    BY <1>3, GotoFollows
  <2> HIDE DEF k
  <2> QED BY <1>0, <2>1, <2>2
<1>4. CASE RegisterFindSystem(w)
  BY <1>2, <1>3, <1>4 DEF RegisterFindSystem, At
<1>5. CASE RegisterCreateSystem(w)
  <2>1. job[w].op = "register" /\ (EmailTaken(SystemEmail) => \E u \in SystemUsers : GotoInsertFor(w, u.id))
    BY <1>5 DEF RegisterCreateSystem, At
  <2>2. EmailTaken(SystemEmail)
    <3> DEFINE x == [id |-> job[w].n, email |-> SystemEmail]
    <3>1. EmailTaken(SystemEmail) \/ x \in users'
      BY <1>5 DEF RegisterCreateSystem
    <3>2. x.email = SystemEmail
      OBVIOUS
    <3> HIDE DEF x
    <3> QED BY <3>1, <3>2 DEF EmailTaken
  <2> QED BY <1>2, <2>1, <2>2
<1>6. CASE PromoteCreateUser(w)
  <2>1. EmailTaken(job[w].email)
    <3> DEFINE x == [id |-> job[w].n, email |-> job[w].email]
    <3>1. EmailTaken(job[w].email) \/ x \in users'
      BY <1>6 DEF PromoteCreateUser
    <3>2. x.email = job[w].email
      OBVIOUS
    <3> HIDE DEF x
    <3> QED BY <3>1, <3>2 DEF EmailTaken
  <2> QED BY <1>0, <1>6, <2>1 DEF PromoteCreateUser, Finish, At
<1>7. CASE PromoteCas(w)
  <2>1. ~MayPromote(job[w].m)
    <3> SUFFICES ASSUME MayPromote(job[w].m) PROVE FALSE
      OBVIOUS
    <3>1. job[w].m \in Members /\ member[job[w].m] \in MemberRow /\ member[job[w].m].promotedTo = 0
      BY <1>0, <1>7 DEF PromoteCas, At, ShapedJob, MayPromote, TypeInv, TypeOK
    <3>2. member'[job[w].m].promotedTo = job[w].n
      BY <1>7, <3>1 DEF PromoteCas, TypeInv, TypeOK, MemberRow
    <3>3. job[w].n # 0
      BY <1>7 DEF PromoteCas, At, NumberInv, TypeInv, TypeOK
    <3> QED BY <3>1, <3>2, <3>3
  <2> QED BY <1>3, <1>7, <2>1 DEF PromoteCas, At
<1>8. CASE PromoteUndo(w)
  BY <1>0, <1>8 DEF PromoteUndo, At, Finish
<1> QED BY <1>0, <1>1, <1>4, <1>5, <1>6, <1>7, <1>8 DEF Proceed, ShapedJob, InsertMember, MobileWrite, CodeCheck,
        CodeWrite, RequestInvalidate, RequestInsert, RequestSms, ConfirmWrong, ConfirmCas, ConfirmWrite, At

\* A handler looks, and goes on or ends.
LEMMA AccountsRead ==
    ASSUME TypeInv, AccountInv, NEW w \in Workers, Proceed(w), users' = users, member' = member,
           job[w].op \in {"create", "register", "promote"}
    PROVE  UserInv' /\ HandlerInv' /\ OwnerInv'
<1>1. /\ aborts' = aborts /\ \A v \in Workers : v # w => job'[v] = job[v]
      /\ job'[w] = NoJob \/ (job'[w].op = job[w].op /\ job'[w].n = job[w].n)
  BY Stepped, ProceedAborts DEF Follows
<1>2. \/ job'[w] = NoJob /\ (job[w].op = "promote" => job[w].at \in {"account", "undo"})
      \/ job[w].op = "register" /\ job[w].at = "system" /\ job'[w].at = "account"
      \/ job[w].op = "register" /\ job'[w].at = "insert" /\ \E u \in SystemUsers : job'[w].u = u.id
      \/ job[w].op = "promote" /\ job[w].at = "cas" /\ job'[w].at = "undo"
  BY ReadSteps DEF AccountInv
<1>3. ASSUME job'[w] = NoJob, job[w].op = "promote" PROVE \A u \in users : u.id # job[w].n
  <2>1. CASE job[w].at = "account"
    BY <1>3, <2>1 DEF AccountInv, HandlerInv, Pending
  <2>2. CASE job[w].at = "undo"
    <3>1. PromoteUndo(w)
      BY <1>3, <2>2 DEF Proceed, InsertMember, RegisterFindSystem, RegisterCreateSystem, MobileWrite, PromoteCreateUser,
         PromoteCas, CodeCheck, CodeWrite, RequestInvalidate, RequestInsert, RequestSms, ConfirmWrong, ConfirmCas,
         ConfirmWrite, At
    <3> QED BY <3>1 DEF PromoteUndo
  <2> QED BY <1>2, <1>3, <2>1, <2>2 DEF NoJob
<1>4. UserInv'
  <2>1. \A u, v \in users' : u.id = v.id \/ u.email = v.email => u = v
    BY DEF AccountInv, UserInv
  <2>2. ASSUME NEW u \in users', u.email # SystemEmail, ~PromotedByOne(u.id)', ~(aborts' > 0)
        PROVE  \E v \in Workers : job'[v].op = "promote" /\ job'[v].n = u.id
    <3>1. ~PromotedByOne(u.id)
      BY <2>2 DEF PromotedByOne
    <3>2. PICK v \in Workers : job[v].op = "promote" /\ job[v].n = u.id
      BY <1>1, <2>2, <3>1 DEF AccountInv, UserInv
    <3> QED BY <1>1, <1>3, <2>2, <3>2
  <2> QED BY <2>1, <2>2 DEF UserInv
<1>5. HandlerInv'
  BY <1>1, <1>2 DEF AccountInv, HandlerInv, Pending, Undecided, SystemUsers, NoJob
<1>6. OwnerInv'
  BY DEF AccountInv, OwnerInv, SystemUsers, Exists
<1> QED BY <1>4, <1>5, <1>6

\* Codes, mobile numbers and suspensions are no matter of accounts.
LEMMA AccountsElsewhere ==
    ASSUME TypeInv, AccountInv,
           \/ \E w \in Workers : Proceed(w) /\ job[w].op \notin {"create", "register", "promote"}
           \/ \E w \in Workers : Abort(w)
           \/ \E m \in Members : Suspend(m) \/ Reactivate(m)
           \/ Tick \/ UNCHANGED vars
    PROVE  UserInv' /\ HandlerInv' /\ OwnerInv'
<1>0. member \in [Members -> MemberRow] /\ aborts \in Nat /\ \A w \in Workers : job[w] \in Job /\ job[w] \in ShapedJob
  BY DEF TypeInv, TypeOK
<1>1. ASSUME NEW w \in Workers, Proceed(w), job[w].op \notin {"create", "register", "promote"}
      PROVE  UserInv' /\ HandlerInv' /\ OwnerInv'
  <2>1. /\ aborts' = aborts /\ \A v \in Workers : v # w => job'[v] = job[v]
        /\ job'[w].op \notin {"create", "register", "promote"} /\ users' = users
    BY <1>1, Stepped, ProceedAborts, UserWrites DEF Follows, NoJob
  <2>2. \A m \in Members : /\ Exists(m) => Exists(m)'
                           /\ member'[m].promotedTo = member[m].promotedTo
                           /\ member'[m].createdBy = member[m].createdBy
    <3> DEFINE n == job[w].m
               x == [member[n] EXCEPT !.mobile = job[w].mobile]
               y == [member[n] EXCEPT !.code = member[n].code + 1]
    <3>1. CASE member' = member
      BY <3>1 DEF Exists
    <3>2. CASE job[w].op \in {"mobile", "code"}
      <4>1. n \in Members /\ member[n] \in MemberRow
        BY <1>0, <3>2 DEF ShapedJob
      <4>2. /\ x.status = member[n].status /\ x.promotedTo = member[n].promotedTo /\ x.createdBy = member[n].createdBy
            /\ y.status = member[n].status /\ y.promotedTo = member[n].promotedTo /\ y.createdBy = member[n].createdBy
        BY <4>1 DEF MemberRow
      <4>3. member' = member \/ member' = [member EXCEPT ![n] = x] \/ member' = [member EXCEPT ![n] = y]
        BY <1>1, <3>2, MemberWrites
      <4> HIDE DEF x, y
      <4> QED BY <1>0, <4>1, <4>2, <4>3 DEF Exists
    <3> QED BY <1>1, <3>1, <3>2, MemberWrites
  <2> QED BY <1>1, <2>1, <2>2, AccountsQuiet
<1>2. ASSUME NEW w \in Workers, Abort(w) PROVE UserInv' /\ HandlerInv' /\ OwnerInv'
  <2>1. /\ aborts' = aborts + 1 /\ users' = users /\ member' = member
        /\ \A v \in Workers : v # w => job'[v] = job[v]
        /\ job'[w].op = "idle"
    BY <1>2 DEF Abort, rows, TypeInv, TypeOK, NoJob
  <2>2. aborts' > 0
    BY <1>0, <2>1
  <2> QED BY <2>1, <2>2, AccountsQuiet DEF Exists
<1>3. ASSUME NEW n \in Members, Suspend(n) \/ Reactivate(n) PROVE UserInv' /\ HandlerInv' /\ OwnerInv'
  <2>1. member[n] \in MemberRow /\ Exists(n) /\ UNCHANGED <<users, job, aborts>>
    BY <1>0, <1>3 DEF Suspend, Reactivate, SetStatus, Exists
  <2>2. \A m \in Members : /\ Exists(m) => Exists(m)'
                           /\ member'[m].promotedTo = member[m].promotedTo
                           /\ member'[m].createdBy = member[m].createdBy
    BY <1>0, <1>3, <2>1 DEF Suspend, Reactivate, SetStatus, Exists, MemberRow
  <2> QED BY <2>1, <2>2, AccountsQuiet
<1>4. CASE Tick \/ UNCHANGED vars
  BY <1>4, AccountsQuiet DEF Tick, vars, rows, Exists
<1> QED BY <1>1, <1>2, <1>3, <1>4

LEMMA NextAccount == TypeInv /\ AccountInv /\ [Next]_vars => AccountInv'
<1> SUFFICES ASSUME TypeInv, AccountInv, [Next]_vars PROVE AccountInv'
  OBVIOUS
<1>1. NumberInv'
  BY NumberStep DEF AccountInv
<1>2. ASSUME NEW w \in Workers, Proceed(w), job[w].op \in {"create", "register", "promote"}
      PROVE  UserInv' /\ HandlerInv' /\ OwnerInv'
  <2>1. CASE users' # users
    BY <1>2, <2>1, UserWrites, AccountsSystem, AccountsCreate, AccountsUndo
  <2>2. CASE member' # member
    BY <1>2, <2>2, AccountsInsert, AccountsPromote
  <2>3. CASE users' = users /\ member' = member
    BY <1>2, <2>3, AccountsRead
  <2> QED BY <2>1, <2>2, <2>3
<1>3. ASSUME NEW w \in Workers, Proceed(w), job[w].op \notin {"create", "register", "promote"}
      PROVE  UserInv' /\ HandlerInv' /\ OwnerInv'
  BY <1>3, AccountsElsewhere
<1>4. ASSUME NEW w \in Workers, Start(w) \/ Abort(w) PROVE UserInv' /\ HandlerInv' /\ OwnerInv'
  BY <1>4, AccountsStart, AccountsElsewhere
<1>5. CASE (\E m \in Members : Suspend(m) \/ Reactivate(m)) \/ Tick \/ UNCHANGED vars
  BY <1>1, <1>5, AccountsElsewhere DEF AccountInv
<1> QED BY <1>1, <1>2, <1>3, <1>4, <1>5 DEF Next, AccountInv

LEMMA InitAccount == Init => AccountInv
<1> SUFFICES ASSUME Init PROVE AccountInv
  OBVIOUS
<1>a. PICK S \in SUBSET Members : \E f \in [S -> Mobiles] :
          member = [m \in Members |-> IF m \in S THEN OldMember(f[m]) ELSE NoMember]
  BY DEF Init
<1>1. PICK f \in [S -> Mobiles] :
          member = [m \in Members |-> IF m \in S THEN OldMember(f[m]) ELSE NoMember]
  BY <1>a
<1>2. \A m \in Members : member[m].promotedTo = 0 /\ member[m].createdBy = 0
  BY <1>1 DEF OldMember, NoMember
<1>3. users = {} /\ \A w \in Workers : job[w].op = "idle"
  BY DEF Init, NoJob
<1> QED BY <1>2, <1>3 DEF AccountInv, NumberInv, UserInv, HandlerInv, OwnerInv, Pending, Undecided

\* AccountsBelong: every account is the system's, of which there is one, or the
\* one that one member was promoted to, and no member points to an account that
\* is not there, however promotions and registrations compete.
THEOREM AccountsAreOwned == Spec => []AccountsBelong
<1>1. AccountInv => AccountsBelong
  <2> SUFFICES ASSUME AccountInv PROVE AccountsBelong
    OBVIOUS
  <2>1. ASSUME NEW id, PromotedByOne(id)
        PROVE  Cardinality({m \in Members : member[m].promotedTo = id}) = 1
    <3>1. PICK m \in Members : {o \in Members : member[o].promotedTo = id} = {m}
      BY <2>1 DEF PromotedByOne
    <3> QED BY <3>1, FS_Singleton
  <2> QED BY <2>1 DEF AccountInv, UserInv, OwnerInv, AccountsBelong, SystemUsers
<1>2. TypeInv /\ AccountInv /\ [Next]_vars => TypeInv' /\ AccountInv'
  BY NextType, NextAccount
<1> QED BY InitType, InitAccount, <1>1, <1>2, PTL DEF Spec
=============================================================================
