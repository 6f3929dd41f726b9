------------------------------- MODULE Accounts -------------------------------
(***************************************************************************)
(* Who is who in NMMS: the identity of members (their mobile number is their  *)
(* login), the staff accounts that some of them are promoted to, the account  *)
(* that stands for "the system", referral codes, and the codes sent by SMS to  *)
(* members who forgot their password.                                       *)
(*                                                                         *)
(* Workers, job[w], aborts and overlapped are as in Referrals.  None of these *)
(* handlers uses a transaction: every statement is a step of its own, and most  *)
(* of them write what an earlier statement has found to be right.             *)
(*                                                                         *)
(* Abstractions: a mobile number stands for the Aadhaar number as well, which *)
(* is checked alike; a referral code is the number of codes generated for the  *)
(* member so far, being random (a clash is retried); an account's id is the    *)
(* number of the handler that created it; a password is which code set it.     *)
(***************************************************************************)
EXTENDS Integers, FiniteSets, Sequences

CONSTANTS
    Members, Workers, Mobiles, Emails, None,
    SystemEmail,       \* of the sentinel account
    MaxResetAttempts, Cooldown, CodeLife,
    MaxStarts, MaxTime, MaxAborts \* bounds of the model

ASSUME NoneAssumption == None \notin Members \cup Workers \cup Mobiles \cup Emails \cup Int
ASSUME EmailAssumption == SystemEmail \notin Emails
ASSUME BoundsAssumption ==
    {MaxResetAttempts, Cooldown, CodeLife, MaxStarts, MaxTime, MaxAborts} \subseteq Nat

VARIABLES
    member,     \* [Members -> Member row]
    users,      \* the User rows: [id, email]
    reset,      \* the MemberPasswordReset rows, in the order of createdAt
    sent,       \* those whose SMS was sent
    now,
    job,        \* [Workers -> what the handler is doing]
    started,    \* handlers begun so far
    overlapped, \* kinds of handler of which two have overlapped
    aborts      \* handlers that failed or crashed so far

rows == <<member, users, reset, sent, now>>
vars == <<rows, job, started, overlapped, aborts>>

-----------------------------------------------------------------------------
NoMember == [status |-> "NONE", mobile |-> None, portal |-> FALSE, createdBy |-> 0,
             promotedTo |-> 0, code |-> 0]
OldMember(p) == [NoMember EXCEPT !.status = "ACTIVE", !.mobile = p, !.portal = TRUE]
NoJob == [op |-> "idle", at |-> "start", m |-> None, mobile |-> None, email |-> None, n |-> 0, u |-> 0, r |-> 0]

Exists(m) == member[m].status # "NONE"
Blocked(m) == member[m].status = "SUSPENDED"

MobileTaken(p, m) == \E o \in Members \ {m} : Exists(o) /\ member[o].mobile = p
\* The one unique key of mobile numbers, of those who have a password.
PortalTaken(p, m) == \E o \in Members \ {m} : member[o].portal /\ member[o].mobile = p
EmailTaken(e) == \E u \in users : u.email = e

Init ==
    /\ \E S \in SUBSET Members : \E f \in [S -> Mobiles] :
          /\ \A m, o \in S : f[m] = f[o] => m = o
          /\ member = [m \in Members |-> IF m \in S THEN OldMember(f[m]) ELSE NoMember]
    /\ users = {} /\ reset = <<>> /\ sent = {} /\ now = 0
    /\ job = [w \in Workers |-> NoJob]
    /\ started = 0 /\ overlapped = {} /\ aborts = 0

-----------------------------------------------------------------------------
(* Workers.                                                                *)

Kind(op) == IF op \in {"create", "register", "mobile"} THEN "identity" ELSE op

Idle(w) == job[w].op = "idle"
At(w, op, at) == job[w].op = op /\ job[w].at = at
Goto(w, at) == job' = [job EXCEPT ![w].at = at] /\ UNCHANGED <<started, overlapped, aborts>>
Finish(w) == job' = [job EXCEPT ![w] = NoJob] /\ UNCHANGED <<started, overlapped, aborts>>
Begin(w, j) ==
    /\ Idle(w) /\ started < MaxStarts
    /\ started' = started + 1
    /\ job' = [job EXCEPT ![w] = [j EXCEPT !.n = started + 1]]
    /\ overlapped' = overlapped \cup ({Kind(j.op)} \cap {Kind(job[v].op) : v \in Workers})
    /\ UNCHANGED <<rows, aborts>>

Abort(w) ==
    /\ ~Idle(w) /\ aborts < MaxAborts
    /\ aborts' = aborts + 1
    /\ job' = [job EXCEPT ![w] = NoJob]
    /\ UNCHANGED <<rows, started, overlapped>>

-----------------------------------------------------------------------------
(* MembersService.create and update, MemberAuthService.register.            *)

\* Bound of the model: an id for everybody who is about to be inserted.
MemberLeft ==
    Cardinality({w \in Workers : job[w].op \in {"create", "register"}})
        < Cardinality({m \in Members : ~Exists(m)})

CreateRead(w, p) ==
    /\ MemberLeft /\ ~MobileTaken(p, None)
    /\ Begin(w, [NoJob EXCEPT !.op = "create", !.at = "insert", !.mobile = p])

RegisterRead(w, p) ==
    /\ MemberLeft /\ ~MobileTaken(p, None)
    /\ Begin(w, [NoJob EXCEPT !.op = "register", !.at = "system", !.mobile = p])

SystemUsers == {u \in users : u.email = SystemEmail}
GotoInsertFor(w, id) ==
    job' = [job EXCEPT ![w].at = "insert", ![w].u = id] /\ UNCHANGED <<started, overlapped, aborts>>

\* getOrCreateSystemUser: found, or created next.
RegisterFindSystem(w) ==
    /\ At(w, "register", "system")
    /\ IF SystemUsers = {} THEN Goto(w, "account")
       ELSE \E u \in SystemUsers : GotoInsertFor(w, u.id)
    /\ UNCHANGED rows

\* A concurrent registration may have been first (P2002): its account is used.
RegisterCreateSystem_NoReread(w) ==
    /\ At(w, "register", "account")
    /\ IF EmailTaken(SystemEmail) THEN UNCHANGED users
       ELSE users' = users \cup {[id |-> job[w].n, email |-> SystemEmail]}
    /\ GotoInsertFor(w, job[w].n)
    /\ UNCHANGED <<member, reset, sent, now>>
RegisterCreateSystem(w) ==
    /\ At(w, "register", "account")
    /\ IF EmailTaken(SystemEmail)
       THEN UNCHANGED users /\ \E u \in SystemUsers : GotoInsertFor(w, u.id)
       ELSE /\ users' = users \cup {[id |-> job[w].n, email |-> SystemEmail]}
            /\ GotoInsertFor(w, job[w].n)
    /\ UNCHANGED <<member, reset, sent, now>>

InsertMember(w, m) ==
    /\ job[w].at = "insert" /\ ~Exists(m)
    /\ IF job[w].op = "register" /\ PortalTaken(job[w].mobile, m)
       THEN UNCHANGED member
       ELSE member' = [member EXCEPT ![m] = [NoMember EXCEPT !.status = "DRAFT", !.mobile = job[w].mobile,
                                             !.portal = (job[w].op = "register"), !.createdBy = job[w].u]]
    /\ Finish(w)
    /\ UNCHANGED <<users, reset, sent, now>>

MobileRead(w, m, p) ==
    /\ Exists(m) /\ p # member[m].mobile /\ ~MobileTaken(p, m)
    /\ Begin(w, [NoJob EXCEPT !.op = "mobile", !.at = "write", !.m = m, !.mobile = p])

MobileWrite(w) ==
    /\ At(w, "mobile", "write")
    /\ IF member[job[w].m].portal /\ PortalTaken(job[w].mobile, job[w].m)
       THEN UNCHANGED member
       ELSE member' = [member EXCEPT ![job[w].m].mobile = job[w].mobile]
    /\ Finish(w)
    /\ UNCHANGED <<users, reset, sent, now>>

-----------------------------------------------------------------------------
(* MembersService.promoteToExecutive.                                       *)

PromoteRead(w, m, e) ==
    /\ member[m].status = "ACTIVE" /\ member[m].promotedTo = 0
    /\ Begin(w, [NoJob EXCEPT !.op = "promote", !.at = "account", !.m = m, !.email = e])

\* UsersService.create; the email is unique.
PromoteCreateUser(w) ==
    /\ At(w, "promote", "account")
    /\ IF EmailTaken(job[w].email)
       THEN UNCHANGED users /\ Finish(w)
       ELSE users' = users \cup {[id |-> job[w].n, email |-> job[w].email]} /\ Goto(w, "cas")
    /\ UNCHANGED <<member, reset, sent, now>>

MayPromote_Again(m) == member[m].status = "ACTIVE"
MayPromote(m) == member[m].status = "ACTIVE" /\ member[m].promotedTo = 0

PromoteCas(w) ==
    /\ At(w, "promote", "cas")
    /\ IF MayPromote(job[w].m)
       THEN member' = [member EXCEPT ![job[w].m].promotedTo = job[w].n] /\ Finish(w)
       ELSE UNCHANGED member /\ Goto(w, "undo")
    /\ UNCHANGED <<users, reset, sent, now>>

PromoteUndo(w) ==
    /\ At(w, "promote", "undo")
    /\ users' = {u \in users : u.id # job[w].n}
    /\ Finish(w)
    /\ UNCHANGED <<member, reset, sent, now>>

-----------------------------------------------------------------------------
(* ReferralsService.ensureReferralCode, for the member's page or for staff.  *)

CodeRead(w, m) ==
    /\ member[m].status = "ACTIVE"
    /\ Begin(w, [NoJob EXCEPT !.op = "code", !.at = "check", !.m = m])

HasCode(m) == member[m].code > 0

CodeCheck(w) ==
    /\ At(w, "code", "check")
    /\ IF HasCode(job[w].m) THEN Finish(w) ELSE Goto(w, "write")
    /\ UNCHANGED rows

CodeWrite(w) ==
    /\ At(w, "code", "write")
    /\ member' = [member EXCEPT ![job[w].m].code = @ + 1]
    /\ Finish(w)
    /\ UNCHANGED <<users, reset, sent, now>>

-----------------------------------------------------------------------------
(* MemberPasswordResetService.                                             *)

ResetsOf(m) == {i \in DOMAIN reset : reset[i].m = m}
Recent(m) == \E i \in ResetsOf(m) : now - reset[i].at < Cooldown

\* Nobody who may not sign in, and nobody twice within the cooldown.
RequestCode(w, m) ==
    /\ member[m].portal /\ ~Blocked(m) /\ ~Recent(m)
    /\ Begin(w, [NoJob EXCEPT !.op = "request", !.at = "invalidate", !.m = m])

RequestInvalidate_Skipped(w) ==
    /\ At(w, "request", "invalidate")
    /\ reset' = reset
    /\ Goto(w, "insert code")
    /\ UNCHANGED <<member, users, sent, now>>
RequestInvalidate(w) ==
    /\ At(w, "request", "invalidate")
    /\ reset' = [i \in DOMAIN reset |-> IF reset[i].m = job[w].m THEN [reset[i] EXCEPT !.used = TRUE] ELSE reset[i]]
    /\ Goto(w, "insert code")
    /\ UNCHANGED <<member, users, sent, now>>

RequestInsert(w) ==
    /\ At(w, "request", "insert code")
    /\ reset' = Append(reset, [m |-> job[w].m, at |-> now, attempts |-> 0, used |-> FALSE, changes |-> 0])
    /\ job' = [job EXCEPT ![w].at = "sms", ![w].r = Len(reset) + 1]
    /\ UNCHANGED <<member, users, sent, now, started, overlapped, aborts>>

RequestSms(w) ==
    /\ At(w, "request", "sms")
    /\ sent' = sent \cup {job[w].r}
    /\ Finish(w)
    /\ UNCHANGED <<member, users, reset, now>>

\* The newest that is neither used nor expired.
Usable(m) == {i \in ResetsOf(m) : ~reset[i].used /\ now - reset[i].at < CodeLife}
IsNewest(i, S) == i \in S /\ \A j \in S : j <= i

AttemptsLeft(i) == reset[i].attempts < MaxResetAttempts

\* confirm, with the code of an SMS or a wrong one (0).
ConfirmRead(w, m, i, guess) ==
    /\ member[m].portal /\ IsNewest(i, Usable(m)) /\ AttemptsLeft(i)
    /\ Begin(w, [NoJob EXCEPT !.op = "confirm", !.at = IF guess = i THEN "cas" ELSE "wrong", !.m = m, !.r = i])

ConfirmWrong(w) ==
    /\ At(w, "confirm", "wrong")
    /\ reset' = [reset EXCEPT ![job[w].r].attempts = @ + 1]
    /\ Finish(w)
    /\ UNCHANGED <<member, users, sent, now>>

IsUnused_Always(i) == TRUE
IsUnused(i) == ~reset[i].used

ConfirmCas(w) ==
    /\ At(w, "confirm", "cas")
    /\ IF IsUnused(job[w].r)
       THEN reset' = [reset EXCEPT ![job[w].r].used = TRUE] /\ Goto(w, "password")
       ELSE UNCHANGED reset /\ Finish(w)
    /\ UNCHANGED <<member, users, sent, now>>

ConfirmWrite(w) ==
    /\ At(w, "confirm", "password")
    /\ reset' = [reset EXCEPT ![job[w].r].changes = @ + 1]
    /\ Finish(w)
    /\ UNCHANGED <<member, users, sent, now>>

-----------------------------------------------------------------------------
SetStatus(m, from, to) ==
    /\ member[m].status = from
    /\ member' = [member EXCEPT ![m].status = to]
    /\ UNCHANGED <<users, reset, sent, now, job, started, overlapped, aborts>>

Suspend(m) == SetStatus(m, "ACTIVE", "SUSPENDED")
Reactivate(m) == SetStatus(m, "SUSPENDED", "ACTIVE")

\* Bound of the model: before the first code the time is of no account.
Tick ==
    /\ now < MaxTime /\ reset # <<>>
    /\ now' = now + 1
    /\ UNCHANGED <<member, users, reset, sent, job, started, overlapped, aborts>>

Start(w) ==
    \/ \E p \in Mobiles : CreateRead(w, p) \/ RegisterRead(w, p)
    \/ \E m \in Members, p \in Mobiles : MobileRead(w, m, p)
    \/ \E m \in Members, e \in Emails : PromoteRead(w, m, e)
    \/ \E m \in Members : CodeRead(w, m) \/ RequestCode(w, m)
    \/ \E m \in Members, i \in DOMAIN reset, guess \in sent \cup {0} : ConfirmRead(w, m, i, guess)

Proceed(w) ==
    \/ \E m \in Members : InsertMember(w, m)
    \/ RegisterFindSystem(w) \/ RegisterCreateSystem(w) \/ MobileWrite(w)
    \/ PromoteCreateUser(w) \/ PromoteCas(w) \/ PromoteUndo(w)
    \/ CodeCheck(w) \/ CodeWrite(w)
    \/ RequestInvalidate(w) \/ RequestInsert(w) \/ RequestSms(w)
    \/ ConfirmWrong(w) \/ ConfirmCas(w) \/ ConfirmWrite(w)

Next ==
    \/ \E w \in Workers : Start(w) \/ Proceed(w) \/ Abort(w)
    \/ \E m \in Members : Suspend(m) \/ Reactivate(m)
    \/ Tick

Spec == Init /\ [][Next]_vars

-----------------------------------------------------------------------------
MemberRow == [status : {"NONE", "DRAFT", "ACTIVE", "SUSPENDED"}, mobile : Mobiles \cup {None},
              portal : BOOLEAN, createdBy : Nat, promotedTo : Nat, code : Nat]
User == [id : Nat, email : Emails \cup {SystemEmail}]
ResetRow == [m : Members, at : Nat, attempts : Nat, used : BOOLEAN, changes : Nat]
Job == [op : {"idle", "create", "register", "mobile", "promote", "code", "request", "confirm"},
        at : {"start", "insert", "system", "account", "write", "cas", "undo", "check",
              "invalidate", "insert code", "sms", "wrong", "password"},
        m : Members \cup {None}, mobile : Mobiles \cup {None}, email : Emails \cup {None},
        n : Nat, u : Nat, r : Nat]

\* Every variable has its type.
TypeOK ==
    /\ member \in [Members -> MemberRow]
    /\ users \subseteq User
    /\ reset \in Seq(ResetRow) /\ sent \subseteq DOMAIN reset /\ now \in Nat
    /\ job \in [Workers -> Job]
    /\ started \in Nat /\ aborts \in Nat
    /\ overlapped \subseteq {"identity", "promote", "code", "request", "confirm"}

\* "Each member needs their own mobile number": two members have the same only if
\* two handlers that enter one have overlapped, and then at most one of them can
\* log in with it (the unique key, which overlapping handlers meet as well).
MobileUnique ==
    \A m, o \in Members :
        m # o /\ Exists(m) /\ Exists(o) /\ member[m].mobile = member[o].mobile =>
            "identity" \in overlapped /\ ~(member[m].portal /\ member[o].portal)

\* Every staff account belongs: it is the system's, which is there once for all
\* who registered themselves, or that of the one member who was promoted to it,
\* however many promotions compete; unless its handler still works, or crashed.
AccountsBelong ==
    /\ \A m \in Members :
        /\ member[m].promotedTo # 0 => \E u \in users : u.id = member[m].promotedTo
        /\ member[m].createdBy # 0 => \E u \in SystemUsers : u.id = member[m].createdBy
    /\ \A u, v \in users : u.email = v.email => u = v
    /\ \A u \in users \ SystemUsers :
        \/ Cardinality({m \in Members : member[m].promotedTo = u.id}) = 1
        \/ aborts > 0 \/ \E w \in Workers : job[w].op = "promote" /\ job[w].n = u.id

\* A referral code that was handed out keeps working: it is never replaced,
\* unless two requests for a first code have overlapped.
CodeKept ==
    [][\A m \in Members :
         member[m].code > 0 /\ "code" \notin overlapped' => member'[m].code = member[m].code]_vars

\* A code sets a password once, however often it is entered at the same time
\* ("the same code can't be used twice"), and the code is used by then.
CodeWorksOnce == \A i \in DOMAIN reset : reset[i].changes <= IF reset[i].used THEN 1 ELSE 0

\* "Any older unused code stops working once a new one is issued": a member has
\* one that works at most, and it is the last one; unless two requests overlapped.
OnlyLastCodeWorks ==
    "request" \notin overlapped =>
        \A m \in Members : \A i \in ResetsOf(m) : ~reset[i].used => \A j \in ResetsOf(m) : j <= i

\* A code is guessed wrong so many times and no more, unless two tries overlapped.
AttemptsLimited ==
    "confirm" \notin overlapped => \A i \in DOMAIN reset : reset[i].attempts <= MaxResetAttempts
=============================================================================
