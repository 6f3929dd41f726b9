---------------------------- MODULE Sessions_proofs ----------------------------
(***************************************************************************)
(* Proofs about Sessions, for either client and any users, tasks, lifetimes  *)
(* and bounds.                                                             *)
(***************************************************************************)
EXTENDS Sessions, TLAPS

USE NoneAssumption, BoundsAssumption

-----------------------------------------------------------------------------
(* Type correctness.                                                       *)

\* What a task remembers at each of its steps.
ShapedJob ==
    {j \in Job : /\ j.at = "login" => j.user \in Users
                 /\ j.at \in {"issue", "granted"} => j.token \in Token
                 /\ j.at \in {"call", "unauthorized"} => j.op = "call"
                 /\ j.at = "login" => j.op = "login"
                 /\ j.at = "logout" => j.op = "logout"
                 /\ j.op = "boot" => j.at \in {"refresh", "issue", "granted", "rejected"}}

TypeInv == TypeOK /\ job \in [Tasks -> ShapedJob]

LEMMA JobUpdate ==
    ASSUME NEW c \in Tasks, TypeInv, NEW j \in ShapedJob, job' = [job EXCEPT ![c] = j]
    PROVE  job' \in [Tasks -> ShapedJob] /\ job' \in [Tasks -> Job]
<1>1. job' \in [Tasks -> ShapedJob]
  BY DEF TypeInv
<1> QED BY <1>1 DEF ShapedJob

LEMMA NoJobType == NoJob \in Job /\ NoJob \in ShapedJob
  BY DEF NoJob, Job, ShapedJob

LEMMA FinishType ==
    ASSUME NEW c \in Tasks, TypeInv, Finish(c)
    PROVE  job' \in [Tasks -> ShapedJob] /\ job' \in [Tasks -> Job]
  BY NoJobType, JobUpdate DEF Finish

LEMMA ReadType ==
    ASSUME NEW c \in Tasks, TypeInv, NEW u, NEW allowed \in BOOLEAN, allowed => u \in Users,
           Read(c, u, allowed), job[c].at \in {"refresh", "login"}
    PROVE  job' \in [Tasks -> ShapedJob] /\ job' \in [Tasks -> Job]
<1>0. job[c] \in Job /\ job[c] \in ShapedJob /\ now \in Nat
  BY DEF TypeInv, TypeOK
<1> DEFINE j == [job[c] EXCEPT !.at = IF allowed THEN "issue" ELSE "rejected",
                               !.token = IF allowed THEN [u |-> u, at |-> now, read |-> now] ELSE None]
<1>1. job' = [job EXCEPT ![c] = j]
  BY DEF Read, TypeInv, TypeOK
<1>2. j \in ShapedJob
  <2>1. CASE allowed
    <3>1. [u |-> u, at |-> now, read |-> now] \in Token
      BY <1>0, <2>1 DEF Token
    <3> QED BY <1>0, <2>1, <3>1 DEF ShapedJob, Job
  <2>2. CASE ~allowed
    BY <1>0, <2>2 DEF ShapedJob, Job
  <2> QED BY <2>1, <2>2
<1> QED BY <1>1, <1>2, JobUpdate

\* What issueTokens makes of the token of the account as it was read.
LEMMA SignedToken ==
    ASSUME TypeInv, NEW c \in Tasks, issueTokens(c)
    PROVE  /\ job[c].token \in Token
           /\ job' = [job EXCEPT ![c] = [job[c] EXCEPT !.at = "granted", !.token = [job[c].token EXCEPT !.at = now]]]
           /\ [job[c].token EXCEPT !.at = now] \in Token
<1>1. job[c].token \in Token /\ job[c] \in Job /\ now \in Nat
  BY DEF TypeInv, TypeOK, ShapedJob, issueTokens, At
<1> QED BY <1>1 DEF issueTokens, Token, Job

LEMMA InitType == Init => TypeInv
<1> SUFFICES ASSUME Init PROVE TypeInv
  OBVIOUS
<1>1. job \in [Tasks -> ShapedJob] /\ job \in [Tasks -> Job]
  BY NoJobType DEF Init
<1> QED BY <1>1 DEF Init, TypeInv, TypeOK, Fresh, Session

\* Every step keeps the types.
LEMMA NextType == TypeInv /\ [Next]_vars => TypeInv'
<1> SUFFICES ASSUME TypeInv, [Next]_vars PROVE TypeInv'
  OBVIOUS
<1>0. TypeOK /\ \A c \in Tasks : job[c] \in Job /\ job[c] \in ShapedJob
  BY DEF TypeInv, TypeOK
<1>1. ASSUME NEW c \in Tasks, ServeCall(c) PROVE TypeInv'
  BY <1>0, <1>1, FinishType DEF ServeCall, TypeInv, TypeOK
<1>2. ASSUME NEW c \in Tasks, RefuseCall(c) PROVE TypeInv'
  <2>1. [job[c] EXCEPT !.at = "unauthorized"] \in ShapedJob
    BY <1>0, <1>2 DEF RefuseCall, At, Job, ShapedJob
  <2>2. job' = [job EXCEPT ![c] = [job[c] EXCEPT !.at = "unauthorized"]]
    BY <1>0, <1>2 DEF RefuseCall, TypeOK
  <2> QED BY <1>0, <1>2, <2>1, <2>2, JobUpdate DEF RefuseCall, TypeInv, TypeOK
<1>3. ASSUME NEW c \in Tasks, ReadForRefresh(c) \/ ReadForLogin(c) PROVE TypeInv'
  <2>1. job' \in [Tasks -> ShapedJob] /\ job' \in [Tasks -> Job]
    <3>1. CASE ReadForRefresh(c)
      <4> DEFINE allowed == MayRefresh(job[c].token)
                 u == job[c].token.u
      <4>1. allowed \in BOOLEAN /\ (allowed => u \in Users)
        BY <1>0 DEF MayRefresh, Job, Token
      <4>2. Read(c, u, allowed) /\ job[c].at \in {"refresh", "login"}
        BY <3>1 DEF ReadForRefresh, At
      <4> HIDE DEF allowed, u
      <4> QED BY <4>1, <4>2, ReadType
    <3>2. CASE ReadForLogin(c)
      <4> DEFINE allowed == blocked[job[c].user] = None
      <4>1. job[c].user \in Users /\ job[c].at \in {"refresh", "login"} /\ Read(c, job[c].user, allowed)
        BY <1>0, <3>2 DEF ReadForLogin, At, ShapedJob
      <4>2. allowed \in BOOLEAN
        OBVIOUS
      <4> HIDE DEF allowed
      <4> QED BY <4>1, <4>2, ReadType
    <3> QED BY <1>3, <3>1, <3>2
  <2> QED BY <1>0, <1>3, <2>1 DEF ReadForRefresh, ReadForLogin, TypeInv, TypeOK
<1>12. ASSUME NEW c \in Tasks, issueTokens(c) PROVE TypeInv'
  <2> DEFINE token == [job[c].token EXCEPT !.at = now]
             j == [job[c] EXCEPT !.at = "granted", !.token = token]
  <2>1. token \in Token /\ job' = [job EXCEPT ![c] = j] /\ job[c].at = "issue"
    BY <1>12, SignedToken DEF issueTokens, At
  <2>2. j \in ShapedJob
    BY <1>0, <2>1 DEF ShapedJob, Job
  <2> QED BY <1>0, <1>12, <2>1, <2>2, JobUpdate DEF issueTokens, TypeInv, TypeOK
<1>4. ASSUME NEW c \in Tasks, Boot(c) \/ Call(c) \/ Logout(c) \/ \E u \in Users : Login(c, u) PROVE TypeInv'
  <2>1. PICK op, at, u, token :
            /\ Send(c, op, at, u, token)
            /\ [NoJob EXCEPT !.op = op, !.at = at, !.user = u, !.token = token] \in ShapedJob
    <3>1. CASE Boot(c)
      <4>1. [NoJob EXCEPT !.op = "boot", !.at = "refresh", !.user = None, !.token = cookie] \in ShapedJob
        BY <1>0 DEF NoJob, ShapedJob, Job, TypeOK
      <4> QED BY <3>1, <4>1 DEF Boot
    <3>2. CASE Call(c)
      <4>1. [NoJob EXCEPT !.op = "call", !.at = "call", !.user = None, !.token = store.token] \in ShapedJob
        BY <1>0 DEF NoJob, ShapedJob, Job, TypeOK, Session
      <4> QED BY <3>2, <4>1 DEF Call
    <3>3. CASE Logout(c)
      <4>1. [NoJob EXCEPT !.op = "logout", !.at = "logout", !.user = None, !.token = None] \in ShapedJob
        BY DEF NoJob, ShapedJob, Job
      <4> QED BY <3>3, <4>1 DEF Logout
    <3>4. ASSUME NEW u \in Users, Login(c, u)
          PROVE  \E op, at, v, token :
                    /\ Send(c, op, at, v, token)
                    /\ [NoJob EXCEPT !.op = op, !.at = at, !.user = v, !.token = token] \in ShapedJob
      <4>1. [NoJob EXCEPT !.op = "login", !.at = "login", !.user = u, !.token = None] \in ShapedJob
        BY DEF NoJob, ShapedJob, Job
      <4> QED BY <3>4, <4>1 DEF Login
    <3> QED BY <1>4, <3>1, <3>2, <3>3, <3>4
  <2>2. job' \in [Tasks -> ShapedJob] /\ job' \in [Tasks -> Job]
    BY <2>1, JobUpdate DEF Send
  <2>3. store' \in Session
    BY <1>0, <1>4 DEF Boot, Call, Logout, Login, TypeOK, Session
  <2>4. UNCHANGED <<side, now, blocked, cookie, failures>>
    BY <1>4 DEF Boot, Call, Logout, Login
  <2> QED BY <1>0, <2>2, <2>3, <2>4 DEF TypeInv, TypeOK
<1>5. ASSUME NEW c \in Tasks, OnUnauthorized(c) PROVE TypeInv'
  <2>1. CASE Finish(c)
    BY <1>0, <1>5, <2>1, FinishType DEF OnUnauthorized, TypeInv, TypeOK
  <2>2. CASE ~Finish(c)
    <3> DEFINE j == [job[c] EXCEPT !.at = "refresh", !.token = cookie]
    <3>1. job' = [job EXCEPT ![c] = j] /\ job[c].at = "unauthorized"
      BY <1>0, <1>5, <2>2 DEF OnUnauthorized, At, TypeOK
    <3>2. j \in ShapedJob
      BY <1>0, <3>1 DEF ShapedJob, Job, TypeOK
    <3> QED BY <1>0, <1>5, <3>1, <3>2, JobUpdate DEF OnUnauthorized, TypeInv, TypeOK
  <2> QED BY <2>1, <2>2
<1>6. ASSUME NEW c \in Tasks, OnGranted(c) PROVE TypeInv'
  <2>1. job[c].token \in Token /\ job[c].token.u \in Users /\ cookie' \in Token
    BY <1>0, <1>6 DEF OnGranted, At, ShapedJob, Token
  <2>2. store' \in Session /\ store'.token \in Token \cup {None}
    BY <1>6, <2>1 DEF OnGranted, setSession, Session
  <2>3. job' \in [Tasks -> ShapedJob] /\ job' \in [Tasks -> Job]
    <3>1. CASE job[c].op # "call"
      BY <1>6, <3>1, FinishType DEF OnGranted
    <3>2. CASE job[c].op = "call"
      <4> DEFINE j == [job[c] EXCEPT !.at = "call", !.token = store'.token, !.retry = TRUE]
      <4>1. job' = [job EXCEPT ![c] = j]
        BY <1>0, <1>6, <3>2 DEF OnGranted, TypeOK
      <4>2. j \in ShapedJob
        BY <1>0, <2>2, <3>2 DEF ShapedJob, Job
      <4> QED BY <4>1, <4>2, JobUpdate
    <3> QED BY <3>1, <3>2
  <2> QED BY <1>0, <1>6, <2>1, <2>2, <2>3 DEF OnGranted, TypeInv, TypeOK
<1>7. ASSUME NEW c \in Tasks, OnRejected(c) \/ OnLogout(c) \/ FetchFails(c) PROVE TypeInv'
  <2>1. job' \in [Tasks -> ShapedJob] /\ job' \in [Tasks -> Job]
    BY <1>7, FinishType DEF OnRejected, OnLogout, FetchFails
  <2>2. store' \in Session
    BY <1>0, <1>7 DEF OnRejected, OnLogout, FetchFails, clearSession, SignedOut, Session, TypeOK
  <2> QED BY <1>0, <1>7, <2>1, <2>2 DEF OnRejected, OnLogout, FetchFails, TypeInv, TypeOK
<1>8. ASSUME Reload PROVE TypeInv'
  <2>1. job' \in [Tasks -> ShapedJob] /\ job' \in [Tasks -> Job]
    BY <1>8, NoJobType DEF Reload
  <2> QED BY <1>0, <1>8, <2>1 DEF Reload, Fresh, Session, TypeInv, TypeOK
<1>9. ASSUME NEW u \in Users, Block(u) \/ Unblock(u) \/ OtherTabEnters(u) PROVE TypeInv'
  BY <1>0, <1>9 DEF Block, Unblock, OtherTabEnters, TypeInv, TypeOK, Token
<1>10. CASE OtherTabLeaves \/ Tick
  BY <1>0, <1>10 DEF OtherTabLeaves, Tick, TypeInv, TypeOK
<1>11. CASE UNCHANGED vars
  BY <1>11 DEF vars, TypeInv, TypeOK
<1> QED
  BY <1>1, <1>2, <1>3, <1>4, <1>5, <1>6, <1>7, <1>8, <1>9, <1>10, <1>11, <1>12 DEF Next, Proceed

LEMMA AlwaysTyped == Spec => []TypeInv
  BY InitType, NextType, PTL DEF Spec

\* Every variable has its type, whatever the tasks, tabs and the network do.
THEOREM TypeCorrect == Spec => []TypeOK
  BY AlwaysTyped, PTL DEF TypeInv

-----------------------------------------------------------------------------
(* A session that shows its user has that user's token.                    *)

\* Of a member's client, whatever calls expire, refresh, fail or sign out together.
THEOREM Usable == Spec => []MemberSessionUsable
<1>1. Init => MemberSessionUsable
  BY DEF Init, Fresh, SessionUsable, MemberSessionUsable
<1>2. TypeInv /\ MemberSessionUsable /\ [Next]_vars => MemberSessionUsable'
  <2> SUFFICES ASSUME TypeInv, SessionUsable, [Next]_vars, side = "member" PROVE SessionUsable'
    <3>1. [Next]_vars => side' = side
      BY DEF Next, Proceed, vars, ServeCall, RefuseCall, ReadForRefresh, ReadForLogin, issueTokens, OnUnauthorized,
         OnGranted, OnRejected, OnLogout, FetchFails, Boot, Call, Login, Logout, Reload, Block, Unblock,
         OtherTabEnters, OtherTabLeaves, Tick
    <3> QED BY <3>1 DEF MemberSessionUsable
  <2>1. CASE UNCHANGED store
    BY <2>1 DEF SessionUsable
  <2>2. ASSUME NEW c \in Tasks, OnGranted(c) PROVE SessionUsable'
    <3>1. job[c].token \in Token
      BY <2>2 DEF OnGranted, At, TypeInv, ShapedJob
    <3>2. store' = [user |-> job[c].token.u, token |-> job[c].token, status |-> "authenticated"]
      BY <2>2 DEF OnGranted, Found, UnwrapsRefresh, setSession
    <3>3. job[c].token # None
      BY <3>1 DEF Token
    <3> QED BY <3>2, <3>3 DEF SessionUsable
  <2>3. ASSUME clearSession \/ Reload PROVE SessionUsable'
    BY <2>3 DEF clearSession, SignedOut, Reload, Fresh, SessionUsable
  <2>4. ASSUME NEW c \in Tasks, Boot(c) PROVE SessionUsable'
    <3>1. store \in Session
      BY DEF TypeInv, TypeOK
    <3>2. store.status = "idle" /\ store' = [store EXCEPT !.status = "loading"]
      BY <2>4 DEF Boot
    <3> QED BY <3>1, <3>2 DEF Session, SessionUsable
  <2> QED
    BY <2>1, <2>2, <2>3, <2>4
    DEF Next, Proceed, vars, ServeCall, RefuseCall, ReadForRefresh, ReadForLogin, issueTokens, OnUnauthorized,
        OnRejected, OnLogout, FetchFails, Call, Login, Logout, Block, Unblock, OtherTabEnters,
        OtherTabLeaves, Tick
<1> QED BY <1>1, <1>2, AlwaysTyped, PTL DEF Spec

\* A page that is loading has a task that settles it, or lost it to the network.
THEOREM Settled == Spec => []LoadingIsSettled
<1>1. Init => LoadingIsSettled
  BY DEF Init, Fresh, LoadingIsSettled
<1>2. TypeInv /\ LoadingIsSettled /\ [Next]_vars => LoadingIsSettled'
  <2> SUFFICES ASSUME TypeInv, LoadingIsSettled, [Next]_vars, store'.status = "loading", ~(failures' > 0)
               PROVE  \E c \in Tasks : job'[c].op = "boot"
    BY DEF LoadingIsSettled
  <2>0. failures \in Nat /\ store \in Session /\ \A c \in Tasks : job[c] \in Job /\ job[c] \in ShapedJob
    BY DEF TypeInv, TypeOK
  <2>1. CASE \E c \in Tasks : Boot(c)
    <3>1. PICK c \in Tasks : Boot(c)
      BY <2>1
    <3>2. job'[c].op = "boot"
      BY <3>1 DEF Boot, Send, NoJob, TypeInv, TypeOK
    <3> QED BY <3>2
  <2>2. CASE ~\E c \in Tasks : Boot(c)
    <3>1. store' = store /\ failures' = failures
      <4>1. ASSUME NEW c \in Tasks, ServeCall(c) \/ RefuseCall(c) \/ ReadForRefresh(c) \/ ReadForLogin(c)
                                    \/ issueTokens(c) \/ OnUnauthorized(c)
            PROVE  store' = store /\ failures' = failures
        BY <4>1 DEF ServeCall, RefuseCall, ReadForRefresh, ReadForLogin, issueTokens, OnUnauthorized
      <4>2. ASSUME NEW c \in Tasks, Call(c) \/ Logout(c) \/ \E u \in Users : Login(c, u)
            PROVE  store' = store /\ failures' = failures
        BY <4>2 DEF Call, Logout, Login
      <4>3. ASSUME NEW c \in Tasks, OnGranted(c) \/ OnRejected(c) \/ OnLogout(c)
            PROVE  store' = store /\ failures' = failures
        BY <4>3 DEF OnGranted, OnRejected, OnLogout, setSession, clearSession, SignedOut
      <4>4. ASSUME NEW c \in Tasks, FetchFails(c) PROVE FALSE
        BY <2>0, <4>4 DEF FetchFails
      <4>5. CASE Reload \/ OtherTabLeaves \/ Tick \/ \E u \in Users : Block(u) \/ Unblock(u) \/ OtherTabEnters(u)
        BY <4>5 DEF Reload, Fresh, OtherTabLeaves, Tick, Block, Unblock, OtherTabEnters
      <4> QED BY <2>2, <4>1, <4>2, <4>3, <4>4, <4>5 DEF Next, Proceed, vars
    <3>2. ~(failures > 0)
      BY <3>1
    <3>3. PICK b \in Tasks : job[b].op = "boot"
      BY <3>1, <3>2 DEF LoadingIsSettled
    <3>4. CASE job'[b] = job[b]
      BY <3>3, <3>4
    <3>5. CASE job'[b] # job[b]
      <4>1. job[b].at \in {"refresh", "issue", "granted", "rejected"}
        BY <2>0, <3>3 DEF ShapedJob
      <4>2. PICK c \in Tasks : Proceed(c) \/ FetchFails(c) \/ Call(c) \/ Logout(c) \/ \E u \in Users : Login(c, u)
        BY <2>2, <3>1, <3>5 DEF Next, vars, Reload, Fresh, Block, Unblock, OtherTabEnters, OtherTabLeaves, Tick
      <4>3. c = b
        BY <3>5, <4>2 DEF Proceed, ServeCall, RefuseCall, ReadForRefresh, ReadForLogin, issueTokens, Read, OnUnauthorized,
           OnGranted, OnRejected, OnLogout, FetchFails, Call, Login, Logout, Send, Finish, TypeInv, TypeOK
      <4>4. ReadForRefresh(b) \/ issueTokens(b) \/ OnGranted(b) \/ OnRejected(b)
        <5>1. ~(ServeCall(b) \/ RefuseCall(b) \/ ReadForLogin(b) \/ OnUnauthorized(b) \/ OnLogout(b))
          BY <4>1 DEF ServeCall, RefuseCall, ReadForLogin, OnUnauthorized, OnLogout, At
        <5>2. ~(Call(b) \/ Logout(b) \/ \E u \in Users : Login(b, u))
          BY <3>3 DEF Call, Logout, Login, Send, Idle
        <5>3. ~FetchFails(b)
          BY <2>0 DEF FetchFails
        <5> QED BY <4>2, <4>3, <5>1, <5>2, <5>3 DEF Proceed
      <4>5. ReadForRefresh(b) \/ issueTokens(b)
        BY <2>0, <3>1, <3>3, <4>4 DEF OnGranted, OnRejected, setSession, clearSession, SignedOut
      <4>6. job'[b].op = job[b].op
        BY <2>0, <4>5 DEF ReadForRefresh, issueTokens, Read, TypeInv, TypeOK, Job
      <4> QED BY <3>3, <4>6
    <3> QED BY <3>4, <3>5
  <2> QED BY <2>1, <2>2
<1> QED BY <1>1, <1>2, AlwaysTyped, PTL DEF Spec

-----------------------------------------------------------------------------
(* Who is blocked is shut out.                                             *)

\* Every token rests on a reading of its account from before the blocking.
Issued(token) ==
    token # None =>
        /\ token.read <= now
        /\ blocked[token.u] # None => token.read <= blocked[token.u]

IssuedInv ==
    /\ Issued(cookie) /\ Issued(store.token)
    /\ \A c \in Tasks : Issued(job[c].token)
    /\ \A u \in Users : blocked[u] # None => blocked[u] <= now

LEMMA InitIssued == Init => IssuedInv
  BY DEF Init, IssuedInv, Issued, Fresh, NoJob

\* A step that blocks nobody and hands out no new token.
LEMMA IssuedQuiet ==
    ASSUME TypeInv, TypeInv', IssuedInv, UNCHANGED <<now, blocked>>,
           cookie' \in {cookie, None} \/ cookie'.read = 0,
           store'.token \in {store.token, None} \cup {job[c].token : c \in Tasks},
           \A c \in Tasks : job'[c].token \in {None, cookie, store.token, store'.token} \cup {job[d].token : d \in Tasks}
    PROVE  IssuedInv'
<1>1. ASSUME NEW t, Issued(t) PROVE Issued(t)'
  BY <1>1 DEF Issued
<1>2. ASSUME cookie' # None, cookie'.read = 0 PROVE Issued(cookie)'
  BY <1>2 DEF Issued, TypeInv, TypeOK, Token
<1>3. Issued(None)'
  BY DEF Issued
<1>4. Issued(cookie)'
  BY <1>1, <1>2, <1>3 DEF IssuedInv
<1> QED BY <1>1, <1>3, <1>4 DEF IssuedInv

\* What is sent carries the token it is sent with.
LEMMA SentToken ==
    ASSUME TypeOK, NEW c \in Tasks, NEW op, NEW at, NEW u, NEW token, Send(c, op, at, u, token)
    PROVE  job'[c].token = token /\ \A d \in Tasks : d # c => job'[d] = job[d]
<1>1. job \in [Tasks -> Job]
  BY DEF TypeOK
<1> DEFINE j == [NoJob EXCEPT !.op = op, !.at = at, !.user = u, !.token = token]
<1>2. j.token = token
  BY DEF NoJob
<1>3. job' = [job EXCEPT ![c] = j]
  BY DEF Send
<1> HIDE DEF j
<1> QED BY <1>1, <1>2, <1>3

LEMMA NextIssued == TypeInv /\ TypeInv' /\ IssuedInv /\ [Next]_vars => IssuedInv'
<1> SUFFICES ASSUME TypeInv, TypeInv', IssuedInv, [Next]_vars PROVE IssuedInv'
  OBVIOUS
<1>0. TypeOK /\ TypeOK' /\ \A c \in Tasks : job[c] \in Job /\ job[c] \in ShapedJob /\ job'[c] \in Job
  BY DEF TypeInv, TypeOK
<1>1. ASSUME NEW c \in Tasks, UNCHANGED <<now, blocked, cookie, store>>,
             ServeCall(c) \/ RefuseCall(c) \/ OnUnauthorized(c) \/ Call(c) \/ Logout(c) \/ \E u \in Users : Login(c, u)
      PROVE  IssuedInv'
  <2>1. \A d \in Tasks : job'[d].token \in {None, cookie, store.token} \cup {job[e].token : e \in Tasks}
    <3>1. CASE ServeCall(c) \/ RefuseCall(c) \/ OnUnauthorized(c)
      <4>1. job \in [Tasks -> Job] /\ job[c] \in Job
        BY <1>0 DEF TypeOK
      <4>2. \A d \in Tasks : d # c => job'[d] = job[d]
        BY <3>1, <4>1 DEF ServeCall, RefuseCall, OnUnauthorized, Finish
      <4>3. CASE job' = [job EXCEPT ![c] = NoJob]
        <5>1. job'[c].token = None
          BY <4>1, <4>3 DEF NoJob
        <5> QED BY <4>2, <5>1
      <4>4. CASE job' = [job EXCEPT ![c].at = "unauthorized"]
        <5>1. job'[c].token = job[c].token
          BY <4>1, <4>4 DEF Job
        <5> QED BY <4>2, <5>1
      <4>5. CASE job' = [job EXCEPT ![c].at = "refresh", ![c].token = cookie]
        <5>1. job'[c].token = cookie
          BY <4>1, <4>5 DEF Job
        <5> QED BY <4>2, <5>1
      <4>6. \/ job' = [job EXCEPT ![c] = NoJob] \/ job' = [job EXCEPT ![c].at = "unauthorized"]
            \/ job' = [job EXCEPT ![c].at = "refresh", ![c].token = cookie]
        <5>1. CASE ServeCall(c) \/ RefuseCall(c)
          BY <5>1 DEF ServeCall, RefuseCall, Finish
        <5>2. CASE OnUnauthorized(c)
          BY <5>2 DEF OnUnauthorized, Finish
        <5> QED BY <3>1, <5>1, <5>2
      <4> QED BY <4>3, <4>4, <4>5, <4>6
    <3>2. CASE Call(c) \/ Logout(c)
      <4>1. CASE Call(c)
        BY <1>0, <4>1, SentToken DEF Call
      <4>2. CASE Logout(c)
        BY <1>0, <4>2, SentToken DEF Logout
      <4> QED BY <3>2, <4>1, <4>2
    <3>3. ASSUME NEW u \in Users, Login(c, u)
          PROVE  \A d \in Tasks : job'[d].token \in {None} \cup {job[e].token : e \in Tasks}
      <4>1. job'[c].token = None /\ \A d \in Tasks : d # c => job'[d] = job[d]
        BY <1>0, <3>3, SentToken DEF Login
      <4> QED BY <4>1
    <3> QED BY <1>1, <3>1, <3>2, <3>3
  <2> QED BY <1>1, <2>1, IssuedQuiet
<1>2. ASSUME NEW c \in Tasks, Boot(c) PROVE IssuedInv'
  <2>1. \A d \in Tasks : job'[d].token \in {cookie} \cup {job[e].token : e \in Tasks}
    BY <1>0, <1>2, SentToken DEF Boot
  <2>2. store'.token = store.token
    BY <1>0, <1>2 DEF Boot, TypeOK, Session
  <2> QED BY <1>2, <2>1, <2>2, IssuedQuiet DEF Boot
<1>3. ASSUME NEW c \in Tasks, OnGranted(c) PROVE IssuedInv'
  <2>1. store'.token \in {None} \cup {job[e].token : e \in Tasks}
    BY <1>0, <1>3 DEF OnGranted, setSession
  <2>2. \A d \in Tasks : job'[d].token \in {None, store'.token} \cup {job[e].token : e \in Tasks}
    BY <1>0, <1>3 DEF OnGranted, Finish, NoJob, TypeOK, Job
  <2> QED BY <1>3, <2>1, <2>2, IssuedQuiet DEF OnGranted
<1>4. ASSUME NEW c \in Tasks, OnRejected(c) \/ OnLogout(c) \/ FetchFails(c) PROVE IssuedInv'
  <2>1. store'.token \in {None, store.token} /\ cookie' \in {None, cookie} /\ UNCHANGED <<now, blocked>>
    BY <1>4 DEF OnRejected, OnLogout, FetchFails, clearSession, SignedOut
  <2>2. \A d \in Tasks : job'[d].token \in {None} \cup {job[e].token : e \in Tasks}
    BY <1>0, <1>4 DEF OnRejected, OnLogout, FetchFails, Finish, NoJob, TypeOK
  <2> QED BY <2>1, <2>2, IssuedQuiet
<1>5. ASSUME Reload PROVE IssuedInv'
  BY <1>5, IssuedQuiet DEF Reload, Fresh, NoJob
<1>6. ASSUME NEW c \in Tasks, ReadForRefresh(c) \/ ReadForLogin(c) \/ issueTokens(c) PROVE IssuedInv'
  <2>1. UNCHANGED <<now, blocked, cookie, store>> /\ now \in Nat
    BY <1>0, <1>6 DEF ReadForRefresh, ReadForLogin, issueTokens, TypeOK
  <2>2. \A d \in Tasks : d # c => job'[d] = job[d]
    BY <1>0, <1>6 DEF ReadForRefresh, ReadForLogin, issueTokens, Read, TypeOK
  <2>3. Issued(job'[c].token)
    <3>1. CASE ReadForRefresh(c) \/ ReadForLogin(c)
      <4>1. job'[c].token = None \/ (job'[c].token.read = now /\ blocked[job'[c].token.u] = None)
        BY <1>0, <3>1 DEF ReadForRefresh, ReadForLogin, Read, MayRefresh, TypeOK, Job
      <4> QED BY <2>1, <4>1 DEF Issued
    <3>2. CASE issueTokens(c)
      <4>1. job[c].token \in Token /\ job'[c].token = [job[c].token EXCEPT !.at = now]
        <5> DEFINE token == [job[c].token EXCEPT !.at = now]
                   j == [job[c] EXCEPT !.at = "granted", !.token = token]
        <5>1. job[c].token \in Token /\ job' = [job EXCEPT ![c] = j]
          BY <3>2, SignedToken
        <5>2. j.token = token
          BY <1>0 DEF Job
        <5>3. job \in [Tasks -> Job]
          BY <1>0 DEF TypeOK
        <5> HIDE DEF token, j
        <5>4. job'[c].token = token
          BY <5>1, <5>2, <5>3
        <5> QED BY <5>1, <5>4 DEF token
      <4>2. job'[c].token.u = job[c].token.u /\ job'[c].token.read = job[c].token.read /\ job[c].token # None
        BY <4>1 DEF Token
      <4>3. Issued(job[c].token)
        BY DEF IssuedInv
      <4> QED BY <4>2, <4>3 DEF Issued
    <3> QED BY <1>6, <3>1, <3>2
  <2>4. ASSUME NEW t, Issued(t) PROVE Issued(t)'
    BY <2>1, <2>4 DEF Issued
  <2> QED BY <2>1, <2>2, <2>3, <2>4 DEF IssuedInv, Issued
<1>7. ASSUME NEW u \in Users, Block(u) PROVE IssuedInv'
  <2>1. UNCHANGED <<now, cookie, store, job>> /\ now \in Nat /\ blocked \in [Users -> Nat \cup {None}]
        /\ blocked[u] = None /\ blocked' = [blocked EXCEPT ![u] = now]
    BY <1>0, <1>7 DEF Block, TypeOK
  <2>2. ASSUME NEW t \in Token, Issued(t) PROVE Issued(t)'
    BY <2>1, <2>2 DEF Issued, Token
  <2>3. Issued(None)'
    BY DEF Issued
  <2>4. cookie \in Token \cup {None} /\ store.token \in Token \cup {None}
        /\ \A c \in Tasks : job[c].token \in Token \cup {None}
    BY <1>0 DEF TypeOK, Session, Job
  <2>5. Issued(cookie)' /\ Issued(store.token)' /\ \A c \in Tasks : Issued(job[c].token)'
    BY <2>1, <2>2, <2>3, <2>4 DEF IssuedInv
  <2>6. \A v \in Users : blocked'[v] # None => blocked'[v] <= now'
    BY <2>1 DEF IssuedInv
  <2> QED BY <2>5, <2>6 DEF IssuedInv
<1>8. ASSUME NEW u \in Users, Unblock(u) PROVE IssuedInv'
  <2>1. UNCHANGED <<now, cookie, store, job>> /\ blocked \in [Users -> Nat \cup {None}]
        /\ blocked' = [blocked EXCEPT ![u] = None]
    BY <1>0, <1>8 DEF Unblock, TypeOK
  <2>2. ASSUME NEW t \in Token, Issued(t) PROVE Issued(t)'
    BY <2>1, <2>2 DEF Issued, Token
  <2>3. Issued(None)'
    BY DEF Issued
  <2>4. cookie \in Token \cup {None} /\ store.token \in Token \cup {None}
        /\ \A c \in Tasks : job[c].token \in Token \cup {None}
    BY <1>0 DEF TypeOK, Session, Job
  <2>5. Issued(cookie)' /\ Issued(store.token)' /\ \A c \in Tasks : Issued(job[c].token)'
    BY <2>1, <2>2, <2>3, <2>4 DEF IssuedInv
  <2>6. \A v \in Users : blocked'[v] # None => blocked'[v] <= now'
    BY <2>1 DEF IssuedInv
  <2> QED BY <2>5, <2>6 DEF IssuedInv
<1>9. ASSUME NEW u \in Users, OtherTabEnters(u) PROVE IssuedInv'
  <2>1. UNCHANGED <<now, blocked, store, job>> /\ cookie'.read = 0
    BY <1>9 DEF OtherTabEnters
  <2> QED BY <2>1, IssuedQuiet
<1>10. CASE OtherTabLeaves
  BY <1>10, IssuedQuiet DEF OtherTabLeaves
<1>11. CASE Tick
  <2>1. UNCHANGED <<blocked, cookie, store, job>> /\ now \in Nat /\ now' = now + 1
        /\ blocked \in [Users -> Nat \cup {None}]
    BY <1>0, <1>11 DEF Tick, TypeOK
  <2>2. ASSUME NEW t \in Token \cup {None}, Issued(t) PROVE Issued(t)'
    BY <2>1, <2>2 DEF Issued, Token
  <2>4. cookie \in Token \cup {None} /\ store.token \in Token \cup {None}
        /\ \A c \in Tasks : job[c].token \in Token \cup {None}
    BY <1>0 DEF TypeOK, Session, Job
  <2>5. Issued(cookie)' /\ Issued(store.token)' /\ \A c \in Tasks : Issued(job[c].token)'
    BY <2>1, <2>2, <2>4 DEF IssuedInv
  <2>6. \A v \in Users : blocked'[v] # None => blocked'[v] <= now'
    BY <2>1 DEF IssuedInv
  <2> QED BY <2>5, <2>6 DEF IssuedInv
<1>12. CASE UNCHANGED vars
  BY <1>12 DEF vars, IssuedInv, Issued
<1> QED
  BY <1>1, <1>2, <1>3, <1>4, <1>5, <1>6, <1>7, <1>8, <1>9, <1>10, <1>11, <1>12
  DEF Next, Proceed, ServeCall, RefuseCall, OnUnauthorized, Call, Logout, Login

\* A call of a blocked account is served only within an access token's lifetime of
\* the blocking, plus what the answer under way took to sign: every token that is
\* ever used rests on a reading from before, whatever refreshes and logins overlap.
THEOREM BlockedAreShutOut == Spec => ShutOut
<1>1. ASSUME TypeInv, IssuedInv, NEW c \in Tasks, ServeCall(c), blocked[job[c].token.u] # None
      PROVE  now - blocked[job[c].token.u] < AccessLife + (job[c].token.at - job[c].token.read)
  <2>1. Accepted(job[c].token) /\ job[c].token \in Token
    BY <1>1 DEF ServeCall, Accepted, TypeInv, TypeOK, Job
  <2>2. job[c].token.read <= blocked[job[c].token.u]
    BY <1>1, <2>1 DEF IssuedInv, Issued, Accepted
  <2>3. /\ now \in Nat /\ job[c].token.at \in Nat /\ job[c].token.read \in Nat
        /\ blocked[job[c].token.u] \in Nat /\ AccessLife \in Nat
    BY <1>1, <2>1 DEF TypeInv, TypeOK, Token
  <2>4. now - job[c].token.at < AccessLife
    BY <2>1 DEF Accepted
  <2> QED BY <2>2, <2>3, <2>4
<1>2. TypeInv /\ IssuedInv /\ [Next]_vars =>
        [\A c \in Tasks : ServeCall(c) =>
            LET token == job[c].token
                since == blocked[token.u]
            IN  since # None => now - since < AccessLife + (token.at - token.read)]_vars
  BY <1>1
<1>3. Init => TypeInv /\ IssuedInv
  BY InitType, InitIssued
<1>4. TypeInv /\ IssuedInv /\ [Next]_vars => TypeInv' /\ IssuedInv'
  BY NextType, NextIssued
<1> QED BY <1>2, <1>3, <1>4, PTL DEF Spec, ShutOut
=============================================================================
