------------------------------- MODULE Sessions -------------------------------
(***************************************************************************)
(* Signing in, staying signed in and signing out, of staff and of members:   *)
(* the two clients of the web application (apiFetch and memberApiFetch, the  *)
(* session stores and their restoring at page load) with the endpoints that  *)
(* issue, accept and refresh their tokens.                                  *)
(*                                                                         *)
(* The two sides are alike but for two lines: RereadsAccount and              *)
(* UnwrapsRefresh.  The access token is held in the memory of a tab of the    *)
(* browser; the refresh token is a cookie, which it shares with the others.  *)
(* A task is an asynchronous function of the tab; between its awaits other   *)
(* tasks, other tabs and the server run.  job[c].at tells what is under way: *)
(* a request ("call", "refresh", "login", "logout"), the handler that has     *)
(* read the account and awaits before it signs ("issue"), or the answer.      *)
(*                                                                         *)
(* Abstractions: one tab is followed, and of the others what they do to the   *)
(* cookie; passwords are right; what a call returns is left out.               *)
(***************************************************************************)
EXTENDS Integers, FiniteSets

CONSTANTS
    Sides, \* "staff", "member"
    Users, Tasks, None,
    AccessLife, RefreshLife,
    MaxTime, MaxFailures \* bounds of the model

ASSUME NoneAssumption == None \notin Users \cup Tasks \cup Int \cup [u : Users, at : Nat, read : Nat]
ASSUME SidesAssumption == Sides \subseteq {"staff", "member"}
ASSUME BoundsAssumption == {AccessLife, RefreshLife, MaxTime, MaxFailures} \subseteq Nat

VARIABLES
    side,     \* which of the two the tab is of
    now,      \* the time
    blocked,  \* [Users -> since when the account is deactivated or suspended, or None]
    cookie,   \* the refresh token of the browser, or None
    store,    \* the tab's session store: user, token, status
    job,      \* [Tasks -> what the task is doing]
    failures  \* requests that the network has lost so far

vars == <<side, now, blocked, cookie, store, job, failures>>

-----------------------------------------------------------------------------
\* The access strategy reads the account again, not only the token's claims.
RereadsAccount == side = "member"

\* refreshSession takes the tokens out of the envelope { success, data, timestamp }.
UnwrapsRefresh == side = "member"

\* Issued to whom and when.  "read" is history, which no action looks at: when the
\* handler that issued it had read the account; of a refresh token it is not kept (0).
Token == [u : Users, at : Nat, read : Nat]

NoJob == [op |-> "idle", at |-> "start", user |-> None, token |-> None, retry |-> FALSE]
SignedOut == [user |-> None, token |-> None, status |-> "unauthenticated"]
Fresh == [user |-> None, token |-> None, status |-> "idle"]

Init ==
    /\ side \in Sides
    /\ now = 0
    /\ blocked = [u \in Users |-> None]
    /\ cookie = None
    /\ store = Fresh
    /\ job = [c \in Tasks |-> NoJob]
    /\ failures = 0

Idle(c) == job[c].op = "idle"
At(c, at) == job[c].at = at
Finish(c) == job' = [job EXCEPT ![c] = NoJob]

setSession(u, token) == store' = [user |-> u, token |-> token, status |-> "authenticated"]
clearSession == store' = SignedOut

-----------------------------------------------------------------------------
(* The server.                                                             *)

\* The access strategy: of staff the token's claims are enough.
Accepted(token) ==
    /\ token # None /\ now - token.at < AccessLife
    /\ RereadsAccount => blocked[token.u] = None

\* The refresh guard, then getAuthUserById or getAuthMemberById.
MayRefresh_Unread(token) == token # None /\ now - token.at < RefreshLife
MayRefresh(token) == token # None /\ now - token.at < RefreshLife /\ blocked[token.u] = None

ServeCall(c) ==
    /\ At(c, "call") /\ Accepted(job[c].token)
    /\ Finish(c)
    /\ UNCHANGED <<side, now, blocked, cookie, store, failures>>

RefuseCall(c) ==
    /\ At(c, "call") /\ ~Accepted(job[c].token)
    /\ job' = [job EXCEPT ![c].at = "unauthorized"]
    /\ UNCHANGED <<side, now, blocked, cookie, store, failures>>

\* The handler reads the account; the tokens come later, at "issue".
Read(c, u, allowed) ==
    job' = [job EXCEPT ![c].at = IF allowed THEN "issue" ELSE "rejected",
                       ![c].token = IF allowed THEN [u |-> u, at |-> now, read |-> now] ELSE None]

ReadForRefresh(c) ==
    /\ At(c, "refresh")
    /\ Read(c, job[c].token.u, MayRefresh(job[c].token))
    /\ UNCHANGED <<side, now, blocked, cookie, store, failures>>

ReadForLogin(c) ==
    /\ At(c, "login")
    /\ Read(c, job[c].user, blocked[job[c].user] = None)
    /\ UNCHANGED <<side, now, blocked, cookie, store, failures>>

\* After argon2.verify and signAsync: tokens of this moment, of the account as it was read.
issueTokens(c) ==
    /\ At(c, "issue")
    /\ job' = [job EXCEPT ![c].at = "granted", ![c].token.at = now]
    /\ UNCHANGED <<side, now, blocked, cookie, store, failures>>

-----------------------------------------------------------------------------
(* The client.                                                             *)

Send(c, op, at, u, token) ==
    /\ Idle(c)
    /\ job' = [job EXCEPT ![c] = [NoJob EXCEPT !.op = op, !.at = at, !.user = u, !.token = token]]

\* initializeAuth, at page load.
Boot(c) ==
    /\ store.status = "idle"
    /\ Send(c, "boot", "refresh", None, cookie)
    /\ store' = [store EXCEPT !.status = "loading"]
    /\ UNCHANGED <<side, now, blocked, cookie, failures>>

\* The page is loaded anew: its memory is gone, and so are its tasks.
Reload ==
    /\ store.status # "idle"
    /\ store' = Fresh
    /\ job' = [c \in Tasks |-> NoJob]
    /\ UNCHANGED <<side, now, blocked, cookie, failures>>

Call(c) ==
    /\ store.status # "idle"
    /\ Send(c, "call", "call", None, store.token)
    /\ UNCHANGED <<side, now, blocked, cookie, store, failures>>

Login(c, u) ==
    /\ store.status # "idle"
    /\ Send(c, "login", "login", u, None)
    /\ UNCHANGED <<side, now, blocked, cookie, store, failures>>

Logout(c) ==
    /\ store.status = "authenticated"
    /\ Send(c, "logout", "logout", None, None)
    /\ UNCHANGED <<side, now, blocked, cookie, store, failures>>

\* A 401: once, the session is refreshed first.
OnUnauthorized_Always(c) ==
    /\ At(c, "unauthorized")
    /\ job' = [job EXCEPT ![c].at = "refresh", ![c].token = cookie]
    /\ UNCHANGED <<side, now, blocked, cookie, store, failures>>
OnUnauthorized(c) ==
    /\ At(c, "unauthorized")
    /\ IF job[c].retry THEN Finish(c)
       ELSE job' = [job EXCEPT ![c].at = "refresh", ![c].token = cookie]
    /\ UNCHANGED <<side, now, blocked, cookie, store, failures>>

\* Whether the tokens are found in the answer; initializeAuth and login find them.
Found(c) == job[c].op # "call" \/ UnwrapsRefresh

\* Set-Cookie, setSession, and the call again, with the token in the store.
OnGranted(c) ==
    /\ At(c, "granted")
    /\ cookie' = [job[c].token EXCEPT !.read = 0]
    /\ IF Found(c)
       THEN setSession(job[c].token.u, job[c].token)
       ELSE setSession(None, None)
    /\ IF job[c].op = "call"
       THEN job' = [job EXCEPT ![c].at = "call", ![c].token = store'.token, ![c].retry = TRUE]
       ELSE Finish(c)
    /\ UNCHANGED <<side, now, blocked, failures>>

\* A login that is refused leaves the session as it is.
OnRejected_Unsettled(c) ==
    /\ At(c, "rejected")
    /\ IF job[c].op = "call" THEN clearSession ELSE UNCHANGED store
    /\ Finish(c)
    /\ UNCHANGED <<side, now, blocked, cookie, failures>>
OnRejected(c) ==
    /\ At(c, "rejected")
    /\ IF job[c].op = "login" THEN UNCHANGED store ELSE clearSession
    /\ Finish(c)
    /\ UNCHANGED <<side, now, blocked, cookie, failures>>

\* Answered without a guard: the cookie is cleared, and then the store.
OnLogout_StatusOnly(c) ==
    /\ At(c, "logout")
    /\ cookie' = None
    /\ store' = [store EXCEPT !.status = "unauthenticated"]
    /\ Finish(c)
    /\ UNCHANGED <<side, now, blocked, failures>>
OnLogout(c) ==
    /\ At(c, "logout")
    /\ cookie' = None
    /\ clearSession
    /\ Finish(c)
    /\ UNCHANGED <<side, now, blocked, failures>>

\* No answer: fetch rejects and the task ends with it; logout clears the store
\* all the same ("finally"), and a page that is loading goes on loading.
FetchFails(c) ==
    /\ job[c].at \in {"call", "refresh", "login", "issue", "logout"} /\ failures < MaxFailures
    /\ failures' = failures + 1
    /\ IF job[c].op = "logout" THEN clearSession ELSE UNCHANGED store
    /\ Finish(c)
    /\ UNCHANGED <<side, now, blocked, cookie>>

-----------------------------------------------------------------------------
Block(u) ==
    /\ blocked[u] = None
    /\ blocked' = [blocked EXCEPT ![u] = now]
    /\ UNCHANGED <<side, now, cookie, store, job, failures>>

Unblock(u) ==
    /\ blocked[u] # None
    /\ blocked' = [blocked EXCEPT ![u] = None]
    /\ UNCHANGED <<side, now, cookie, store, job, failures>>

Tick ==
    /\ now < MaxTime
    /\ now' = now + 1
    /\ UNCHANGED <<side, blocked, cookie, store, job, failures>>

\* Signing in or out in another tab, and a refresh there; of an account that is
\* blocked too, which the handler there may have read before.
OtherTabEnters(u) ==
    /\ cookie' = [u |-> u, at |-> now, read |-> 0]
    /\ cookie' # cookie
    /\ UNCHANGED <<side, now, blocked, store, job, failures>>

OtherTabLeaves ==
    /\ cookie # None
    /\ cookie' = None
    /\ UNCHANGED <<side, now, blocked, store, job, failures>>

Proceed(c) ==
    \/ ServeCall(c) \/ RefuseCall(c) \/ ReadForRefresh(c) \/ ReadForLogin(c) \/ issueTokens(c)
    \/ OnUnauthorized(c) \/ OnGranted(c) \/ OnRejected(c) \/ OnLogout(c)

Next ==
    \/ \E c \in Tasks : Proceed(c) \/ FetchFails(c) \/ Boot(c) \/ Call(c) \/ Logout(c)
    \/ \E c \in Tasks, u \in Users : Login(c, u)
    \/ \E u \in Users : Block(u) \/ Unblock(u) \/ OtherTabEnters(u)
    \/ Reload \/ OtherTabLeaves
    \/ Tick

Spec == Init /\ [][Next]_vars

\* A request is answered or fails, and the event loop goes on.
Fairness == \A c \in Tasks : WF_vars(Proceed(c) \/ FetchFails(c))
FairSpec == Spec /\ Fairness

-----------------------------------------------------------------------------
Session == [user : Users \cup {None}, token : Token \cup {None},
            status : {"idle", "loading", "authenticated", "unauthenticated"}]
Job == [op : {"idle", "boot", "call", "login", "logout"},
        at : {"start", "call", "unauthorized", "refresh", "login", "issue", "logout", "granted", "rejected"},
        user : Users \cup {None}, token : Token \cup {None}, retry : BOOLEAN]

\* Every variable has its type.
TypeOK ==
    /\ side \in Sides /\ now \in Nat /\ failures \in Nat
    /\ blocked \in [Users -> Nat \cup {None}]
    /\ cookie \in Token \cup {None}
    /\ store \in Session
    /\ job \in [Tasks -> Job]

\* A tab that shows its user as signed in has that user's token, whatever calls
\* expired, refreshed, failed or signed out together (stores/auth.ts: setSession
\* takes a user and a token, and makes the status "authenticated" of both).
SessionUsable ==
    IF store.status = "authenticated"
    THEN store.token # None /\ store.user = store.token.u
    ELSE store.token = None /\ store.user = None

\* Of the members' client; the staff client loses the answer of a refresh.
MemberSessionUsable == side = "member" => SessionUsable

\* A page that waits for its session, and shows nothing else (ProtectedRoute),
\* has a task that will settle it, unless the network failed that task.
LoadingIsSettled ==
    store.status = "loading" => failures > 0 \/ \E c \in Tasks : job[c].op = "boot"

\* An account that was blocked is shut out, by the expiry of the last access token
\* that an answer can hold that had read the account before: a call is served only
\* within the lifetime of an access token from the blocking, plus what that answer
\* took from its reading to its signing.  No refresh prolongs it, of this tab or of
\* another, however they overlap with the blocking.
ShutOut ==
    [][\A c \in Tasks : ServeCall(c) =>
          LET token == job[c].token
              since == blocked[token.u]
          IN  since # None => now - since < AccessLife + (token.at - token.read)]_vars

\* Liveness: a call is answered, after at most one refresh, even if what is
\* refreshed is refused again.
TasksEnd == \A c \in Tasks : ~Idle(c) ~> Idle(c)
=============================================================================
