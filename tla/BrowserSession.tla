---------------------------- MODULE BrowserSession ----------------------------
(***************************************************************************)
(* The session of one user in one browser, composed with the table behind  *)
(* it: frontend/src/lib/api/client.ts (the fetch wrapper and refreshOnce), *)
(* lib/api/auth.ts, lib/auth/token-store.ts and components/providers.tsx   *)
(* above the handlers of RefreshTokens.                                    *)
(*                                                                         *)
(* Each tab has a JavaScript heap with an access token and the promise     *)
(* refreshInFlight.  The tabs share the cookie jar.  JavaScript runs one   *)
(* task at a time: a step of a tab is one task with its microtasks.  A     *)
(* request reads the jar when it is sent; Set-Cookie acts when the answer  *)
(* arrives.                                                                *)
(*                                                                         *)
(* Calls with a valid access token change nothing of this and are left     *)
(* out, but for the one to /auth/logout-all.                               *)
(***************************************************************************)
EXTENDS RefreshTokens, Integers, FiniteSets

CONSTANTS
  Tabs,
  Calls,      \* calls of api() that one tab may have in progress
  PageUpsets, \* bound: kinds of upset after which a page begins nothing more
  UserUpsets  \* bound: kinds of upset after which the user does nothing more

ASSUME BrowserAssumption == IsFiniteSet(Reqs) /\ IsFiniteSet(Tabs) /\ IsFiniteSet(Calls)
ASSUME TabsAssumption    == "left" \notin Tabs

VARIABLES
  jar,        \* the aurum_refresh cookie, 0 for none
  access,     \* access[b]: the token-store of tab b
  inFlight,   \* inFlight[b]: refreshInFlight, settled for 50 ms before it is null again
  call,       \* call[b][c]: sent, waiting for the shared refresh, or how it ended
  fetch,      \* fetch[r]: the request to /auth that backend request r serves
  upset       \* history: what happened that a browser alone cannot rule out

browser == <<jar, access, inFlight, call, fetch, upset>>
allVars == <<vars, browser>>

(***************************************************************************)
(* A fetch is made by shared (refreshOnce), silent (refresh of mount and   *)
(* interval), login, logout or logout_all; at: out (on its way), served (a *)
(* handler has it), answered.  gives is the cookie that the answer sets, 0 *)
(* to delete it and -1 for an answer without Set-Cookie.  A page that was  *)
(* left has no more use for the answers it waits for: tab is then "left".  *)
(***************************************************************************)
Makers == {"none", "shared", "silent", "login", "logout", "logout_all"}
Fetch  == [by: Makers, tab: Tabs \union {"left"}, cookie: 0..MaxTokens,
           at: {"none", "out", "served", "answered"}, ok: BOOLEAN, gives: -1..MaxTokens]

NoFetch == [by |-> "none", tab |-> "left", cookie |-> 0, at |-> "none",
            ok |-> FALSE, gives |-> -1]

Pending(r)   == fetch[r].at # "none"
Unanswered   == {r \in Reqs : fetch[r].at \in {"out", "served"}}
Refreshes(r) == fetch[r].by \in {"shared", "silent"}

\* Bound: there is a row left for every request that may still insert one, and fewer kinds
\* of upset than n have happened.
Room(n) ==
  Cardinality(upset) < n /\
  Cardinality({t \in Tokens : status[t] = "absent"})
    > Cardinality({r \in Unanswered : fetch[r].by \notin {"logout", "logout_all"}})
      + Cardinality({bc \in Tabs \X Calls : call[bc[1]][bc[2]] = "sent"})

BrowserInit ==
  /\ Init
  /\ jar = 0 /\ upset = {}
  /\ access = [b \in Tabs |-> "none"] /\ inFlight = [b \in Tabs |-> "null"]
  /\ call = [b \in Tabs |-> [c \in Calls |-> "idle"]]
  /\ fetch = [r \in Reqs |-> NoFetch]
-----------------------------------------------------------------------------
(* Sending.                                                                *)

\* Another request that uses or sets the cookie is under way, and the two are not of
\* the kind that a tab coalesces; or some tab still hands out the outcome of a refresh
\* that the sign-in makes obsolete.
Overlaps(b, by) ==
  { IF "login" \in {by, fetch[q].by} THEN "signin" ELSE "overlap" :
      q \in { p \in Reqs : /\ Pending(p) /\ fetch[p].cookie = jar
                           /\ jar # 0 \/ "login" \in {by, fetch[p].by}
                           /\ ~(by = "shared" /\ fetch[p].by = "shared" /\ fetch[p].tab = b) } }
  \union {"signin" : other \in {t \in Tabs : by = "login" /\ inFlight[t] # "null"}}

\* The request carries the cookie that is in the jar now.
Sent(b, by) ==
  [by |-> by, tab |-> b, cookie |-> jar, at |-> "out", ok |-> FALSE, gives |-> -1]

Send(r, b, by) ==
  /\ ~Pending(r) /\ Waiting(r)
  /\ fetch' = [fetch EXCEPT ![r] = Sent(b, by)]
  /\ upset' = upset \union Overlaps(b, by)

Abandoned(b) == [r \in Reqs |-> IF fetch[r].tab = b THEN [fetch[r] EXCEPT !.tab = "left"]
                                                    ELSE fetch[r]]

\* A page is loaded: a new heap, no interest in what the old one still asked for (that
\* is a fault), and the effect of Providers, which finds no token.
Load(b, r) ==
  /\ Room(PageUpsets) /\ ~Pending(r) /\ Waiting(r)
  /\ fetch' = [Abandoned(b) EXCEPT ![r] = Sent(b, "silent")]
  /\ upset' = upset \union (IF \E q \in Reqs : Pending(q) /\ fetch[q].tab = b
                             THEN {"fault"} ELSE Overlaps(b, "silent"))
  /\ access' = [access EXCEPT ![b] = "none"]
  /\ inFlight' = [inFlight EXCEPT ![b] = "null"]
  /\ call' = [call EXCEPT ![b] = [c \in Calls |-> "idle"]]
  /\ UNCHANGED <<vars, jar>>

\* The interval of Providers: with a token in memory, expired or not, and twelve minutes
\* after its last refresh or the mount's, which has ended by then.
Tick(b, r) ==
  /\ Room(PageUpsets) /\ access[b] # "none"
  /\ \A q \in Reqs : ~(Pending(q) /\ fetch[q].tab = b /\ fetch[q].by = "silent")
  /\ Send(r, b, "silent")
  /\ UNCHANGED <<vars, jar, access, inFlight, call>>

\* The token in memory passes expires_at, which is much later than the 50 ms.
AccessExpires(b) ==
  /\ access[b] = "valid" /\ inFlight[b] = "null"
  /\ access' = [access EXCEPT ![b] = "expired"]
  /\ UNCHANGED <<vars, jar, inFlight, call, fetch, upset>>

\* api() without a token, or with one that expired: the backend will answer 401.  The
\* login page makes no such call while it signs in.
AskApi(b, c) ==
  /\ Room(PageUpsets)
  /\ \A q \in Reqs : ~(Pending(q) /\ fetch[q].tab = b /\ fetch[q].by = "login")
  /\ call[b][c] \in {"idle", "ok", "refused"} /\ access[b] # "valid"
  /\ call' = [call EXCEPT ![b][c] = "sent"]
  /\ UNCHANGED <<vars, jar, access, inFlight, fetch, upset>>

\* The user answers the passkey prompt: not within the 50 ms.  The login page does not ask
\* whether there is a token already.
SignIn(b, r) ==
  /\ Room(UserUpsets) /\ inFlight[b] = "null" /\ Send(r, b, "login")
  /\ UNCHANGED <<vars, jar, access, inFlight, call>>

SignOut(b, r) ==
  /\ Room(UserUpsets) /\ access[b] # "none" /\ Send(r, b, "logout")
  /\ UNCHANGED <<vars, jar, access, inFlight, call>>

\* The settings page signs out everywhere.  With an expired token it goes the way of
\* AskApi first, and this is what is tried again.
SignOutAll(b, r) ==
  /\ Room(UserUpsets) /\ access[b] = "valid" /\ Send(r, b, "logout_all")
  /\ UNCHANGED <<vars, jar, access, inFlight, call>>
-----------------------------------------------------------------------------
(* A 401 and the shared refresh.                                           *)

\* Mutants of MayShare: a failing call starts a refresh of its own; it waits for one
\* although none was started.
MayShareNever(b) == FALSE
MayShareAlways(b) == TRUE

MayShare(b) == inFlight[b] # "null"

\* The first call to fail starts the refresh, the next ones get its promise.
Got401(b, c) ==
  /\ call[b][c] = "sent" /\ inFlight[b] \in {"null", "pending"}
  /\ call' = [call EXCEPT ![b][c] = "waiting"]
  /\ inFlight' = [inFlight EXCEPT ![b] = "pending"]
  /\ IF MayShare(b) THEN UNCHANGED <<fetch, upset>>
                    ELSE \E r \in Reqs : Send(r, b, "shared")
  /\ UNCHANGED <<vars, jar, access>>

\* Tried again with whatever token is in memory: the second 401 is final.
Retried(token) == IF token = "valid" THEN "ok" ELSE "refused"

\* Within the 50 ms a failing call gets the settled promise.
Got401Settled(b, c) ==
  /\ call[b][c] = "sent" /\ inFlight[b] \in {"succeeded", "failed"}
  /\ \/ /\ inFlight[b] = "succeeded"
        /\ call' = [call EXCEPT ![b][c] = Retried(access[b])]
        /\ UNCHANGED access
     \/ /\ inFlight[b] = "failed"
        /\ call' = [call EXCEPT ![b][c] = "refused"]
        /\ access' = [access EXCEPT ![b] = "none"]
  /\ UNCHANGED <<vars, jar, inFlight, fetch, upset>>

Debounced(b) ==
  /\ inFlight[b] \in {"succeeded", "failed"}
  /\ inFlight' = [inFlight EXCEPT ![b] = "null"]
  /\ UNCHANGED <<vars, jar, access, call, fetch, upset>>
-----------------------------------------------------------------------------
(* The backend: the steps of RefreshTokens, started by what the browser    *)
(* sent, and the answers they end in.                                      *)

Answered(r, ok, gives) ==
  fetch' = [fetch EXCEPT ![r].at = "answered", ![r].ok = ok, ![r].gives = gives]

Serve(r) == fetch' = [fetch EXCEPT ![r].at = "served"]

Arrives(r) ==
  /\ fetch[r].at = "out"
  /\ \/ /\ Refreshes(r) /\ fetch[r].cookie # 0
        /\ \E new \in Tokens : RefreshRead(r, fetch[r].cookie, new)
        /\ Serve(r)
     \/ /\ Refreshes(r) /\ fetch[r].cookie = 0
        /\ Answered(r, FALSE, -1) /\ UNCHANGED vars
     \/ /\ fetch[r].by = "login"
        /\ \E u \in Users, new \in Tokens : LoginBegin(r, u, new)
        /\ Serve(r)
     \/ /\ fetch[r].by = "logout" /\ fetch[r].cookie # 0
        /\ LogoutRead(r, fetch[r].cookie)
        /\ Serve(r)
     \/ /\ fetch[r].by = "logout"
        /\ fetch[r].cookie \notin {t \in Tokens : Live(t)}
        /\ Answered(r, TRUE, 0) /\ UNCHANGED vars
     \/ /\ fetch[r].by = "logout_all"      \* of whoever the access token names
        /\ \E u \in Users : LogoutAllBegin(r, u)
        /\ Serve(r)
  /\ UNCHANGED <<jar, access, inFlight, call, upset>>

Continues(r) ==
  /\ fetch[r].at = "served"
  /\ ReuseBegin(r) \/ RotateWrite(r) \/ RevokeWrite(r) \/ BulkWrite(r)
  /\ UNCHANGED browser

\* Mutant of CookieGiven: the answer to a logout leaves the cookie alone.
CookieGivenByIssueOnly(r) ==
  IF req[r].op \in {"logout", "logout_all"} THEN -1 ELSE req[r].fresh

\* _set_refresh_cookie with a new token, _clear_refresh_cookie on logout.  logout_all
\* clears it on the response it was given and returns another one, which says nothing.
CookieGiven(r) == IF req[r].op = "logout_all" THEN -1 ELSE req[r].fresh

Returns(r) ==
  /\ fetch[r].at = "served" /\ CommitOnReturn(r)
  /\ Answered(r, TRUE, CookieGiven(r))
  /\ UNCHANGED <<jar, access, inFlight, call, upset>>

\* The answer to an exception is made by its handler: Set-Cookie is not carried over.
Raised(r) ==
  /\ fetch[r].at = "served" /\ CommitOnRaise(r)
  /\ Answered(r, FALSE, -1)
  /\ UNCHANGED <<jar, access, inFlight, call, upset>>

Breaks(r) ==
  /\ fetch[r].at = "served" /\ Abort(r)
  /\ Answered(r, FALSE, -1)
  /\ upset' = upset \union {"fault"}
  /\ UNCHANGED <<jar, access, inFlight, call>>
-----------------------------------------------------------------------------
(* The answer reaches the tab, or does not.                                *)

\* What the code that awaited the fetch does, with its microtasks.
Settle(b, by, ok) ==
  /\ access' = [access EXCEPT ![b] =
       IF by = "logout_all" \/ (by = "login" /\ ~ok) THEN @   \* the token-store is left alone
       ELSE IF ok /\ by # "logout" THEN "valid"
       ELSE IF by = "shared" /\ (\A c \in Calls : call[b][c] # "waiting") THEN @
       ELSE "none"]
  /\ \/ /\ by = "shared"
        /\ inFlight' = [inFlight EXCEPT ![b] = IF ok THEN "succeeded" ELSE "failed"]
        /\ call' = [call EXCEPT ![b] = [c \in Calls |->
                      IF @[c] = "waiting" THEN (IF ok THEN "ok" ELSE "refused") ELSE @[c]]]
     \/ /\ by # "shared"
        /\ UNCHANGED <<inFlight, call>>

Finished(r, ok) ==
  /\ fetch' = [fetch EXCEPT ![r] = NoFetch]
  /\ \/ fetch[r].tab # "left" /\ Settle(fetch[r].tab, fetch[r].by, ok)
     \/ fetch[r].tab = "left" /\ UNCHANGED <<access, inFlight, call>>
  /\ UNCHANGED vars

\* Mutant of JarAfter: the cookie of the first answer stays.
JarAfterFirst(r) == IF jar # 0 THEN jar ELSE IF fetch[r].gives = -1 THEN jar ELSE fetch[r].gives

JarAfter(r) == IF fetch[r].gives = -1 THEN jar ELSE fetch[r].gives

Deliver(r) ==
  /\ fetch[r].at = "answered"
  /\ jar' = JarAfter(r)
  /\ Finished(r, fetch[r].ok)
  /\ UNCHANGED upset

\* The answer is lost, or the page that waits for it is gone: fetch rejects.
Lose(r) ==
  /\ fetch[r].at = "answered"
  /\ upset' = upset \union {"fault"}
  /\ Finished(r, FALSE)
  /\ UNCHANGED jar

BrowserNext ==
  \/ \E b \in Tabs :
       \/ AccessExpires(b) \/ Debounced(b)
       \/ \E r \in Reqs : \/ Load(b, r) \/ Tick(b, r)
                          \/ SignIn(b, r) \/ SignOut(b, r) \/ SignOutAll(b, r)
       \/ \E c \in Calls : AskApi(b, c) \/ Got401(b, c) \/ Got401Settled(b, c)
  \/ \E r \in Reqs : \/ Arrives(r) \/ Continues(r) \/ Returns(r) \/ Raised(r) \/ Breaks(r)
                     \/ Deliver(r) \/ Lose(r)

\* The event loops, the backend and the network go on; users need not do anything.
Fairness ==
  /\ \A r \in Reqs : WF_allVars(Arrives(r) \/ Continues(r) \/ Returns(r) \/ Raised(r) \/ Deliver(r))
  /\ \A b \in Tabs :
       /\ WF_allVars(Debounced(b))
       /\ \A c \in Calls : SF_allVars(Got401(b, c) \/ Got401Settled(b, c))

BrowserSpec == BrowserInit /\ [][BrowserNext]_allVars /\ Fairness
-----------------------------------------------------------------------------
BrowserTypeOK ==
  /\ jar \in 0..MaxTokens
  /\ access \in [Tabs -> {"none", "valid", "expired"}]
  /\ inFlight \in [Tabs -> {"null", "pending", "succeeded", "failed"}]
  /\ call \in [Tabs -> [Calls -> {"idle", "sent", "waiting", "ok", "refused"}]]
  /\ fetch \in [Reqs -> Fetch]
  /\ upset \subseteq {"overlap", "signin", "fault"}

Quiet == \A r \in Reqs : ~Pending(r)

\* Revoked, but neither exchanged nor signed out by itself, and its user did sign out
\* everywhere.  (A reuse revokes too; with nothing upset this browser has no session then
\* that it could revoke.)
LeftBehind(t) ==
  /\ t \in Tokens /\ status[t] = "revoked"
  /\ \E a \in audit : a.action = "logout_all" /\ a.user = owner[t]
  /\ \A a \in audit : a.tok = t => a.action = "reuse"

\* A browser never presents a token that was exchanged or signed out, however many of
\* its calls fail together: without requests that overlap and that refreshOnce does not
\* coalesce, and without a fault, the only reuse ever detected is of a token that a
\* sign-out-all revoked and whose cookie its answer (auth.py:642) failed to clear.
NoReuseByItself ==
  upset = {} => \A a \in audit : a.action = "reuse" => LeftBehind(a.tok)

\* When nothing is under way and nothing went wrong, the jar holds a token the backend
\* still honours, or none, or what a sign-out-all left in it.
JarUsable ==
  Quiet /\ upset = {} => jar = 0 \/ jar \in {t \in Tokens : Live(t)} \/ LeftBehind(jar)

\* No call waits for a promise that nobody settles: a tab in which calls wait has a
\* shared refresh under way, and it has one exactly while refreshInFlight is pending.
WaitersHaveRefresh ==
  \A b \in Tabs :
    /\ inFlight[b] = "pending" <=>
         \E r \in Reqs : Pending(r) /\ fetch[r].tab = b /\ fetch[r].by = "shared"
    /\ (\E c \in Calls : call[b][c] = "waiting") => inFlight[b] = "pending"

\* A tab is signed out, be it that a call ends as refused or that its token is dropped
\* although the page stays, only when the browser has no session any more: no cookie, or
\* one that a sign-out-all left behind.  Unless requests overlapped or one of them failed.
SignedOutForAReason ==
  [][\A b \in Tabs :
       \/ \E c \in Calls : call[b][c] # "refused" /\ call'[b][c] = "refused"
       \/ access[b] # "none" /\ access'[b] = "none" /\ ~\E r \in Reqs : Load(b, r)
       => jar' = 0 \/ LeftBehind(jar)' \/ upset' # {}]_allVars

\* Every call that met a 401 ends: it is tried again, refused, or its page is left.
CallsEnd ==
  \A b \in Tabs, c \in Calls : call[b][c] = "sent" ~> call[b][c] \notin {"sent", "waiting"}

\* providers.tsx:21 "attempt a silent refresh so a returning user lands authed": when
\* no request failed, nobody signed in meanwhile and nobody signed out, the tab of a
\* user with a session is signed in once all is quiet.
ReturningUserLandsAuthed ==
  Quiet /\ upset \subseteq {"overlap"} /\ jar # 0
  /\ (\A a \in audit : a.action \notin {"logout", "logout_all"})
    => \A b \in Tabs : access[b] # "none"
=============================================================================
