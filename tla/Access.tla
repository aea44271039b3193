-------------------------------- MODULE Access --------------------------------
(***************************************************************************)
(* The setup page, login, sessions and the guard of every page and form    *)
(* (ui.ts, sqlite-auth-repositories.ts) of the processes that Startup      *)
(* brings up.  A setup and a login run to their end within their process,  *)
(* and before the clock moves by a unit; those of two processes interleave *)
(* statement by statement.  A form that changes something may take its     *)
(* time after it was let in, for its handler may await a delivery.         *)
(***************************************************************************)
EXTENDS Startup

CONSTANTS
    Browsers,
    SessionTtl,     \* SESSION_TTL_MS
    Window,         \* LOGIN_WINDOW_MS
    MaxAttempts,    \* LOGIN_MAX_ATTEMPTS
    MaxLogins,      \* bound: sessions opened in a run
    MaxPosts        \* bound: forms under way at a time

ASSUME AccessAssumption ==
    /\ SessionTtl \in Nat /\ Window \in Nat
    /\ MaxAttempts \in Nat \ {0} /\ MaxLogins \in Nat /\ MaxPosts \in Nat

VARIABLES
    follows,    \* bound: what a run follows, an installation's setup or its logins
    sessions,   \* admin_sessions: [id, user, left]
    attempts,   \* login_rate_limits of the one address: [count, age], count 0 for no row
    logins,     \* sessions opened so far
    cookie,     \* the session each browser holds, 0 for none
    form,       \* the session whose csrf token is in the page it shows
    request,    \* the setup or the login each process is answering
    posts,      \* forms let in that have not made their change yet
    unaudited,  \* users let in whose admin.setup_completed is not written yet
    tried,      \* history: passwords looked at since the last window ended
    latest,     \* history: each user's last login, 0 once logged out
    age         \* history: time since that login

webVars == <<follows, sessions, attempts, logins, cookie, form, posts>>
history == <<unaudited, tried, latest, age>>
vars == <<startVars, webVars, request, history>>

NoRequest == [kind |-> "none"]
WebPlace == {"checkToken", "createAdmin", "auditSetup", "count", "rotate"}
OpenForm == MaxLogins + 1       \* the csrf cookie of the UI without login
Session == [id : 1 .. MaxLogins, user : Names, left : -1 .. SessionTtl]
Posted == [slot : 1 .. MaxPosts, process : Processes, user : Names \cup {Nobody},
           session : 0 .. MaxLogins]

TypeOK ==
    /\ StartTypeOK
    /\ pc \in [Processes -> {"down", "serving"} \cup StartPlace \cup WebPlace]
    /\ follows \in {"setup", "logins"}
    /\ sessions \subseteq Session
    /\ attempts \in [count : Nat, age : 0 .. Window + 1]
    /\ logins \in 0 .. MaxLogins
    /\ cookie \in [Browsers -> 0 .. MaxLogins]
    /\ form \in [Browsers -> 0 .. OpenForm]
    /\ posts \subseteq Posted

\* Both processes serve an installation that has users already.
InitServing ==
    /\ built = Tag /\ applied = Tag /\ failure = "none"
    /\ tenants = 1
    /\ tokens = {} /\ issued = 0
    /\ \E n \in Names :
          role = [m \in Names |-> IF m = n THEN "admin" ELSE "none"]
    /\ maker = [n \in Names |-> Nobody]
    /\ pc = [p \in Processes |-> "serving"]
    /\ seen = [p \in Processes |-> Tag]
    /\ tenant = [p \in Processes |-> 1]
    /\ open \in OpenModes /\ fixed = FALSE
    /\ raced = FALSE
    /\ faults = 0 /\ crashes = 0

Init ==
    /\ \/ follows = "setup" /\ InitStart
       \/ follows = "logins" /\ InitServing
    /\ sessions = {}
    /\ attempts = [count |-> 0, age |-> 0]
    /\ logins = 0
    /\ cookie = [b \in Browsers |-> 0]
    /\ form = [b \in Browsers |-> 0]
    /\ request = [p \in Processes |-> NoRequest]
    /\ posts = {}
    /\ unaudited = {}
    /\ tried = 0
    /\ latest = [n \in Names |-> 0]
    /\ age = [n \in Names |-> 0]

-----------------------------------------------------------------------------
(* The setup page                                                          *)

Done(p) == Goto(p, "serving") /\ request' = [request EXCEPT ![p] = NoRequest]

\* Mutant: the users are not looked at before the token.
SetupOpenAlways == ~open

\* POST /setup, and createAdminWithSetupToken, begin by looking for a user.
SetupOpen == ~open /\ ~HasAdminUser

AskSetup(p, n, t) ==
    /\ pc[p] = "serving"
    /\ SetupOpen
    /\ Goto(p, "checkToken")
    /\ request' = [request EXCEPT ![p] = [kind |-> "setup", name |-> n, token |-> t]]
    /\ UNCHANGED <<env, schemaVars, tenants, tokens, issued, userVars, ownVars,
                   counters, webVars, history>>

\* The row of the token, before the transaction.
CheckToken(p) ==
    /\ pc[p] = "checkToken"
    /\ IF \E t \in tokens : t.id = request[p].token /\ ~t.used /\ t.left >= 0
       THEN Goto(p, "createAdmin") /\ UNCHANGED request
       ELSE Done(p)
    /\ UNCHANGED <<env, schemaVars, tenants, tokens, issued, userVars, ownVars,
                   counters, webVars, history>>

\* The transaction inserts the user and marks the token, which it does not
\* read again; a name that is taken fails it.
CreateAdmin(p) ==
    /\ pc[p] = "createAdmin"
    /\ LET n == request[p].name
       IN  IF role[n] # "none"
           THEN Done(p) /\ UNCHANGED <<role, maker, tokens, unaudited>>
           ELSE /\ role' = [role EXCEPT ![n] = "admin"]
                /\ maker' = [maker EXCEPT ![n] = p]
                /\ tokens' = {[t EXCEPT !.used = @ \/ t.id = request[p].token] :
                                t \in tokens}
                /\ unaudited' = unaudited \cup {n}
                /\ Goto(p, "auditSetup")
                /\ UNCHANGED request
    /\ UNCHANGED <<env, schemaVars, tenants, issued, ownVars, counters, webVars,
                   tried, latest, age>>

\* The audit row, and the onboarding row if it is not there.
AuditSetup(p) ==
    /\ pc[p] = "auditSetup"
    /\ unaudited' = unaudited \ {request[p].name}
    /\ Done(p)
    /\ UNCHANGED <<env, schemaVars, tenants, tokens, issued, userVars, ownVars,
                   counters, webVars, tried, latest, age>>

\* createUserWithRole and setUserRole: no route calls them, the owner of the
\* database does once somebody is registered.
CreateUser(n, r) ==
    /\ HasAdminUser
    /\ role[n] = "none"
    /\ role' = [role EXCEPT ![n] = r]
    /\ UNCHANGED <<env, schemaVars, tenants, tokens, issued, maker, pc, ownVars,
                   counters, webVars, request, history>>

SetUserRole(n, r) ==
    /\ role[n] \notin {"none", r}
    /\ role' = [role EXCEPT ![n] = r]
    /\ UNCHANGED <<env, schemaVars, tenants, tokens, issued, maker, pc, ownVars,
                   counters, webVars, request, history>>

-----------------------------------------------------------------------------
(* Login                                                                   *)

WindowOver == attempts.count = 0 \/ attempts.age > Window

Blocked == ~WindowOver /\ attempts.count >= MaxAttempts

\* Mutant: a refused attempt starts the window again.
RefusedAgain == [attempts EXCEPT !.age = 0]

\* A refused attempt leaves the row as it is.
Refused == attempts

Refuse(p) ==
    /\ pc[p] = "serving" /\ ~open
    /\ Blocked
    /\ attempts' = Refused
    /\ UNCHANGED <<startVars, follows, sessions, logins, cookie, form, request,
                   posts, history>>

LoggingIn == {p \in Processes : pc[p] \in {"count", "rotate"}}

\* POST /login, from browser b: consumeLoginAttempt reads the row.
AskLogin(p, b, n, right) ==
    /\ pc[p] = "serving" /\ ~open
    /\ logins + Cardinality(LoggingIn) < MaxLogins
    /\ ~Blocked
    /\ Goto(p, "count")
    /\ request' = [request EXCEPT ![p] = [kind |-> "login", name |-> n, browser |-> b,
                                          right |-> right, fresh |-> WindowOver]]
    /\ UNCHANGED <<env, schemaVars, tenants, tokens, issued, userVars, ownVars,
                   counters, webVars, history>>

\* Mutant: an attempt within the window is not counted.
CountedNot(fresh) == IF fresh THEN [count |-> 1, age |-> 0] ELSE attempts

\* What consumeLoginAttempt writes, from what it has read.
Counted(fresh) ==
    IF fresh THEN [count |-> 1, age |-> 0] ELSE [attempts EXCEPT !.count = @ + 1]

\* The attempt is counted, and only then the password looked at.  A window
\* that another process has begun since the row was read begins again.
CountAttempt(p) ==
    /\ pc[p] = "count"
    /\ attempts' = Counted(request[p].fresh)
    /\ tried' = IF WindowOver THEN 1 ELSE tried + 1
    /\ IF request[p].right /\ role[request[p].name] # "none"
       THEN Goto(p, "rotate") /\ UNCHANGED request
       ELSE Done(p)
    /\ UNCHANGED <<env, schemaVars, tenants, tokens, issued, userVars, ownVars,
                   counters, follows, sessions, logins, cookie, form, posts, unaudited,
                   latest, age>>

\* Mutant: the user's other sessions stay.
OthersKeepTheirs(n) == sessions

OthersOf(n) == {s \in sessions : s.user # n}

\* The transaction of tryLogin: a login ends the user's other sessions.
Rotate(p) ==
    /\ pc[p] = "rotate"
    /\ LET n == request[p].name
           id == logins + 1
       IN  /\ sessions' = OthersOf(n) \cup {[id |-> id, user |-> n, left |-> SessionTtl]}
           /\ logins' = id
           /\ cookie' = [cookie EXCEPT ![request[p].browser] = id]
           /\ latest' = [latest EXCEPT ![n] = id]
           /\ age' = [age EXCEPT ![n] = 0]
    /\ Done(p)
    /\ UNCHANGED <<env, schemaVars, tenants, tokens, issued, userVars, ownVars,
                   counters, follows, attempts, form, posts, unaudited, tried>>

-----------------------------------------------------------------------------
(* Pages and forms                                                         *)

\* getSession: at most one row, and not an expired one.
SessionOf(c) == {s \in sessions : s.id = c /\ s.left >= 0}

\* requireSession, and the csrf token of the page that is sent.
GetPage(p, b) ==
    /\ pc[p] = "serving"
    /\ \/ \E s \in SessionOf(cookie[b]) : form' = [form EXCEPT ![b] = s.id]
       \/ /\ open /\ SessionOf(cookie[b]) = {}
          /\ form' = [form EXCEPT ![b] = OpenForm]
    /\ UNCHANGED <<startVars, follows, sessions, attempts, logins, cookie,
                   request, posts, history>>

\* requireAdmin
MayChange(n) == role[n] # "viewer"

\* Any form that changes something is let in by requireSession, requireAdmin
\* and assertCsrf.
AskPost(p, b, k) ==
    /\ pc[p] = "serving"
    /\ \A a \in posts : a.slot # k
    /\ \/ \E s \in SessionOf(cookie[b]) :
             /\ MayChange(s.user)
             /\ form[b] = s.id
             /\ posts' = posts \cup
                   {[slot |-> k, process |-> p, user |-> s.user, session |-> s.id]}
       \/ /\ open /\ SessionOf(cookie[b]) = {}
          /\ form[b] = OpenForm
          /\ posts' = posts \cup
                {[slot |-> k, process |-> p, user |-> Nobody, session |-> 0]}
    /\ UNCHANGED <<startVars, follows, sessions, attempts, logins, cookie, form,
                   request, history>>

\* Its handler makes the last of its changes.  It looks at the session no more.
Change(a) ==
    /\ posts' = posts \ {a}
    /\ UNCHANGED <<startVars, follows, sessions, attempts, logins, cookie, form,
                   request, history>>

Posting ==
    \/ \E p \in Processes, b \in Browsers, k \in 1 .. MaxPosts : AskPost(p, b, k)
    \/ \E a \in posts : Change(a)

\* GET /logout deletes the row and clears the cookie; a page stays on screen.
Logout(p, b) ==
    /\ pc[p] = "serving"
    /\ cookie[b] # 0
    /\ sessions' = {s \in sessions : s.id # cookie[b]}
    /\ cookie' = [cookie EXCEPT ![b] = 0]
    /\ latest' = [n \in Names |-> IF latest[n] = cookie[b] THEN 0 ELSE latest[n]]
    /\ UNCHANGED <<startVars, follows, attempts, logins, form, request, posts,
                   unaudited, tried, age>>

-----------------------------------------------------------------------------

AttemptsAge == attempts.count > 0 /\ attempts.age <= Window

Tick ==
    /\ \A p \in Processes : pc[p] \in {"down", "serving"}
    /\ TokensAge
    /\ sessions' = {[s EXCEPT !.left = IF @ < 0 THEN @ ELSE @ - 1] : s \in sessions}
    /\ attempts' = IF AttemptsAge THEN [attempts EXCEPT !.age = @ + 1] ELSE attempts
    /\ age' = [n \in Names |-> IF latest[n] = 0 \/ age[n] > SessionTtl THEN age[n]
                               ELSE age[n] + 1]
    /\ UNCHANGED <<env, schemaVars, tenants, issued, userVars, pc, ownVars,
                   counters, follows, logins, cookie, form, request, posts, unaudited,
                   tried, latest>>

\* What a process was answering ends with it.
Killed(p) ==
    /\ Kill(p)
    /\ request' = [request EXCEPT ![p] = NoRequest]
    /\ posts' = {a \in posts : a.process # p}
    /\ UNCHANGED <<follows, sessions, attempts, logins, cookie, form, history>>

Answer(p) ==
    \/ CheckToken(p) \/ CreateAdmin(p) \/ AuditSetup(p)
    \/ CountAttempt(p) \/ Rotate(p)

Brings(p) == StartStep(p) /\ UNCHANGED <<webVars, request, history>>

Browsing ==
    \/ \E p \in Processes, b \in Browsers :
          \/ \E n \in Names, right \in BOOLEAN : AskLogin(p, b, n, right)
          \/ GetPage(p, b) \/ Logout(p, b)
    \/ Posting
    \/ \E p \in Processes : Refuse(p)
    \/ \E n \in Names, r \in Role : CreateUser(n, r) \/ SetUserRole(n, r)

Next ==
    \/ \E p \in Processes :
          \/ Brings(p) \/ Killed(p) \/ Answer(p)
          \/ \E n \in Names, t \in 0 .. issued : AskSetup(p, n, t)
    \/ follows = "logins" /\ Browsing
    \/ Tick

Spec == Init /\ [][Next]_vars

\* A process that is down is started again, what it begins it ends, and the
\* clock advances.
AccessFairness ==
    /\ \A p \in Processes : WF_vars(Brings(p)) /\ WF_vars(Answer(p))
    /\ SF_vars(Tick)

-----------------------------------------------------------------------------
(* Properties                                                              *)

\* A process lets one user in through the setup page, ever, however many
\* tokens are good at the time and however often it is started again; so a
\* second one needs two processes at once.  Each is in the audit trail, if
\* the process was not killed before it wrote that.
SetupClosesBehind ==
    /\ \A m, n \in Names : m # n /\ maker[m] = maker[n] => maker[m] = Nobody
    /\ crashes = 0 /\ (\A p \in Processes : pc[p] # "auditSetup") => unaudited = {}

\* A form is let in under its user's last login only, through whichever
\* process, not after a logout, nor later than the session lives, nor for a
\* user who is a viewer by then; and without a session only where the UI is
\* open.  So the changes made under a login that has been replaced or ended are
\* those of the forms under way at that moment.
OnlyTheLastLogin ==
    [][\A a \in posts' \ posts :
          IF a.user = Nobody THEN TRUE \in OpenModes
          ELSE /\ latest[a.user] = a.session
               /\ age[a.user] <= SessionTtl
               /\ role[a.user] # "viewer"]_vars

\* The passwords looked at in a window, with n processes and a limit of m: n
\* times m, for each process may have read the row before the window began and
\* begins it again, and each time one more for each process that has read it
\* before the last was counted, 0 + 1 + .. + (n - 1).
GuessesBounded ==
    LET n == Cardinality(Processes)
    IN  2 * tried <= n * (2 * MaxAttempts + n - 1)

\* An address that has used up its attempts gets others, even if it goes on
\* trying meanwhile.
LockoutEnds == Blocked ~> ~Blocked

\* A process that is started again and again comes up, wherever it or another
\* was killed, unless a migration failed or two starts have overlapped.
ComesUp ==
    \A p \in Processes :
        <>[](raced \/ faults > 0 \/ (pc[p] # "down" /\ ~Starting(p)))
=============================================================================
