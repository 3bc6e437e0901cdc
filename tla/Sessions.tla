------------------------------ MODULE Sessions ------------------------------
(***************************************************************************)
(* Browsers signed in to the shop: the axios instance with its single      *)
(* refresh and its queue (services/api.ts), the AuthProvider that syncs    *)
(* the user on focus and after every refresh (AuthContext.tsx), and the    *)
(* server of Tokens.  A task is an asynchronous function in progress: a    *)
(* request of a page, a submitted form, syncUser, initAuth, logout.        *)
(***************************************************************************)
EXTENDS Tokens

CONSTANTS
    Pages, PageOf,          \* open documents (tabs), and the one a task runs in
    Browsers, BrowserOf,    \* the browser of a page: its tabs share cookies and storage
    Forms,                  \* which form may be submitted for which account
    MaxMoves, MaxFaults     \* bounds on what the users do, and on faults and expiries

Tasks == Calls

ASSUME SessionsAssumption ==
    /\ PageOf \in [Tasks -> Pages] /\ BrowserOf \in [Pages -> Browsers]
    /\ Forms \subseteq {"register", "login", "google", "complete"} \X Accounts
    /\ MaxMoves \in Nat /\ MaxFaults \in Nat

VARIABLES
    jar,        \* the refreshToken cookie
    access,     \* localStorage accessToken: none, or whether the server accepts it
    header,     \* api.defaults' Authorization: the token of the last renewal
    user,       \* whether AuthProvider holds a user
    onLogin,    \* whether the path includes /login
    refreshing, \* isRefreshing
    due,        \* functions an event has called that have no task yet
    task,       \* tasks in progress
    moves,      \* what the users have done, and what has gone wrong
    faults

browserVars == <<jar, access, header, user, onLogin, refreshing, due, task, moves, faults>>
vars == <<authVars, browserVars>>

AtRest == [kind |-> "none", at |-> "rest", carry |-> "none", retry |-> FALSE]

Kinds == {"page", "form", "logout", "sync", "again", "init"}
TaskAt == {"sent", "queued", "renewing", "swapping", "posting", "gone"}
TaskState ==
    [kind : Kinds \cup {"none"}, at : TaskAt \cup {"rest"},
     carry : {"none", "valid", "stale"}, retry : BOOLEAN]

TypeOK ==
    /\ TokensTypeOK
    /\ jar \in [Browsers -> 0..MaxTokens]
    /\ access \in [Browsers -> {"none", "valid", "stale"}]
    /\ header \in [Pages -> {"none", "valid", "stale"}]
    /\ user \in [Pages -> BOOLEAN] /\ onLogin \in [Pages -> BOOLEAN]
    /\ refreshing \in [Pages -> BOOLEAN]
    /\ due \in [Pages -> [sync : Nat, init : Nat]]
    /\ task \in [Tasks -> TaskState]
    /\ moves \in 0..MaxMoves /\ faults \in 0..MaxFaults

NothingDue == [sync |-> 0, init |-> 0]

\* One browser is signed in when an account exists; the others are not.
Init ==
    /\ TokensInit
    /\ \E b \in Browsers, a \in {"valid", "stale"} :
        /\ jar = [x \in Browsers |-> IF x = b THEN issued ELSE NoToken]
        /\ access = [x \in Browsers |-> IF x = b /\ issued = 1 THEN a ELSE "none"]
        /\ user = [p \in Pages |-> access[BrowserOf[p]] # "none"]
        /\ onLogin \in [Pages -> BOOLEAN]
        /\ \A p \in Pages : user[p] => ~onLogin[p]
    /\ header = [p \in Pages |-> "none"]
    /\ refreshing = [p \in Pages |-> FALSE]
    /\ due = [p \in Pages |-> NothingDue]
    /\ task = [t \in Tasks |-> AtRest]
    /\ moves = 0 /\ faults = 0

In(p) == {t \in Tasks : PageOf[t] = p}
Home(t) == BrowserOf[PageOf[t]]
Free(t) == task[t] = AtRest /\ server[t] = Quiet
Calm == UNCHANGED <<moves, faults>>
Move == moves < MaxMoves /\ moves' = moves + 1 /\ UNCHANGED faults
Fault == faults < MaxFaults /\ faults' = faults + 1 /\ UNCHANGED moves

Set(t, record) == task' = [task EXCEPT ![t] = record]

\* The request interceptor reads the token when the request leaves; without one the
\* default header stays.
Bearer(p) == IF access[BrowserOf[p]] = "none" THEN header[p] ELSE access[BrowserOf[p]]
Request(kind, p) == [kind |-> kind, at |-> "sent", carry |-> Bearer(p), retry |-> FALSE]

-----------------------------------------------------------------------------
(* What users do *)

\* A page calls the API.
Send(t) ==
    /\ Free(t) /\ Move
    /\ Set(t, Request("page", PageOf[t]))
    /\ UNCHANGED <<authVars, jar, access, header, user, onLogin, refreshing, due>>

FormsOfLogin == {"login", "google"}
FormsElsewhere == {"register", "google", "complete"}

\* LoginPage, RegisterPage, GoogleRegisterPage: the post goes to an auth endpoint,
\* whose 401 the interceptor hands back.
Submit(t, op, a) ==
    /\ Free(t) /\ Move
    /\ ~user[PageOf[t]]
    /\ op \in (IF onLogin[PageOf[t]] THEN FormsOfLogin ELSE FormsElsewhere)
    /\ Set(t, [AtRest EXCEPT !.kind = "form", !.at = "posting"])
    /\ server' = Called(t, op, a, NoToken)
    /\ UNCHANGED <<role, live, owner, google, issued, spent>>
    /\ UNCHANGED <<jar, access, header, user, onLogin, refreshing, due>>

LogOut(t) ==
    /\ Free(t) /\ Move
    /\ user[PageOf[t]]
    /\ Set(t, [AtRest EXCEPT !.kind = "logout", !.at = "posting"])
    /\ server' = Called(t, "logout", None, jar[Home(t)])
    /\ UNCHANGED <<role, live, owner, google, issued, spent>>
    /\ UNCHANGED <<jar, access, header, user, onLogin, refreshing, due>>

\* The window gets the focus, or the socket reconnects.
Focus(p) ==
    /\ Move /\ user[p]
    /\ due' = [due EXCEPT ![p].sync = @ + 1]
    /\ UNCHANGED <<authVars, jar, access, header, user, onLogin, refreshing, task>>

\* A loaded document starts with no user, no queue and initAuth; what the old one
\* had asked of the server goes on without it.
Loaded(p, token) ==
    /\ user' = [user EXCEPT ![p] = FALSE]
    /\ header' = [header EXCEPT ![p] = "none"]
    /\ refreshing' = [refreshing EXCEPT ![p] = FALSE]
    /\ due' = [due EXCEPT ![p] = [NothingDue EXCEPT !.init = IF token = "none" THEN 0 ELSE 1]]
    /\ task' = [t \in Tasks |->
                   IF t \notin In(p) THEN task[t]
                   ELSE IF server[t].op = "none" THEN AtRest ELSE [AtRest EXCEPT !.at = "gone"]]

Reload(p) ==
    /\ Move
    /\ Loaded(p, access[BrowserOf[p]])
    /\ UNCHANGED <<authVars, jar, access, onLogin>>

\* The router follows a link to the login page, or away from it.
Visit(p) ==
    /\ Move
    /\ onLogin' = [onLogin EXCEPT ![p] = ~@]
    /\ UNCHANGED <<authVars, jar, access, header, user, refreshing, due, task>>

OutOf(token) == IF token = "valid" THEN "stale" ELSE token

\* The access token runs out, and with it what older requests and headers carry.
Expire(b) ==
    /\ Fault
    /\ access[b] = "valid" \/ \E p \in Pages : BrowserOf[p] = b /\ header[p] = "valid"
    /\ access' = [access EXCEPT ![b] = OutOf(@)]
    /\ header' = [p \in Pages |-> IF BrowserOf[p] = b THEN OutOf(header[p]) ELSE header[p]]
    /\ task' = [t \in Tasks |-> IF Home(t) = b /\ task[t].carry = "valid"
                                THEN [task[t] EXCEPT !.carry = "stale"] ELSE task[t]]
    /\ UNCHANGED <<authVars, jar, user, onLogin, refreshing, due>>

-----------------------------------------------------------------------------
(* Asynchronous functions *)

\* syncUser begins with a refresh of its own, past the interceptor.
StartSync(t) ==
    LET p == PageOf[t]  b == Home(t) IN
    /\ Free(t) /\ due[p].sync > 0
    /\ due' = [due EXCEPT ![p].sync = @ - 1]
    /\ Set(t, [AtRest EXCEPT !.kind = "sync", !.at = "swapping"])
    /\ server' = Called(t, "refresh", None, jar[b])
    /\ UNCHANGED <<role, live, owner, google, issued, spent>>
    /\ UNCHANGED <<jar, access, header, user, onLogin, refreshing>>
    /\ Calm

\* initAuth: getMe when there is a token.
StartInit(t) ==
    LET p == PageOf[t] IN
    /\ Free(t) /\ due[p].init > 0
    /\ due' = [due EXCEPT ![p].init = @ - 1]
    /\ Set(t, Request("init", p))
    /\ UNCHANGED <<authVars, jar, access, header, user, onLogin, refreshing>>
    /\ Calm

\* What a task does when its request is rejected: syncUser asks once more.
Rejected(record, token) ==
    IF record.kind = "sync"
    THEN [kind |-> "again", at |-> "sent", carry |-> token, retry |-> FALSE]
    ELSE AtRest

\* initAuth and the second failure of syncUser drop the user, initAuth the token too.
SignsOut(record) == record.kind \in {"again", "init"}

TokenAfter(record, token) == IF record.kind = "init" THEN "none" ELSE token

\* The request is answered: getMe sets the user.
Succeed(t) ==
    LET p == PageOf[t]  b == Home(t) IN
    /\ task[t].at = "sent" /\ task[t].carry = "valid"
    /\ Set(t, AtRest)
    /\ user' = [user EXCEPT ![p] = @ \/ task[t].kind # "page"]
    /\ onLogin' = [onLogin EXCEPT ![p] = @ /\ task[t].kind # "form"]
    /\ UNCHANGED <<authVars, jar, access, header, refreshing, due>>
    /\ Calm

Refused(t) ==
    LET p == PageOf[t]  b == Home(t) IN
    /\ task[t].at = "sent"
    /\ Set(t, Rejected(task[t], Bearer(p)))
    /\ user' = [user EXCEPT ![p] = @ /\ ~SignsOut(task[t])]
    /\ access' = [access EXCEPT ![b] = TokenAfter(task[t], @)]
    /\ UNCHANGED <<authVars, jar, header, onLogin, refreshing, due>>

\* A 401 to a request that was already repeated.
Reject(t) == Refused(t) /\ task[t].retry /\ task[t].carry # "valid" /\ Calm

\* An error of another kind: the network, the server.
Disconnect(t) == Refused(t) /\ Fault

Unauthorized(t) == task[t].at = "sent" /\ ~task[t].retry /\ task[t].carry # "valid"

\* failedQueue.push
Enqueue(t) ==
    /\ Unauthorized(t) /\ refreshing[PageOf[t]]
    /\ Set(t, [task[t] EXCEPT !.at = "queued"])
    /\ UNCHANGED <<authVars, jar, access, header, user, onLogin, refreshing, due>>
    /\ Calm

\* The first 401 takes the flag and posts the refresh.
Renew(t) ==
    LET p == PageOf[t]  b == Home(t) IN
    /\ Unauthorized(t) /\ ~refreshing[p]
    /\ refreshing' = [refreshing EXCEPT ![p] = TRUE]
    /\ Set(t, [task[t] EXCEPT !.at = "renewing", !.retry = TRUE])
    /\ server' = Called(t, "refresh", None, jar[b])
    /\ UNCHANGED <<role, live, owner, google, issued, spent>>
    /\ UNCHANGED <<jar, access, header, user, onLogin, due>>
    /\ Calm

-----------------------------------------------------------------------------
(* Answers of the auth endpoints *)

Granted(t) == server[t].at = "granted"
Failed(t) == server[t].at = "refused"
Hear(t) ==
    /\ server' = [server EXCEPT ![t] = Quiet]
    /\ UNCHANGED <<role, live, owner, google, issued, spent>>
KeepCookie(b, t) == jar' = [jar EXCEPT ![b] = server[t].token]

\* Mutant: the flag stays up until the repeated request is answered.
LeftRaised(p) == TRUE

\* finally { isRefreshing = false }, while the repeated request is under way.
Lowered(p) == FALSE

Repeat(record) == [record EXCEPT !.at = "sent", !.carry = "valid"]

\* Mutant: processQueue is not called.
Nobody(p) == {}

\* failedQueue
Queued(p) == {t \in In(p) : task[t].at = "queued"}

\* 'auth:refreshed', the default header, processQueue(null, token) and the repeated request.
Renewed(t) ==
    LET p == PageOf[t]  b == Home(t) IN
    /\ task[t].at = "renewing" /\ Granted(t) /\ Hear(t)
    /\ KeepCookie(b, t)
    /\ access' = [access EXCEPT ![b] = "valid"]
    /\ header' = [header EXCEPT ![p] = "valid"]
    /\ due' = [due EXCEPT ![p].sync = @ + 1]
    /\ task' = [x \in Tasks |-> IF x = t \/ x \in Queued(p)
                                THEN Repeat(task[x]) ELSE task[x]]
    /\ refreshing' = [refreshing EXCEPT ![p] = Lowered(p)]
    /\ UNCHANGED <<user, onLogin>>
    /\ Calm

\* processQueue(error): the token goes, and outside the login page so does the page.
RenewFailed(t) ==
    LET p == PageOf[t]
        b == Home(t)
        failed == {t} \cup Queued(p)
    IN
    /\ task[t].at = "renewing" /\ Failed(t) /\ Hear(t)
    /\ access' = [access EXCEPT ![b] = "none"]
    /\ IF onLogin[p]
       THEN /\ task' = [x \in Tasks |-> IF x \in failed THEN Rejected(task[x], header[p]) ELSE task[x]]
            /\ user' = [user EXCEPT ![p] = @ /\ \A x \in failed : ~SignsOut(task[x])]
            /\ refreshing' = [refreshing EXCEPT ![p] = Lowered(p)]
            /\ UNCHANGED <<header, due, onLogin>>
       ELSE /\ user' = [user EXCEPT ![p] = FALSE]
            /\ header' = [header EXCEPT ![p] = "none"]
            /\ refreshing' = [refreshing EXCEPT ![p] = FALSE]
            /\ due' = [due EXCEPT ![p] = NothingDue]
            /\ onLogin' = [onLogin EXCEPT ![p] = TRUE]
            /\ task' = [x \in Tasks |->
                           IF x \notin In(p) THEN task[x]
                           ELSE IF x = t \/ server[x].op = "none" THEN AtRest
                           ELSE [AtRest EXCEPT !.at = "gone"]]
    /\ UNCHANGED <<jar>>
    /\ Calm

\* syncUser after its own refresh: getMe, on failure with the token it had.
Swapped(t) ==
    LET p == PageOf[t]  b == Home(t) IN
    /\ task[t].at = "swapping" /\ Answered(t) /\ Hear(t)
    /\ \/ /\ Granted(t) /\ KeepCookie(b, t)
          /\ access' = [access EXCEPT ![b] = "valid"]
          /\ Set(t, [Request("sync", p) EXCEPT !.carry = "valid"])
       \/ /\ Failed(t) /\ Set(t, Request("again", p))
          /\ UNCHANGED <<jar, access>>
    /\ UNCHANGED <<header, user, onLogin, refreshing, due>>
    /\ Calm

\* A form is answered: getMe follows the tokens; a refusal is shown.
Posted(t) ==
    LET p == PageOf[t]  b == Home(t) IN
    /\ task[t].kind = "form" /\ task[t].at = "posting" /\ Answered(t) /\ Hear(t)
    /\ \/ /\ Granted(t) /\ KeepCookie(b, t)
          /\ access' = [access EXCEPT ![b] = "valid"]
          /\ Set(t, [Request("form", p) EXCEPT !.carry = "valid"])
       \/ /\ ~Granted(t) /\ Set(t, AtRest)
          /\ UNCHANGED <<jar, access>>
    /\ UNCHANGED <<header, user, onLogin, refreshing, due>>
    /\ Calm

\* logout: the user goes whatever the answer.  The cookie was set for /auth and
\* clearCookie names no path, so the browser keeps it.
LoggedOut(t) ==
    LET p == PageOf[t]  b == Home(t) IN
    /\ task[t].kind = "logout" /\ task[t].at = "posting" /\ Answered(t) /\ Hear(t)
    /\ access' = [access EXCEPT ![b] = "none"]
    /\ user' = [user EXCEPT ![p] = FALSE]
    /\ onLogin' = [onLogin EXCEPT ![p] = TRUE]
    /\ Set(t, AtRest)
    /\ UNCHANGED <<jar, header, refreshing, due>>
    /\ Calm

\* The answer to a page that is gone.
Unheard(t) ==
    /\ task[t].at = "gone" /\ Answered(t) /\ Hear(t)
    /\ Set(t, AtRest)
    /\ UNCHANGED <<jar, access, header, user, onLogin, refreshing, due>>
    /\ Calm

-----------------------------------------------------------------------------

UserActs ==
    \/ \E t \in Tasks : Send(t) \/ LogOut(t)
    \/ \E t \in Tasks, form \in Forms : Submit(t, form[1], form[2])
    \/ \E p \in Pages : Focus(p) \/ Reload(p) \/ Visit(p)
    \/ \E b \in Browsers : Expire(b)

Start(t) == StartSync(t) \/ StartInit(t)
Settled(t) == Succeed(t) \/ Reject(t) \/ Enqueue(t) \/ Renew(t)
Heard(t) == Renewed(t) \/ RenewFailed(t) \/ Swapped(t) \/ Posted(t) \/ LoggedOut(t) \/ Unheard(t)
ServerStep(t) == Serve(t) /\ UNCHANGED browserVars
\* A task has one thing to do at a time.
Advance(t) == Start(t) \/ Settled(t) \/ Heard(t) \/ ServerStep(t)

Trouble ==
    \/ \E t \in Tasks : Disconnect(t)
    \/ /\ Fault
       /\ (\E t \in Tasks : Break(t)) \/ (\E a \in Accounts : Lapse(a))
       /\ UNCHANGED <<jar, access, header, user, onLogin, refreshing, due, task>>

Next ==
    \/ UserActs \/ Trouble
    \/ \E t \in Tasks : Advance(t)

Spec == Init /\ [][Next]_vars

\* Requests are answered and the event loop runs what is due.
Fairness == \A t \in Tasks : WF_vars(Advance(t))

FairSpec == Spec /\ Fairness

-----------------------------------------------------------------------------
(* Properties *)

\* The flag is up exactly while one request of the page is renewing the token, and
\* only then do others wait in the queue: none is left in it with nobody to wake it,
\* and no two renewals of a page spend its cookie twice.
QueueHasRenewal ==
    \A p \in Pages :
        LET renewing == {t \in In(p) : task[t].at = "renewing"} IN
        /\ Cardinality(renewing) = (IF refreshing[p] THEN 1 ELSE 0)
        /\ Queued(p) # {} => refreshing[p]

\* Every request, form and synchronisation comes to an end, though a page may
\* refresh again for each answer and processes die under way.
TasksEnd == \A t \in Tasks : task[t].at # "rest" ~> task[t].at = "rest"

\* The types of the variables, and what relates the flag to the tasks.
IInv == TypeOK /\ QueueHasRenewal
=============================================================================
