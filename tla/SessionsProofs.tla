--------------------------- MODULE SessionsProofs ---------------------------
(* Theorems about Sessions, for every number of accounts, tabs, browsers,  *)
(* tasks, tokens and faults.                                               *)
EXTENDS Sessions, FiniteSetTheorems, TLAPS

-----------------------------------------------------------------------------
(* The server *)

\* Steps of a call that came with, or has found, an account.
OfAccount == {"look", "count", "create", "pending", "settle", "profile", "revoke"}

CallsInv ==
    /\ server \in [Calls -> CallState]
    /\ \A c \in Calls : server[c].at \in OfAccount => server[c].account \in Accounts

\* A token that is alive, or is not issued yet, was never exchanged.
TokenInv ==
    /\ live \subseteq 1..issued
    /\ \A t \in Token : spent[t] =< 1 /\ (t \in live \/ t > issued => spent[t] = 0)

AdminInv == \A a, b \in Accounts : role[a] = "ADMIN" /\ role[b] = "ADMIN" => a = b

ServerInv == TokensTypeOK /\ CallsInv /\ TokenInv /\ AdminInv

\* The variables of the browsers.
BrowserTypes ==
    /\ jar \in [Browsers -> 0..MaxTokens]
    /\ access \in [Browsers -> {"none", "valid", "stale"}]
    /\ header \in [Pages -> {"none", "valid", "stale"}]
    /\ user \in [Pages -> BOOLEAN] /\ onLogin \in [Pages -> BOOLEAN]
    /\ refreshing \in [Pages -> BOOLEAN]
    /\ due \in [Pages -> [sync : Nat, init : Nat]]
    /\ task \in [Tasks -> TaskState]
    /\ moves \in 0..MaxMoves /\ faults \in 0..MaxFaults

\* The flag is up while a task of the page is renewing the token, one at a time, and
\* only then do others wait.
QueueInv ==
    /\ \A t \in Tasks : task[t].at \in {"renewing", "queued"} => refreshing[PageOf[t]]
    /\ \A p \in Pages :
          refreshing[p] => \E t \in Tasks : PageOf[t] = p /\ task[t].at = "renewing"
    /\ \A t, u \in Tasks :
          task[t].at = "renewing" /\ task[u].at = "renewing" /\ PageOf[t] = PageOf[u] => t = u

SInv == ServerInv /\ BrowserTypes /\ QueueInv

\* A call moves to another of its steps.
LEMMA StepCalls ==
    ASSUME CallsInv, NEW c \in Calls, NEW step \in Steps \cup Answers,
           step \in OfAccount => server[c].account \in Accounts,
           server' = [server EXCEPT ![c].at = step]
    PROVE  CallsInv'
BY DEF CallsInv, CallState

\* A call goes on with a token.
LEMMA StepAndTokenCalls ==
    ASSUME CallsInv, NEW c \in Calls, NEW step \in (Steps \cup Answers) \ OfAccount,
           NEW token \in 0..MaxTokens,
           server' = [server EXCEPT ![c].at = step, ![c].token = token]
    PROVE  CallsInv'
BY DEF CallsInv, CallState

\* A call goes on with an account.
LEMMA StepAndAccountCalls ==
    ASSUME CallsInv, NEW c \in Calls, NEW step \in Steps \cup Answers,
           NEW a \in Accounts \cup {None}, step \in OfAccount => a \in Accounts,
           server' = [server EXCEPT ![c].at = step, ![c].account = a]
    PROVE  CallsInv'
BY DEF CallsInv, CallState

\* A registration goes on, knowing whether it is the first.
LEMMA StepAndFirstCalls ==
    ASSUME CallsInv, NEW c \in Calls, NEW step \in Steps \cup Answers, NEW f \in BOOLEAN,
           step \in OfAccount => server[c].account \in Accounts,
           server' = [server EXCEPT ![c].at = step, ![c].first = f]
    PROVE  CallsInv'
<1>1. ASSUME NEW r \in CallState
      PROVE  LET q == [r EXCEPT !.at = step] IN
             q \in CallState /\ q.account = r.account /\ q.at = step
  BY DEF CallState
<1>2. ASSUME NEW r \in CallState
      PROVE  LET q == [r EXCEPT !.first = f] IN
             q \in CallState /\ q.account = r.account /\ q.at = r.at
  BY DEF CallState
<1> DEFINE q == [[server[c] EXCEPT !.at = step] EXCEPT !.first = f]
<1>3. q \in CallState /\ q.account = server[c].account /\ q.at = step
  BY <1>1, <1>2 DEF CallsInv
<1>4. server' = [server EXCEPT ![c] = q]
  OBVIOUS
<1> HIDE DEF q
<1>5. QED  BY <1>3, <1>4 DEF CallsInv

\* A request reaches the server.
LEMMA CalledCalls ==
    ASSUME CallsInv, NEW c \in Calls, NEW op \in Operations,
           NEW a \in Accounts \cup {None}, NEW token \in 0..MaxTokens,
           op \notin {"refresh", "logout"} => a \in Accounts,
           server' = Called(c, op, a, token)
    PROVE  CallsInv'
<1>1. FirstStep[op] \in Steps /\ (FirstStep[op] \in OfAccount => a \in Accounts)
  BY DEF FirstStep, Operations, Steps, OfAccount
<1> DEFINE r == [Quiet EXCEPT !.op = op, !.at = FirstStep[op], !.account = a, !.token = token]
<1>2. r \in CallState /\ r.at = FirstStep[op] /\ r.account = a
  BY <1>1 DEF Quiet, CallState
<1>3. server' = [server EXCEPT ![c] = r]
  BY DEF Called
<1> HIDE DEF r
<1>4. QED  BY <1>1, <1>2, <1>3 DEF CallsInv

\* The answer is read.
LEMMA QuietCalls ==
    ASSUME CallsInv, NEW c \in Calls, server' = [server EXCEPT ![c] = Quiet]
    PROVE  CallsInv'
<1>1. Quiet \in CallState /\ Quiet.at \notin OfAccount
  BY TokensAssumption DEF Quiet, CallState, Steps, NoToken, OfAccount
<1>2. QED  BY <1>1 DEF CallsInv

\* A token is exchanged.
LEMMA SpendStep ==
    ASSUME TokenInv, live \subseteq Token, spent \in [Token -> Nat], issued \in 0..MaxTokens,
           NEW t \in live, live' = live \ {t}, issued' = issued,
           spent' = [spent EXCEPT ![t] = @ + 1]
    PROVE  TokenInv' /\ live' \subseteq Token /\ spent' \in [Token -> Nat]
<1>1. spent[t] = 0 /\ t \in Token
  BY DEF TokenInv
<1>2. t =< issued
  BY DEF TokenInv
<1>3. spent' \in [Token -> Nat] /\ spent'[t] = 1
  BY <1>1
<1>4. ASSUME NEW u \in Token
      PROVE  spent'[u] =< 1 /\ (u \in live' \/ u > issued' => spent'[u] = 0)
  <2>1. CASE u = t
    BY <1>2, <1>3, <2>1, TokensAssumption DEF Token
  <2>2. CASE u # t
    BY <1>4, <2>2 DEF TokenInv
  <2>3. QED  BY <2>1, <2>2
<1>5. live' \subseteq 1..issued'
  BY DEF TokenInv
<1>6. QED  BY <1>3, <1>4, <1>5 DEF TokenInv

\* A token is issued.
LEMMA IssueStep ==
    ASSUME TokenInv, issued \in 0..MaxTokens, issued + 1 =< MaxTokens, live \subseteq Token,
           issued' = issued + 1, live' = live \cup {issued + 1}, spent' = spent
    PROVE  TokenInv' /\ live' \subseteq Token /\ issued' \in 0..MaxTokens
<1>1. issued \in Nat /\ MaxTokens \in Nat /\ issued + 1 \in Token
  BY TokensAssumption DEF Token
<1>2. ASSUME NEW u \in Token
      PROVE  spent'[u] =< 1 /\ (u \in live' \/ u > issued' => spent'[u] = 0)
  BY <1>1, <1>2 DEF TokenInv, Token
<1>3. live' \subseteq 1..issued'
  BY <1>1 DEF TokenInv
<1>4. QED  BY <1>1, <1>2, <1>3 DEF TokenInv

\* Every statement of the server keeps its invariant.
LEMMA ServeStep ==
    ASSUME ServerInv, NEW c \in Calls, Serve(c)
    PROVE  ServerInv'
<1> USE TokensAssumption DEF ServerInv, TokensTypeOK, Token, TokenInv, AdminInv, Running
<1>0. /\ server[c].account \in Accounts \cup {None} /\ server[c].token \in 0..MaxTokens
      /\ server[c].first \in BOOLEAN /\ server[c].op \in Operations \cup {"none"}
      /\ server[c].at \in OfAccount => server[c].account \in Accounts
      /\ server \in [Calls -> CallState]
  BY DEF CallsInv, CallState
<1>a. CallsInv' => server' \in [Calls -> CallState]
  BY DEF CallsInv
<1>1. CASE Look(c)
  <2>1. PICK s \in {"refused", "count"} : Goto(c, s)
    BY <1>1 DEF Look, Answer
  <2>2. CallsInv'
    BY <1>0, <1>1, <2>1, StepCalls DEF Goto, Steps, Answers, OfAccount, Look
  <2>3. QED  BY <1>1, <1>a, <2>2 DEF Look
<1>2. CASE Count(c)
  <2>1. CallsInv'
    BY <1>0, <1>2, StepAndFirstCalls DEF Count, Steps, OfAccount
  <2>2. QED  BY <1>2, <1>a, <2>1 DEF Count
<1>3. CASE Create(c)
  <2>1. PICK s \in {"refused", "insert", "settle"} : Goto(c, s)
    BY <1>3 DEF Create, Answer
  <2>2. CallsInv'
    BY <1>0, <1>3, <2>1, StepCalls DEF Goto, Steps, Answers, OfAccount, Create
  <2>3. role' \in [Accounts -> {None, "ADMIN", "CUSTOMER"}]
    BY <1>3 DEF Create
  <2>4. AdminInv'
    <3>1. CASE UNCHANGED role
      BY <3>1
    <3>2. CASE role' = [role EXCEPT ![server[c].account] = "CUSTOMER"]
      BY <3>2
    <3>3. CASE /\ role' = [role EXCEPT ![server[c].account] = "ADMIN"]
               /\ \A a \in Accounts : role[a] # "ADMIN"
      BY <3>3
    <3>4. QED  BY <1>3, <3>1, <3>2, <3>3 DEF Create, Serializes
  <2>5. QED  BY <1>3, <1>a, <2>2, <2>3, <2>4 DEF Create
<1>4. CASE Pending(c)
  <2>1. PICK s \in {"refused", "create"} : Goto(c, s)
    BY <1>4 DEF Pending, Answer
  <2>2. CallsInv'
    BY <1>0, <1>4, <2>1, StepCalls DEF Goto, Steps, Answers, OfAccount, Pending
  <2>3. QED  BY <1>4, <1>a, <2>2 DEF Pending
<1>5. CASE Settle(c)
  <2>1. CallsInv'
    BY <1>5, StepCalls DEF Settle, Goto, Steps, OfAccount
  <2>2. QED  BY <1>5, <1>a, <2>1 DEF Settle
<1>6. CASE Profile(c)
  <2>1. PICK s \in {"registration", "revoke"} : Goto(c, s)
    BY <1>6 DEF Profile, Answer
  <2>2. server[c].account \in Accounts
    BY <1>0, <1>6 DEF Profile, OfAccount
  <2>3. CallsInv'
    BY <2>1, <2>2, StepCalls DEF Goto, Steps, Answers
  <2>4. google' \subseteq Accounts
    BY <1>6, <2>2 DEF Profile
  <2>5. QED  BY <1>6, <1>a, <2>3, <2>4 DEF Profile
<1>7. CASE RevokeAll(c)
  <2>1. PICK s \in {"refused", "insert"} : Goto(c, s)
    BY <1>7 DEF RevokeAll, Answer
  <2>2. CallsInv'
    BY <2>1, StepCalls DEF Goto, Steps, Answers, OfAccount
  <2>3. live' \subseteq live
    BY <1>7 DEF RevokeAll
  <2>4. QED  BY <1>7, <1>a, <2>2, <2>3 DEF RevokeAll
<1>8. CASE Find(c)
  <2>1. live' \subseteq live
    BY <1>8 DEF Find
  <2>2. CallsInv'
    <3>1. CASE Answer(c, "refused")
      BY <3>1, StepCalls DEF Answer, Goto, Answers, OfAccount
    <3>2. CASE /\ server[c].token \in live
               /\ server' = [server EXCEPT ![c].at = "delete",
                                           ![c].account = owner[server[c].token]]
      <4>1. /\ owner[server[c].token] \in Accounts \cup {None}
            /\ "delete" \in Steps /\ "delete" \notin OfAccount
        BY <3>2 DEF Steps, OfAccount
      <4>2. QED  BY <3>2, <4>1, StepAndAccountCalls
    <3>3. QED  BY <1>8, <3>1, <3>2 DEF Find
  <2>3. QED  BY <1>8, <1>a, <2>1, <2>2 DEF Find
<1>9. CASE Delete(c)
  <2>1. PICK s \in {"refused", "insert"} : Goto(c, s)
    BY <1>9 DEF Delete, Answer
  <2>2. CallsInv'
    BY <2>1, StepCalls DEF Goto, Steps, Answers, OfAccount
  <2>3. CASE Gone(c)
    BY <1>9, <1>a, <2>2, <2>3 DEF Delete
  <2>4. CASE ~Gone(c)
    <3>1. /\ server[c].token \in live
          /\ live' = live \ {server[c].token}
          /\ spent' = [spent EXCEPT ![server[c].token] = @ + 1]
          /\ UNCHANGED <<role, google, issued, owner>>
      BY <1>9, <2>4 DEF Delete, Gone
    <3>2. TokenInv' /\ live' \subseteq Token /\ spent' \in [Token -> Nat]
      BY <3>1, SpendStep
    <3>3. QED  BY <1>a, <2>2, <3>1, <3>2
  <2>5. QED  BY <2>3, <2>4
<1>10. CASE InsertToken(c)
  <2>1. CASE issued + 1 > MaxTokens
    <3>1. CallsInv'
      BY <1>10, <2>1, StepCalls DEF InsertToken, Answer, Goto, Answers, OfAccount
    <3>2. QED  BY <1>10, <1>a, <2>1, <3>1 DEF InsertToken
  <2>2. CASE issued + 1 =< MaxTokens
    <3>1. /\ issued' = issued + 1 /\ live' = live \cup {issued + 1}
          /\ owner' = [owner EXCEPT ![issued + 1] = server[c].account]
          /\ server' = [server EXCEPT ![c].at = "granted", ![c].token = issued + 1]
          /\ UNCHANGED <<role, google, spent>>
      <4>1. ~(issued + 1 > MaxTokens)
        BY <2>2
      <4>2. QED  BY <1>10, <4>1 DEF InsertToken
    <3>2. CallsInv'
      <4>1. issued + 1 \in 0..MaxTokens /\ "granted" \in (Steps \cup Answers) \ OfAccount
        BY <2>2 DEF Answers, OfAccount
      <4>2. QED  BY <3>1, <4>1, StepAndTokenCalls
    <3>3. TokenInv' /\ live' \subseteq Token /\ issued' \in 0..MaxTokens
      BY <2>2, <3>1, IssueStep
    <3>4. owner' \in [Token -> Accounts \cup {None}]
      BY <1>0, <3>1
    <3>5. QED  BY <1>a, <2>2, <3>1, <3>2, <3>3, <3>4
  <2>3. issued + 1 > MaxTokens \/ issued + 1 =< MaxTokens
    OBVIOUS
  <2>4. QED  BY <2>1, <2>2, <2>3
<1>11. CASE Forget(c)
  <2>1. CallsInv'
    BY <1>11, StepCalls DEF Forget, Answer, Goto, Answers, OfAccount
  <2>2. QED  BY <1>11, <1>a, <2>1 DEF Forget
<1>12. QED
  BY <1>1, <1>2, <1>3, <1>4, <1>5, <1>6, <1>7, <1>8, <1>9, <1>10, <1>11 DEF Serve

\* So do a lost answer, a Redis key that runs out, and every step of a browser.
LEMMA TablesKeep ==
    ASSUME ServerInv, CallsInv', UNCHANGED <<role, live, owner, issued, spent>>,
           google' \subseteq google
    PROVE  ServerInv'
BY DEF ServerInv, TokensTypeOK, TokenInv, AdminInv, Token, CallsInv

\* What a step of the system does to the server: nothing, a statement, a broken or a
\* new call, an answer read, or a key that runs out.
LEMMA ServerOf ==
    ASSUME [Next]_vars, BrowserTypes
    PROVE  \/ UNCHANGED authVars
           \/ \E c \in Calls : Serve(c) \/ Break(c)
           \/ \E c \in Calls, op \in Operations, a \in Accounts \cup {None}, token \in 0..MaxTokens :
                 /\ op \notin {"refresh", "logout"} => a \in Accounts
                 /\ server' = Called(c, op, a, token)
                 /\ UNCHANGED <<role, live, owner, google, issued, spent>>
           \/ \E c \in Calls : Hear(c)
           \/ \E a \in Accounts : Lapse(a)
<1> USE DEF Tasks
<1>0. \A t \in Tasks : Home(t) \in Browsers /\ jar[Home(t)] \in 0..MaxTokens
  BY SessionsAssumption DEF Home, BrowserTypes
<1>1. CASE UNCHANGED vars
  BY <1>1 DEF vars
<1>2. ASSUME NEW t \in Tasks, NEW form \in Forms, Submit(t, form[1], form[2])
      PROVE  \E c \in Calls, op \in Operations, a \in Accounts \cup {None}, token \in 0..MaxTokens :
                 /\ op \notin {"refresh", "logout"} => a \in Accounts
                 /\ server' = Called(c, op, a, token)
                 /\ UNCHANGED <<role, live, owner, google, issued, spent>>
  <2>1. form[1] \in Operations /\ form[2] \in Accounts /\ NoToken \in 0..MaxTokens
    BY SessionsAssumption, TokensAssumption DEF Operations, NoToken
  <2>2. server' = Called(t, form[1], form[2], NoToken) /\ UNCHANGED <<role, live, owner, google, issued, spent>>
    BY <1>2 DEF Submit
  <2>3. QED  BY <2>1, <2>2
<1>3. ASSUME NEW t \in Tasks, LogOut(t) \/ StartSync(t) \/ Renew(t)
      PROVE  \E c \in Calls, op \in Operations, a \in Accounts \cup {None}, token \in 0..MaxTokens :
                 /\ op \notin {"refresh", "logout"} => a \in Accounts
                 /\ server' = Called(c, op, a, token)
                 /\ UNCHANGED <<role, live, owner, google, issued, spent>>
  <2>1. PICK op \in {"refresh", "logout"} :
           /\ server' = Called(t, op, None, jar[Home(t)])
           /\ UNCHANGED <<role, live, owner, google, issued, spent>>
    BY <1>3 DEF LogOut, StartSync, Renew
  <2>2. QED  BY <1>0, <2>1 DEF Operations
<1>4. ASSUME NEW t \in Tasks, Send(t) \/ StartInit(t) \/ Succeed(t) \/ Reject(t) \/ Enqueue(t) \/ Disconnect(t)
      PROVE  UNCHANGED authVars
  BY <1>4 DEF Send, StartInit, Succeed, Reject, Enqueue, Disconnect, Refused
<1>5. ASSUME NEW p \in Pages, Focus(p) \/ Reload(p) \/ Visit(p)
      PROVE  UNCHANGED authVars
  BY <1>5 DEF Focus, Reload, Visit
<1>6. ASSUME NEW b \in Browsers, Expire(b)
      PROVE  UNCHANGED authVars
  BY <1>6 DEF Expire
<1>7. ASSUME NEW t \in Tasks, Heard(t)
      PROVE  Hear(t)
  BY <1>7 DEF Heard, Renewed, RenewFailed, Swapped, Posted, LoggedOut, Unheard
<1>8. ASSUME NEW t \in Tasks, Advance(t)
      PROVE  \/ UNCHANGED authVars \/ Serve(t) \/ Hear(t)
             \/ StartSync(t) \/ Renew(t)
  BY <1>4, <1>7, <1>8 DEF Advance, Start, Settled, ServerStep
<1>9. CASE UserActs
  BY <1>2, <1>3, <1>4, <1>5, <1>6, <1>9 DEF UserActs
<1>10. CASE Trouble
  BY <1>4, <1>10 DEF Trouble
<1>11. CASE \E t \in Tasks : Advance(t)
  BY <1>3, <1>8, <1>11
<1>12. QED  BY <1>1, <1>9, <1>10, <1>11 DEF Next

\* Every step of server and browsers preserves the server's invariant.
LEMMA ServerInvStep ==
    ASSUME ServerInv, BrowserTypes, [Next]_vars
    PROVE  ServerInv'
<1>1. CASE UNCHANGED authVars
  BY <1>1 DEF authVars, ServerInv, TokensTypeOK, CallsInv, TokenInv, AdminInv
<1>2. ASSUME NEW c \in Calls, Serve(c) PROVE ServerInv'
  BY <1>2, ServeStep
<1>3. ASSUME NEW c \in Calls, Break(c) PROVE ServerInv'
  <2>1. CallsInv'
    BY <1>3, StepCalls DEF Break, Answer, Goto, Answers, OfAccount, ServerInv
  <2>2. QED  BY <1>3, <2>1, TablesKeep DEF Break
<1>4. ASSUME NEW c \in Calls, NEW op \in Operations, NEW a \in Accounts \cup {None},
             NEW token \in 0..MaxTokens, op \notin {"refresh", "logout"} => a \in Accounts,
             server' = Called(c, op, a, token),
             UNCHANGED <<role, live, owner, google, issued, spent>>
      PROVE  ServerInv'
  <2>1. CallsInv'
    BY <1>4, CalledCalls DEF ServerInv
  <2>2. QED  BY <1>4, <2>1, TablesKeep
<1>5. ASSUME NEW c \in Calls, Hear(c) PROVE ServerInv'
  <2>1. CallsInv'
    BY <1>5, QuietCalls DEF ServerInv, Hear
  <2>2. QED  BY <1>5, <2>1, TablesKeep DEF Hear
<1>6. ASSUME NEW a \in Accounts, Lapse(a) PROVE ServerInv'
  <2>1. CallsInv'
    BY <1>6 DEF ServerInv, CallsInv, Lapse
  <2>2. QED  BY <1>6, <2>1, TablesKeep DEF Lapse
<1>7. QED  BY <1>1, <1>2, <1>3, <1>4, <1>5, <1>6, ServerOf


-----------------------------------------------------------------------------
(* The browsers *)

\* The states a task goes to.
LEMMA TaskRecords ==
    ASSUME BrowserTypes
    PROVE  /\ AtRest \in TaskState /\ AtRest.at = "rest"
           /\ LET g == [AtRest EXCEPT !.at = "gone"] IN g \in TaskState /\ g.at = "gone"
           /\ \A kind \in Kinds, at \in {"posting", "swapping"} :
                 LET r == [AtRest EXCEPT !.kind = kind, !.at = at] IN r \in TaskState /\ r.at = at
           /\ \A p \in Pages : Bearer(p) \in {"none", "valid", "stale"}
           /\ \A kind \in Kinds, p \in Pages :
                 /\ Request(kind, p) \in TaskState /\ Request(kind, p).at = "sent"
                 /\ LET r == [Request(kind, p) EXCEPT !.carry = "valid"] IN
                    r \in TaskState /\ r.at = "sent"
<1> USE DEF TaskState, TaskAt, AtRest
<1>1. /\ AtRest \in TaskState /\ AtRest.at = "rest"
      /\ LET g == [AtRest EXCEPT !.at = "gone"] IN g \in TaskState /\ g.at = "gone"
  OBVIOUS
<1>2. ASSUME NEW kind \in Kinds, NEW at \in {"posting", "swapping"}
      PROVE  LET r == [AtRest EXCEPT !.kind = kind, !.at = at] IN r \in TaskState /\ r.at = at
  OBVIOUS
<1>3. ASSUME NEW p \in Pages PROVE Bearer(p) \in {"none", "valid", "stale"}
  BY SessionsAssumption DEF Bearer, BrowserTypes
<1>4. ASSUME NEW kind \in Kinds, NEW p \in Pages
      PROVE  /\ Request(kind, p) \in TaskState /\ Request(kind, p).at = "sent"
             /\ LET r == [Request(kind, p) EXCEPT !.carry = "valid"] IN
                r \in TaskState /\ r.at = "sent"
  BY <1>3 DEF Request
<1>5. QED  BY <1>1, <1>2, <1>3, <1>4

\* The states a task goes to from the one it is in.
LEMMA TaskMoves ==
    ASSUME NEW r \in TaskState
    PROVE  /\ \A token \in {"none", "valid", "stale"} :
                 Rejected(r, token) \in TaskState /\ Rejected(r, token).at \in {"sent", "rest"}
           /\ Repeat(r) \in TaskState /\ Repeat(r).at = "sent"
           /\ LET q == [r EXCEPT !.at = "queued"] IN q \in TaskState /\ q.at = "queued"
           /\ LET n == [r EXCEPT !.at = "renewing", !.retry = TRUE] IN
              n \in TaskState /\ n.at = "renewing"
           /\ LET s == [r EXCEPT !.carry = "stale"] IN s \in TaskState /\ s.at = r.at
<1> USE DEF TaskState, TaskAt
<1>1. ASSUME NEW token \in {"none", "valid", "stale"}
      PROVE  Rejected(r, token) \in TaskState /\ Rejected(r, token).at \in {"sent", "rest"}
  BY DEF Rejected, AtRest, Kinds
<1>2. Repeat(r) \in TaskState /\ Repeat(r).at = "sent"
  BY DEF Repeat
<1>3. LET q == [r EXCEPT !.at = "queued"] IN q \in TaskState /\ q.at = "queued"
  OBVIOUS
<1>4. LET n == [r EXCEPT !.at = "renewing", !.retry = TRUE] IN n \in TaskState /\ n.at = "renewing"
  OBVIOUS
<1>5. LET s == [r EXCEPT !.carry = "stale"] IN s \in TaskState /\ s.at = r.at
  OBVIOUS
<1>6. QED  BY <1>1, <1>2, <1>3, <1>4, <1>5


\* A task that was not renewing, and neither renews nor waits afterwards.
LEMMA TaskStep ==
    ASSUME BrowserTypes, QueueInv, NEW t \in Tasks, NEW r \in TaskState,
           r.at \notin {"renewing", "queued"}, task[t].at # "renewing",
           task' = [task EXCEPT ![t] = r], refreshing' = refreshing
    PROVE  QueueInv' /\ task' \in [Tasks -> TaskState]
<1>1. task' \in [Tasks -> TaskState]
  BY DEF BrowserTypes
<1>2. \A x \in Tasks : /\ task'[x].at = "renewing" <=> task[x].at = "renewing"
                       /\ task'[x].at = "queued" => task[x].at = "queued"
  BY DEF BrowserTypes
<1>3. QED  BY <1>1, <1>2 DEF QueueInv

\* A page whose tasks neither renew nor wait afterwards, and whose flag goes down.
LEMMA PageStep ==
    ASSUME QueueInv, NEW p \in Pages, refreshing \in [Pages -> BOOLEAN],
           refreshing' = [refreshing EXCEPT ![p] = FALSE],
           \A x \in Tasks : IF PageOf[x] = p THEN task'[x].at \notin {"renewing", "queued"}
                                             ELSE task'[x] = task[x]
    PROVE  QueueInv'
<1> USE SessionsAssumption
<1>1. ASSUME NEW x \in Tasks, task'[x].at \in {"renewing", "queued"}
      PROVE  PageOf[x] # p /\ task'[x] = task[x]
  BY <1>1
<1>2. \A x \in Tasks : task'[x].at \in {"renewing", "queued"} => refreshing'[PageOf[x]]
  BY <1>1 DEF QueueInv
<1>3. ASSUME NEW q \in Pages, refreshing'[q]
      PROVE  \E x \in Tasks : PageOf[x] = q /\ task'[x].at = "renewing"
  <2>1. q # p /\ refreshing[q]
    BY <1>3
  <2>2. PICK x \in Tasks : PageOf[x] = q /\ task[x].at = "renewing"
    BY <2>1 DEF QueueInv
  <2>3. QED  BY <2>1, <2>2
<1>4. \A x, y \in Tasks : task'[x].at = "renewing" /\ task'[y].at = "renewing"
                          /\ PageOf[x] = PageOf[y] => x = y
  BY <1>1 DEF QueueInv
<1>5. QED  BY <1>2, <1>3, <1>4 DEF QueueInv

\* What the users do.
LEMMA UserStep ==
    ASSUME SInv, UserActs
    PROVE  BrowserTypes' /\ QueueInv'
<1> USE DEF SInv
<1>0. \A t \in Tasks : PageOf[t] \in Pages /\ Home(t) \in Browsers /\ Home(t) = BrowserOf[PageOf[t]]
  BY SessionsAssumption DEF Home
<1>1. ASSUME NEW t \in Tasks, Send(t) \/ LogOut(t) \/ (\E form \in Forms : Submit(t, form[1], form[2]))
      PROVE  BrowserTypes' /\ QueueInv'
  <2>1. task[t].at = "rest"
    BY <1>1 DEF Send, LogOut, Submit, Free, AtRest
  <2>2. PICK r \in TaskState : r.at \in {"sent", "posting"} /\ task' = [task EXCEPT ![t] = r]
    <3>1. CASE Send(t)
      <4>1. task' = [task EXCEPT ![t] = Request("page", PageOf[t])] /\ "page" \in Kinds
        BY <3>1 DEF Send, Set, Kinds
      <4>2. QED  BY <1>0, <4>1, TaskRecords
    <3>2. CASE ~Send(t)
      <4>1. PICK kind \in {"logout", "form"} :
               task' = [task EXCEPT ![t] = [AtRest EXCEPT !.kind = kind, !.at = "posting"]]
        BY <1>1, <3>2 DEF LogOut, Submit, Set
      <4>2. kind \in Kinds
        BY DEF Kinds
      <4>3. QED  BY <4>1, <4>2, TaskRecords
    <3>3. QED  BY <3>1, <3>2
  <2>3. /\ UNCHANGED <<jar, access, header, user, onLogin, refreshing, due>>
        /\ moves < MaxMoves /\ moves' = moves + 1 /\ UNCHANGED faults
    BY <1>1 DEF Send, LogOut, Submit, Move
  <2>4. QueueInv' /\ task' \in [Tasks -> TaskState]
    BY <2>1, <2>2, <2>3, TaskStep
  <2>5. QED  BY <2>3, <2>4, SessionsAssumption DEF BrowserTypes
<1>2. ASSUME NEW p \in Pages, Focus(p)
      PROVE  BrowserTypes' /\ QueueInv'
  <2>1. due' \in [Pages -> [sync : Nat, init : Nat]]
    BY <1>2 DEF Focus, BrowserTypes
  <2>2. QED  BY <1>2, <2>1, SessionsAssumption DEF Focus, BrowserTypes, QueueInv, Move
<1>3. ASSUME NEW p \in Pages, Visit(p)
      PROVE  BrowserTypes' /\ QueueInv'
  <2>1. onLogin' \in [Pages -> BOOLEAN]
    BY <1>3 DEF Visit, BrowserTypes
  <2>2. QED  BY <1>3, <2>1, SessionsAssumption DEF Visit, BrowserTypes, QueueInv, Move
<1>4. ASSUME NEW p \in Pages, Reload(p)
      PROVE  BrowserTypes' /\ QueueInv'
  <2>1. PICK token : Loaded(p, token) /\ UNCHANGED <<jar, access, onLogin>> /\ Move
    BY <1>4 DEF Reload
  <2>2. QueueInv' /\ task' \in [Tasks -> TaskState] /\ refreshing' \in [Pages -> BOOLEAN]
    <3>1. \A x \in Tasks : IF PageOf[x] = p
             THEN task'[x] \in TaskState /\ task'[x].at \in {"rest", "gone"}
             ELSE task'[x] = task[x]
      BY <2>1, TaskRecords DEF Loaded, In
    <3>2. refreshing' = [refreshing EXCEPT ![p] = FALSE]
      BY <2>1 DEF Loaded
    <3>3. task' \in [Tasks -> TaskState]
      BY <2>1, <3>1 DEF Loaded, BrowserTypes
    <3>4. QED  BY <3>1, <3>2, <3>3, PageStep DEF BrowserTypes
  <2>3. user' \in [Pages -> BOOLEAN] /\ header' \in [Pages -> {"none", "valid", "stale"}]
    BY <2>1 DEF Loaded, BrowserTypes
  <2>4. due' \in [Pages -> [sync : Nat, init : Nat]]
    BY <2>1 DEF Loaded, BrowserTypes, NothingDue
  <2>5. moves' \in 0..MaxMoves /\ faults' = faults
    BY <2>1, SessionsAssumption DEF Move, BrowserTypes
  <2>6. QED  BY <2>1, <2>2, <2>3, <2>4, <2>5 DEF BrowserTypes
<1>5. ASSUME NEW b \in Browsers, Expire(b)
      PROVE  BrowserTypes' /\ QueueInv'
  <2>1. \A x \in Tasks : task'[x] \in TaskState /\ task'[x].at = task[x].at
    BY <1>5, TaskMoves DEF Expire, BrowserTypes
  <2>2. task' \in [Tasks -> TaskState]
    BY <1>5, <2>1 DEF Expire
  <2>3. access' \in [Browsers -> {"none", "valid", "stale"}] /\ faults' \in 0..MaxFaults
    BY <1>5, SessionsAssumption DEF Expire, OutOf, Fault, BrowserTypes
  <2>4. UNCHANGED <<jar, user, onLogin, refreshing, due, moves>>
    BY <1>5 DEF Expire, Fault
  <2>5. header' \in [Pages -> {"none", "valid", "stale"}]
    BY <1>5 DEF Expire, OutOf, BrowserTypes
  <2>6. QueueInv'
    BY <2>1, <2>4 DEF QueueInv
  <2>7. QED  BY <2>2, <2>3, <2>4, <2>5, <2>6 DEF BrowserTypes
<1>6. QED  BY <1>1, <1>2, <1>3, <1>4, <1>5 DEF UserActs


\* A task belongs to a page, a page to a browser.
LEMMA PagesOfTasks ==
    ASSUME NEW t \in Tasks
    PROVE  PageOf[t] \in Pages /\ Home(t) \in Browsers /\ Home(t) = BrowserOf[PageOf[t]]
BY SessionsAssumption DEF Home

\* Functions that begin, and requests that are answered or refused.
LEMMA RequestStep ==
    ASSUME SInv, NEW t \in Tasks,
           \/ Start(t) \/ Succeed(t)
           \/ Refused(t) /\ (Calm \/ Fault)
    PROVE  BrowserTypes' /\ QueueInv'
<1> USE PagesOfTasks DEF SInv
<1>1. CASE StartSync(t)
  <2>1. /\ task[t].at = "rest" /\ due[PageOf[t]].sync > 0
        /\ due' = [due EXCEPT ![PageOf[t]].sync = @ - 1]
        /\ task' = [task EXCEPT ![t] = [AtRest EXCEPT !.kind = "sync", !.at = "swapping"]]
        /\ UNCHANGED <<jar, access, header, user, onLogin, refreshing, moves, faults>>
    BY <1>1 DEF StartSync, Free, AtRest, Set, Calm
  <2>2. PICK r \in TaskState : r.at = "swapping" /\ task' = [task EXCEPT ![t] = r]
    BY <2>1, TaskRecords DEF Kinds
  <2>3. QueueInv' /\ task' \in [Tasks -> TaskState]
    BY <2>1, <2>2, TaskStep
  <2>4. due' \in [Pages -> [sync : Nat, init : Nat]]
    BY <2>1 DEF BrowserTypes
  <2>5. QED  BY <2>1, <2>3, <2>4 DEF BrowserTypes
<1>2. CASE StartInit(t)
  <2>1. /\ task[t].at = "rest" /\ due[PageOf[t]].init > 0
        /\ due' = [due EXCEPT ![PageOf[t]].init = @ - 1]
        /\ task' = [task EXCEPT ![t] = Request("init", PageOf[t])]
        /\ UNCHANGED <<jar, access, header, user, onLogin, refreshing, moves, faults>>
    BY <1>2 DEF StartInit, Free, AtRest, Set, Calm
  <2>2. PICK r \in TaskState : r.at = "sent" /\ task' = [task EXCEPT ![t] = r]
    BY <2>1, TaskRecords DEF Kinds
  <2>3. QueueInv' /\ task' \in [Tasks -> TaskState]
    BY <2>1, <2>2, TaskStep
  <2>4. due' \in [Pages -> [sync : Nat, init : Nat]]
    BY <2>1 DEF BrowserTypes
  <2>5. QED  BY <2>1, <2>3, <2>4 DEF BrowserTypes
<1>3. CASE Succeed(t)
  <2>1. /\ task[t].at = "sent" /\ task' = [task EXCEPT ![t] = AtRest]
        /\ UNCHANGED <<jar, access, header, refreshing, due, moves, faults>>
    BY <1>3 DEF Succeed, Set, Calm
  <2>2. QueueInv' /\ task' \in [Tasks -> TaskState]
    BY <2>1, TaskRecords, TaskStep
  <2>3. user' \in [Pages -> BOOLEAN]
    BY <1>3 DEF Succeed, BrowserTypes
  <2>4. onLogin' \in [Pages -> BOOLEAN]
    BY <1>3 DEF Succeed, BrowserTypes
  <2>5. QED  BY <2>1, <2>2, <2>3, <2>4 DEF BrowserTypes
<1>4. CASE Refused(t) /\ (Calm \/ Fault)
  <2>1. /\ task[t].at = "sent"
        /\ task' = [task EXCEPT ![t] = Rejected(task[t], Bearer(PageOf[t]))]
        /\ UNCHANGED <<jar, header, onLogin, refreshing, due>>
    BY <1>4 DEF Refused, Set
  <2>2. PICK r \in TaskState : r.at \in {"sent", "rest"} /\ task' = [task EXCEPT ![t] = r]
    <3>1. task[t] \in TaskState /\ Bearer(PageOf[t]) \in {"none", "valid", "stale"}
      BY TaskRecords DEF BrowserTypes
    <3>2. LET r == Rejected(task[t], Bearer(PageOf[t])) IN r \in TaskState /\ r.at \in {"sent", "rest"}
      BY <3>1, TaskMoves
    <3>3. QED  BY <2>1, <3>2
  <2>3. QueueInv' /\ task' \in [Tasks -> TaskState]
    BY <2>1, <2>2, TaskStep
  <2>4. user' \in [Pages -> BOOLEAN]
    BY <1>4 DEF Refused, BrowserTypes
  <2>5. access' \in [Browsers -> {"none", "valid", "stale"}]
    BY <1>4 DEF Refused, TokenAfter, BrowserTypes
  <2>6. moves' \in 0..MaxMoves /\ faults' \in 0..MaxFaults
    BY <1>4, SessionsAssumption DEF Calm, Fault, BrowserTypes
  <2>7. QED  BY <2>1, <2>3, <2>4, <2>5, <2>6 DEF BrowserTypes
<1>5. QED  BY <1>1, <1>2, <1>3, <1>4 DEF Start

\* A request joins the queue, or takes the flag.
LEMMA RenewalStep ==
    ASSUME SInv, NEW t \in Tasks, Enqueue(t) \/ Renew(t)
    PROVE  BrowserTypes' /\ QueueInv'
<1> USE PagesOfTasks DEF SInv
<1>1. CASE Enqueue(t)
  <2>1. /\ task[t].at = "sent" /\ refreshing[PageOf[t]]
        /\ task' = [task EXCEPT ![t] = [task[t] EXCEPT !.at = "queued"]]
        /\ UNCHANGED <<jar, access, header, user, onLogin, refreshing, due, moves, faults>>
    BY <1>1 DEF Enqueue, Unauthorized, Set, Calm
  <2>2. PICK r \in TaskState : r.at = "queued" /\ task' = [task EXCEPT ![t] = r]
    <3>1. task[t] \in TaskState
      BY DEF BrowserTypes
    <3>2. LET r == [task[t] EXCEPT !.at = "queued"] IN r \in TaskState /\ r.at = "queued"
      BY <3>1, TaskMoves
    <3>3. QED  BY <2>1, <3>2
  <2>3. task' \in [Tasks -> TaskState] /\ task'[t].at = "queued"
        /\ \A x \in Tasks : x # t => task'[x] = task[x]
    BY <2>2 DEF BrowserTypes
  <2>4. QueueInv'
    BY <2>1, <2>3 DEF QueueInv
  <2>5. QED  BY <2>1, <2>3, <2>4 DEF BrowserTypes
<1>2. CASE Renew(t)
  <2>1. /\ task[t].at = "sent" /\ ~refreshing[PageOf[t]]
        /\ task' = [task EXCEPT ![t] = [task[t] EXCEPT !.at = "renewing", !.retry = TRUE]]
        /\ refreshing' = [refreshing EXCEPT ![PageOf[t]] = TRUE]
        /\ UNCHANGED <<jar, access, header, user, onLogin, due, moves, faults>>
    BY <1>2 DEF Renew, Unauthorized, Set, Calm
  <2>2. PICK r \in TaskState : r.at = "renewing" /\ task' = [task EXCEPT ![t] = r]
    <3>1. task[t] \in TaskState
      BY DEF BrowserTypes
    <3>2. LET r == [task[t] EXCEPT !.at = "renewing", !.retry = TRUE] IN r \in TaskState /\ r.at = "renewing"
      BY <3>1, TaskMoves
    <3>3. QED  BY <2>1, <3>2
  <2>3. task' \in [Tasks -> TaskState] /\ task'[t].at = "renewing"
        /\ \A x \in Tasks : x # t => task'[x] = task[x]
    BY <2>2 DEF BrowserTypes
  <2>4. /\ refreshing' \in [Pages -> BOOLEAN] /\ refreshing'[PageOf[t]]
        /\ \A p \in Pages : p # PageOf[t] => refreshing'[p] = refreshing[p]
    BY <2>1 DEF BrowserTypes
  <2>5. \A x \in Tasks : task'[x].at \in {"renewing", "queued"} => refreshing'[PageOf[x]]
    BY <2>3, <2>4 DEF QueueInv
  <2>6. ASSUME NEW p \in Pages, refreshing'[p]
        PROVE  \E x \in Tasks : PageOf[x] = p /\ task'[x].at = "renewing"
    <3>1. CASE p = PageOf[t]
      BY <2>3, <3>1
    <3>2. CASE p # PageOf[t]
      <4>1. PICK x \in Tasks : PageOf[x] = p /\ task[x].at = "renewing"
        BY <2>4, <2>6, <3>2 DEF QueueInv
      <4>2. QED  BY <2>3, <3>2, <4>1
    <3>3. QED  BY <3>1, <3>2
  <2>7. ASSUME NEW x \in Tasks, NEW y \in Tasks, PageOf[x] = PageOf[y],
               task'[x].at = "renewing", task'[y].at = "renewing"
        PROVE  x = y
    <3>1. \A z \in Tasks : PageOf[z] = PageOf[t] => task[z].at # "renewing"
      BY <2>1 DEF QueueInv
    <3>2. QED  BY <2>3, <2>7, <3>1 DEF QueueInv
  <2>8. QueueInv'
    BY <2>5, <2>6, <2>7 DEF QueueInv
  <2>9. QED  BY <2>1, <2>3, <2>4, <2>8 DEF BrowserTypes
<1>3. QED  BY <1>1, <1>2

\* The answer to a renewal wakes the page's queue and takes the flag down.
LEMMA RenewedStep ==
    ASSUME SInv, NEW t \in Tasks, Renewed(t) \/ RenewFailed(t)
    PROVE  BrowserTypes' /\ QueueInv'
<1> USE PagesOfTasks DEF SInv
<1> DEFINE p == PageOf[t]
<1>1. task[t].at = "renewing" /\ p \in Pages
  BY DEF Renewed, RenewFailed
<1>2. \A x \in Tasks : PageOf[x] = p /\ x # t => task[x].at # "renewing"
  BY <1>1 DEF QueueInv
<1>3. \A x \in Tasks : x \in Queued(p) <=> PageOf[x] = p /\ task[x].at = "queued"
  BY DEF Queued, In
<1>4. CASE Renewed(t)
  <2>1. /\ jar' = [jar EXCEPT ![Home(t)] = server[t].token]
        /\ access' = [access EXCEPT ![Home(t)] = "valid"]
        /\ header' = [header EXCEPT ![p] = "valid"]
        /\ due' = [due EXCEPT ![p].sync = @ + 1]
        /\ task' = [x \in Tasks |-> IF x = t \/ x \in Queued(p) THEN Repeat(task[x]) ELSE task[x]]
        /\ refreshing' = [refreshing EXCEPT ![p] = FALSE]
        /\ UNCHANGED <<user, onLogin, moves, faults>>
    BY <1>4 DEF Renewed, KeepCookie, Calm, Lowered
  <2>2. \A x \in Tasks : Repeat(task[x]) \in TaskState /\ Repeat(task[x]).at = "sent"
    BY TaskMoves DEF BrowserTypes
  <2>3. task' \in [Tasks -> TaskState]
    BY <2>1, <2>2 DEF BrowserTypes
  <2>4. \A x \in Tasks : IF PageOf[x] = p THEN task'[x].at \notin {"renewing", "queued"}
                                          ELSE task'[x] = task[x]
    BY <1>2, <1>3, <2>1, <2>2
  <2>5. QueueInv' /\ refreshing' \in [Pages -> BOOLEAN]
    BY <1>1, <2>1, <2>4, PageStep DEF BrowserTypes
  <2>6. jar' \in [Browsers -> 0..MaxTokens]
    BY <2>1 DEF BrowserTypes, ServerInv, CallsInv, CallState, Tasks
  <2>7. due' \in [Pages -> [sync : Nat, init : Nat]]
    BY <2>1 DEF BrowserTypes
  <2>8. access' \in [Browsers -> {"none", "valid", "stale"}] /\ header' \in [Pages -> {"none", "valid", "stale"}]
    BY <2>1 DEF BrowserTypes
  <2>9. QED  BY <2>1, <2>3, <2>5, <2>6, <2>7, <2>8 DEF BrowserTypes
<1>5. CASE RenewFailed(t) /\ onLogin[p]
  <2>1. /\ access' = [access EXCEPT ![Home(t)] = "none"]
        /\ task' = [x \in Tasks |-> IF x \in {t} \cup Queued(p) THEN Rejected(task[x], header[p]) ELSE task[x]]
        /\ user' = [user EXCEPT ![p] = @ /\ \A x \in {t} \cup Queued(p) : ~SignsOut(task[x])]
        /\ refreshing' = [refreshing EXCEPT ![p] = FALSE]
        /\ UNCHANGED <<jar, header, due, onLogin, moves, faults>>
    BY <1>5 DEF RenewFailed, Calm, Lowered
  <2>2. ASSUME NEW x \in Tasks
        PROVE  /\ Rejected(task[x], header[p]) \in TaskState
               /\ Rejected(task[x], header[p]).at \in {"sent", "rest"}
    <3>1. header[p] \in {"none", "valid", "stale"} /\ task[x] \in TaskState
      BY <1>1 DEF BrowserTypes
    <3>2. QED  BY <3>1, TaskMoves
  <2>3. task' \in [Tasks -> TaskState]
    BY <2>1, <2>2 DEF BrowserTypes
  <2>4. \A x \in Tasks : IF PageOf[x] = p THEN task'[x].at \notin {"renewing", "queued"}
                                          ELSE task'[x] = task[x]
    BY <1>2, <1>3, <2>1, <2>2
  <2>5. QueueInv' /\ refreshing' \in [Pages -> BOOLEAN]
    BY <1>1, <2>1, <2>4, PageStep DEF BrowserTypes
  <2>6. access' \in [Browsers -> {"none", "valid", "stale"}]
    BY <2>1 DEF BrowserTypes
  <2>7. user' \in [Pages -> BOOLEAN]
    BY <2>1 DEF BrowserTypes
  <2>8. QED  BY <2>1, <2>3, <2>5, <2>6, <2>7 DEF BrowserTypes
<1>6. CASE RenewFailed(t) /\ ~onLogin[p]
  <2>1. /\ access' = [access EXCEPT ![Home(t)] = "none"]
        /\ user' = [user EXCEPT ![p] = FALSE]
        /\ header' = [header EXCEPT ![p] = "none"]
        /\ refreshing' = [refreshing EXCEPT ![p] = FALSE]
        /\ due' = [due EXCEPT ![p] = NothingDue]
        /\ onLogin' = [onLogin EXCEPT ![p] = TRUE]
        /\ task' = [x \in Tasks |->
                       IF x \notin In(p) THEN task[x]
                       ELSE IF x = t \/ server[x].op = "none" THEN AtRest
                       ELSE [AtRest EXCEPT !.at = "gone"]]
        /\ UNCHANGED <<jar, moves, faults>>
    BY <1>6 DEF RenewFailed, Calm
  <2>2. \A x \in Tasks : IF PageOf[x] = p
           THEN task'[x] \in TaskState /\ task'[x].at \in {"rest", "gone"}
           ELSE task'[x] = task[x]
    BY <2>1, TaskRecords DEF In
  <2>3. task' \in [Tasks -> TaskState]
    BY <2>1, <2>2 DEF BrowserTypes
  <2>4. QueueInv' /\ refreshing' \in [Pages -> BOOLEAN]
    BY <1>1, <2>1, <2>2, PageStep DEF BrowserTypes
  <2>5. due' \in [Pages -> [sync : Nat, init : Nat]]
    BY <2>1 DEF BrowserTypes, NothingDue
  <2>6. access' \in [Browsers -> {"none", "valid", "stale"}]
    BY <2>1 DEF BrowserTypes
  <2>7. user' \in [Pages -> BOOLEAN] /\ onLogin' \in [Pages -> BOOLEAN]
        /\ header' \in [Pages -> {"none", "valid", "stale"}]
    BY <2>1 DEF BrowserTypes
  <2>8. QED  BY <2>1, <2>3, <2>4, <2>5, <2>6, <2>7 DEF BrowserTypes
<1>7. QED  BY <1>4, <1>5, <1>6


\* The other answers of the auth endpoints.
LEMMA AnswerStep ==
    ASSUME SInv, NEW t \in Tasks, Swapped(t) \/ Posted(t) \/ LoggedOut(t) \/ Unheard(t)
    PROVE  BrowserTypes' /\ QueueInv'
<1> USE PagesOfTasks DEF SInv
<1>1. server[t].token \in 0..MaxTokens
  BY DEF ServerInv, CallsInv, CallState, Tasks
<1>2. CASE Swapped(t) \/ Posted(t) \/ Unheard(t)
  <2>1. task[t].at # "renewing" /\ UNCHANGED <<header, user, onLogin, refreshing, due, moves, faults>>
    BY <1>2 DEF Swapped, Posted, Unheard, Calm
  <2>2. PICK r \in TaskState : r.at \in {"sent", "rest"} /\ task' = [task EXCEPT ![t] = r]
    <3>1. \/ task' = [task EXCEPT ![t] = AtRest]
          \/ \E kind \in {"sync", "form"} : task' = [task EXCEPT ![t] = [Request(kind, PageOf[t]) EXCEPT !.carry = "valid"]]
          \/ task' = [task EXCEPT ![t] = Request("again", PageOf[t])]
      BY <1>2 DEF Swapped, Posted, Unheard, Set
    <3>2. {"sync", "form", "again"} \subseteq Kinds
      BY DEF Kinds
    <3>3. CASE task' = [task EXCEPT ![t] = AtRest]
      BY <3>3, TaskRecords
    <3>4. CASE \E kind \in {"sync", "form"} :
                  task' = [task EXCEPT ![t] = [Request(kind, PageOf[t]) EXCEPT !.carry = "valid"]]
      <4>1. PICK kind \in Kinds :
               task' = [task EXCEPT ![t] = [Request(kind, PageOf[t]) EXCEPT !.carry = "valid"]]
        BY <3>2, <3>4
      <4>2. LET r == [Request(kind, PageOf[t]) EXCEPT !.carry = "valid"] IN
            r \in TaskState /\ r.at = "sent"
        BY TaskRecords
      <4>3. QED  BY <4>1, <4>2
    <3>5. CASE task' = [task EXCEPT ![t] = Request("again", PageOf[t])]
      BY <3>2, <3>5, TaskRecords
    <3>6. QED  BY <3>1, <3>3, <3>4, <3>5
  <2>3. QueueInv' /\ task' \in [Tasks -> TaskState]
    BY <2>1, <2>2, TaskStep
  <2>4. jar' \in [Browsers -> 0..MaxTokens]
    BY <1>1, <1>2 DEF Swapped, Posted, Unheard, KeepCookie, BrowserTypes
  <2>5. access' \in [Browsers -> {"none", "valid", "stale"}]
    BY <1>2 DEF Swapped, Posted, Unheard, BrowserTypes
  <2>6. QED  BY <2>1, <2>3, <2>4, <2>5 DEF BrowserTypes
<1>3. CASE LoggedOut(t)
  <2>1. /\ access' = [access EXCEPT ![Home(t)] = "none"]
        /\ user' = [user EXCEPT ![PageOf[t]] = FALSE]
        /\ onLogin' = [onLogin EXCEPT ![PageOf[t]] = TRUE]
        /\ task' = [task EXCEPT ![t] = AtRest]
        /\ UNCHANGED <<jar, header, refreshing, due, moves, faults>>
    BY <1>3 DEF LoggedOut, Set, Calm
  <2>2. task[t].at # "renewing"
    BY <1>3 DEF LoggedOut
  <2>3. QueueInv' /\ task' \in [Tasks -> TaskState]
    BY <2>1, <2>2, TaskRecords, TaskStep
  <2>4. access' \in [Browsers -> {"none", "valid", "stale"}]
    BY <2>1 DEF BrowserTypes
  <2>5. user' \in [Pages -> BOOLEAN] /\ onLogin' \in [Pages -> BOOLEAN]
    BY <2>1 DEF BrowserTypes
  <2>6. QED  BY <2>1, <2>3, <2>4, <2>5 DEF BrowserTypes
<1>4. QED  BY <1>2, <1>3


-----------------------------------------------------------------------------
(* Theorems *)

\* No session yet.
LEMMA SInvInit == Init => SInv
<1> SUFFICES ASSUME Init PROVE SInv
  OBVIOUS
<1> USE TokensAssumption, SessionsAssumption DEF Init, TokensInit
<1>1. issued \in 0..1 /\ issued \in 0..MaxTokens /\ live = 1..issued /\ live \subseteq Token
  BY DEF Token
<1>2. CallsInv
  BY DEF CallsInv, Quiet, CallState, Steps, OfAccount, NoToken
<1>3. TokensTypeOK
  <2>1. role \in [Accounts -> {None, "ADMIN", "CUSTOMER"}]
    OBVIOUS
  <2>2. owner \in [Token -> Accounts \cup {None}]
    OBVIOUS
  <2>3. spent \in [Token -> Nat]
    OBVIOUS
  <2>4. QED  BY <1>1, <1>2, <2>1, <2>2, <2>3 DEF TokensTypeOK, CallsInv
<1>4. TokenInv
  BY <1>1 DEF TokenInv, Token
<1>5. AdminInv
  <2>1. ASSUME NEW a \in Accounts, role[a] = "ADMIN" PROVE a = Old
    <3>1. CASE role = [x \in Accounts |-> None]
      BY <2>1, <3>1
    <3>2. CASE role = [x \in Accounts |-> IF x = Old THEN "ADMIN" ELSE None]
      <4>1. role[a] = IF a = Old THEN "ADMIN" ELSE None
        BY <3>2
      <4>2. None # "ADMIN"
        OBVIOUS
      <4>3. QED  BY <2>1, <4>1, <4>2
    <3>3. QED  BY <3>1, <3>2
  <2>2. QED  BY <2>1 DEF AdminInv
<1>6. BrowserTypes
  <2>1. PICK b \in Browsers, a \in {"valid", "stale"} :
           /\ jar = [x \in Browsers |-> IF x = b THEN issued ELSE NoToken]
           /\ access = [x \in Browsers |-> IF x = b /\ issued = 1 THEN a ELSE "none"]
           /\ user = [p \in Pages |-> access[BrowserOf[p]] # "none"]
           /\ onLogin \in [Pages -> BOOLEAN]
    OBVIOUS
  <2>2. jar \in [Browsers -> 0..MaxTokens]
    BY <1>1, <2>1 DEF NoToken
  <2>3. access \in [Browsers -> {"none", "valid", "stale"}]
    BY <2>1
  <2>4. user \in [Pages -> BOOLEAN] /\ onLogin \in [Pages -> BOOLEAN]
    BY <2>1
  <2>5. header \in [Pages -> {"none", "valid", "stale"}] /\ refreshing \in [Pages -> BOOLEAN] /\ moves \in 0..MaxMoves /\ faults \in 0..MaxFaults
    OBVIOUS
  <2>6. due \in [Pages -> [sync : Nat, init : Nat]]
    BY DEF NothingDue
  <2>7. task \in [Tasks -> TaskState]
    BY DEF AtRest, TaskState, TaskAt
  <2>8. QED  BY <2>2, <2>3, <2>4, <2>5, <2>6, <2>7 DEF BrowserTypes
<1>7. QueueInv
  BY DEF QueueInv, AtRest
<1>8. QED  BY <1>2, <1>3, <1>4, <1>5, <1>6, <1>7 DEF SInv, ServerInv

\* Every step preserves the invariant.
LEMMA SInvStep == ASSUME SInv, [Next]_vars PROVE SInv'
<1>1. ServerInv'
  BY ServerInvStep DEF SInv
<1>2. CASE UNCHANGED browserVars
  <2>1. BrowserTypes'
    BY <1>2 DEF SInv, browserVars, BrowserTypes
  <2>2. QueueInv'
    BY <1>2 DEF SInv, browserVars, QueueInv
  <2>3. QED  BY <1>1, <2>1, <2>2 DEF SInv
<1>3. CASE UserActs
  BY <1>1, <1>3, UserStep DEF SInv
<1>4. ASSUME NEW t \in Tasks, Start(t) \/ Settled(t) \/ Heard(t) \/ Disconnect(t)
      PROVE  BrowserTypes' /\ QueueInv'
  BY <1>4, RequestStep, RenewalStep, RenewedStep, AnswerStep
     DEF Settled, Heard, Reject, Disconnect
<1>5. CASE Fault /\ UNCHANGED <<jar, access, header, user, onLogin, refreshing, due, task>>
  <2>1. BrowserTypes'
    BY <1>5, SessionsAssumption DEF SInv, BrowserTypes, Fault
  <2>2. QueueInv'
    BY <1>5 DEF SInv, QueueInv
  <2>3. QED  BY <1>1, <2>1, <2>2 DEF SInv
<1>6. [Next]_vars =>
        \/ UNCHANGED browserVars \/ UserActs
        \/ \E t \in Tasks : Start(t) \/ Settled(t) \/ Heard(t) \/ Disconnect(t)
        \/ Fault /\ UNCHANGED <<jar, access, header, user, onLogin, refreshing, due, task>>
  BY DEF Next, Trouble, Advance, ServerStep, vars
<1>7. QED  BY <1>1, <1>2, <1>3, <1>4, <1>5, <1>6 DEF SInv

\* Every behaviour of the server and its browsers keeps the invariant.
THEOREM Invariant == Spec => []SInv
BY SInvInit, SInvStep, PTL DEF Spec

\* A refresh token is exchanged for another at most once, however many tabs and
\* requests present it and whatever is lost or dies on the way.
THEOREM TokensRotateOnce == Spec => []RotatedOnce
<1>1. SInv => RotatedOnce
  BY DEF SInv, ServerInv, TokenInv, RotatedOnce
<1>2. QED  BY <1>1, Invariant, PTL

\* The shop has one administrator at most: of two first registrations that both count
\* no user, the Serializable commit lets one through (auth.service.ts:63-67).
THEOREM OneAdministrator == Spec => []OneAdmin
<1>1. SInv => OneAdmin
  <2> SUFFICES ASSUME SInv PROVE OneAdmin
    OBVIOUS
  <2> DEFINE admins == {a \in Accounts : role[a] = "ADMIN"}
  <2>1. CASE admins = {}
    BY <2>1, FS_EmptySet DEF OneAdmin
  <2>2. CASE admins # {}
    <3>1. PICK a : admins = {a}
      BY <2>2 DEF SInv, ServerInv, AdminInv
    <3>2. Cardinality(admins) = 1
      BY <3>1, FS_Singleton
    <3>3. QED  BY <3>2 DEF OneAdmin
  <2>3. QED  BY <2>1, <2>2
<1>2. QED  BY <1>1, Invariant, PTL

\* The variables are well typed, the flag of a page is up exactly while one of its
\* requests is renewing the token, and no request waits without it.
THEOREM QueueIsWoken == Spec => []IInv
<1>1. SInv => IInv
  <2> SUFFICES ASSUME SInv PROVE IInv
    OBVIOUS
  <2>1. TypeOK
    BY DEF SInv, ServerInv, BrowserTypes, TypeOK
  <2>2. ASSUME NEW p \in Pages
        PROVE  /\ Cardinality({t \in In(p) : task[t].at = "renewing"}) = (IF refreshing[p] THEN 1 ELSE 0)
               /\ Queued(p) # {} => refreshing[p]
    <3> DEFINE renewing == {t \in In(p) : task[t].at = "renewing"}
    <3>1. CASE refreshing[p]
      <4>1. PICK t \in Tasks : PageOf[t] = p /\ task[t].at = "renewing"
        BY <3>1 DEF SInv, QueueInv
      <4>2. renewing = {t}
        BY <4>1 DEF SInv, QueueInv, In
      <4>3. Cardinality(renewing) = 1
        BY <4>2, FS_Singleton
      <4>4. QED  BY <3>1, <4>3
    <3>2. CASE ~refreshing[p]
      <4>1. renewing = {} /\ Queued(p) = {}
        BY <3>2 DEF SInv, QueueInv, In, Queued
      <4>2. Cardinality(renewing) = 0
        BY <4>1, FS_EmptySet
      <4>3. QED  BY <3>2, <4>1, <4>2
    <3>3. QED  BY <3>1, <3>2
  <2>3. QED  BY <2>1, <2>2 DEF IInv, QueueHasRenewal
<1>2. QED  BY <1>1, Invariant, PTL

=============================================================================
