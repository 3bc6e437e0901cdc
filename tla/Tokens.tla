------------------------------- MODULE Tokens -------------------------------
(***************************************************************************)
(* Accounts and refresh tokens on the server: auth.service.ts with         *)
(* auth.controller.ts and refresh-token.repository.ts.  A call is a        *)
(* sequence of statements in transactions of their own, so other calls, an *)
(* error or the death of the process may come between any two of them.     *)
(***************************************************************************)
EXTENDS Integers, FiniteSets

CONSTANTS
    Accounts,   \* email addresses
    Old,        \* the one that may have an account, with a session, to begin with
    Calls,      \* calls in progress
    MaxTokens,  \* bound on the refresh tokens issued
    None

ASSUME TokensAssumption ==
    /\ MaxTokens \in Nat \ {0} /\ Old \in Accounts
    /\ None \notin Accounts \cup {"ADMIN", "CUSTOMER"}

VARIABLES
    role,       \* User.role of the accounts that exist
    live,       \* tokens with a RefreshToken row
    owner,      \* the account each issued token belongs to
    google,     \* emails with a Redis key auth:google-registration:*
    server,     \* what the server has left to do of each call
    issued,     \* tokens issued so far
    spent       \* how often each token was exchanged for another

authVars == <<role, live, owner, google, server, issued, spent>>

Token == 1..MaxTokens
NoToken == 0

Quiet == [op |-> "none", at |-> "idle", account |-> None, token |-> NoToken, first |-> FALSE]

Operations == {"register", "login", "google", "complete", "refresh", "logout"}
Answers == {"granted", "refused", "registration", "revoked"}
Steps == {"idle", "look", "count", "create", "pending", "settle", "profile", "revoke",
          "find", "delete", "insert", "forget"}

CallState ==
    [op : Operations \cup {"none"}, at : Steps \cup Answers,
     account : Accounts \cup {None}, token : 0..MaxTokens, first : BOOLEAN]

TokensTypeOK ==
    /\ role \in [Accounts -> {None, "ADMIN", "CUSTOMER"}]
    /\ live \subseteq Token
    /\ owner \in [Token -> Accounts \cup {None}]
    /\ google \subseteq Accounts
    /\ issued \in 0..MaxTokens
    /\ spent \in [Token -> Nat]
    /\ server \in [Calls -> CallState]

Exists(a) == role[a] # None

\* No account yet, or one whose owner is signed in with the first token.
TokensInit ==
    /\ role \in {[a \in Accounts |-> None], [a \in Accounts |-> IF a = Old THEN "ADMIN" ELSE None]}
    /\ issued = IF Exists(Old) THEN 1 ELSE 0
    /\ live = 1..issued
    /\ owner = [t \in Token |-> IF t \in live THEN Old ELSE None]
    /\ google = {}
    /\ server = [c \in Calls |-> Quiet]
    /\ spent = [t \in Token |-> 0]

-----------------------------------------------------------------------------
(* The course of a call *)

FirstStep == [register |-> "look", login |-> "revoke", google |-> "profile",
              complete |-> "pending", refresh |-> "find", logout |-> "forget"]

\* The controller hands a request over, with the cookie it came with.
Called(c, op, account, token) ==
    [server EXCEPT ![c] = [Quiet EXCEPT !.op = op, !.at = FirstStep[op],
                                        !.account = account, !.token = token]]

Goto(c, step) == server' = [server EXCEPT ![c].at = step]
Answer(c, what) == Goto(c, what)
Answered(c) == server[c].at \in Answers

Running(c, step) == server[c].at = step

-----------------------------------------------------------------------------
(* register and completeGoogleRegistration *)

Look(c) ==
    /\ Running(c, "look")
    /\ IF Exists(server[c].account) THEN Answer(c, "refused") ELSE Goto(c, "count")
    /\ UNCHANGED <<role, live, google, issued, spent, owner>>

\* The count of the Serializable transaction, on its snapshot.
Count(c) ==
    /\ Running(c, "count")
    /\ server' = [server EXCEPT ![c].at = "create",
                                ![c].first = \A a \in Accounts : ~Exists(a)]
    /\ UNCHANGED <<role, live, google, issued, spent, owner>>

\* Mutant: the transaction runs at the default isolation.
CommitsAnyway(c) == TRUE

\* PostgreSQL fails a Serializable commit whose count another register changed.
Serializes(c) == server[c].first => \A a \in Accounts : role[a] # "ADMIN"

Create(c) ==
    /\ Running(c, "create")
    /\ LET a == server[c].account IN
        IF Exists(a) \/ ~Serializes(c)
        THEN Answer(c, "refused") /\ UNCHANGED role
        ELSE /\ role' = [role EXCEPT ![a] = IF server[c].first THEN "ADMIN" ELSE "CUSTOMER"]
             /\ Goto(c, IF server[c].op = "register" THEN "insert" ELSE "settle")
    /\ UNCHANGED <<live, google, issued, spent, owner>>

\* redis.get of the registration token; the profile is asked for again.
Pending(c) ==
    /\ Running(c, "pending")
    /\ IF server[c].account \in google THEN Goto(c, "create") ELSE Answer(c, "refused")
    /\ UNCHANGED <<role, live, google, issued, spent, owner>>

\* redis.del(key)
Settle(c) ==
    /\ Running(c, "settle")
    /\ google' = google \ {server[c].account}
    /\ Goto(c, "insert")
    /\ UNCHANGED <<role, live, issued, spent, owner>>

\* The Redis key of 600 s runs out.
Lapse(a) ==
    /\ a \in google
    /\ google' = google \ {a}
    /\ UNCHANGED <<role, live, server, issued, spent, owner>>

-----------------------------------------------------------------------------
(* login and loginWithGoogle *)

Profile(c) ==
    /\ Running(c, "profile")
    /\ LET a == server[c].account IN
        IF Exists(a)
        THEN Goto(c, "revoke") /\ UNCHANGED google
        ELSE google' = google \cup {a} /\ Answer(c, "registration")
    /\ UNCHANGED <<role, live, issued, spent, owner>>

\* invalidateRefreshTokens: deleteMany by user.
RevokeAll(c) ==
    /\ Running(c, "revoke")
    /\ LET a == server[c].account
           his == {t \in Token : owner[t] = a}
       IN  IF ~Exists(a)
           THEN Answer(c, "refused") /\ UNCHANGED live
           ELSE /\ live' = live \ his
                /\ Goto(c, "insert")
    /\ UNCHANGED <<role, google, issued, spent, owner>>

-----------------------------------------------------------------------------
(* refresh and logout *)

\* findByTokenHash; a token past its seven days is deleted instead.
Find(c) ==
    /\ Running(c, "find")
    /\ LET t == server[c].token IN
        IF t \notin live
        THEN Answer(c, "refused") /\ UNCHANGED live
        ELSE \/ /\ server' = [server EXCEPT ![c].at = "delete", ![c].account = owner[t]]
                /\ UNCHANGED live
             \/ live' = live \ {t} /\ Answer(c, "refused")
    /\ UNCHANGED <<role, google, issued, spent, owner>>

\* Mutant: deleteMany, which does not mind a missing row.
DeletesNothing(c) == FALSE

\* prisma delete throws when the row is gone.
Gone(c) == server[c].token \notin live

Delete(c) ==
    /\ Running(c, "delete")
    /\ IF Gone(c)
       THEN Answer(c, "refused") /\ UNCHANGED <<live, spent>>
       ELSE /\ live' = live \ {server[c].token}
            /\ spent' = [spent EXCEPT ![server[c].token] = @ + 1]
            /\ Goto(c, "insert")
    /\ UNCHANGED <<role, google, issued, owner>>

\* issueTokens; an insert beyond the bound fails.
InsertToken(c) ==
    /\ Running(c, "insert")
    /\ LET t == issued + 1 IN
        IF t > MaxTokens
        THEN Answer(c, "refused") /\ UNCHANGED <<issued, live, owner>>
        ELSE /\ issued' = t
             /\ live' = live \cup {t}
             /\ owner' = [owner EXCEPT ![t] = server[c].account]
             /\ server' = [server EXCEPT ![c].at = "granted", ![c].token = t]
    /\ UNCHANGED <<role, google, spent>>

\* deleteByTokenHash
Forget(c) ==
    /\ Running(c, "forget")
    /\ live' = live \ {server[c].token}
    /\ Answer(c, "revoked")
    /\ UNCHANGED <<role, google, issued, spent, owner>>

-----------------------------------------------------------------------------

\* A statement fails, the process dies, or the answer is lost on its way: what was
\* committed stays, and the client sees an error.
Break(c) ==
    /\ server[c].op # "none" /\ server[c].at # "refused"
    /\ Answer(c, "refused")
    /\ UNCHANGED <<role, live, google, issued, spent, owner>>

Serve(c) ==
    \/ Look(c) \/ Count(c) \/ Create(c) \/ Pending(c) \/ Settle(c)
    \/ Profile(c) \/ RevokeAll(c)
    \/ Find(c) \/ Delete(c) \/ InsertToken(c) \/ Forget(c)

-----------------------------------------------------------------------------
(* Properties *)

\* However many tabs and requests present one refresh token, it is exchanged for
\* another at most once.
RotatedOnce == \A t \in Token : spent[t] =< 1

\* Two first registrations at once do not make two administrators.
OneAdmin == Cardinality({a \in Accounts : role[a] = "ADMIN"}) =< 1
=============================================================================
