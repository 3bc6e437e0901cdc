------------------------------- MODULE Sellers -------------------------------
(***************************************************************************)
(* How a customer becomes a seller: sellers.service.ts, with the page of   *)
(* applications an administrator decides from (ApprovalsPage.tsx).         *)
(* Applying reads the profile and writes it in two statements; a decision  *)
(* reads it and then claims it by its status.  The role is taken from the  *)
(* access token, so a customer who has become a seller may still apply     *)
(* until the token is renewed.                                             *)
(***************************************************************************)
CONSTANTS
    Customers,      \* users who may apply
    Moderators,     \* pages of administrators
    Requests,       \* requests in progress
    Nobody

ASSUME SellersAssumption == Nobody \notin Customers \cup Moderators

VARIABLES
    standing,       \* status of the SellerProfile, "NONE" when there is no row
    sellers,        \* users whose role is SELLER
    listed,         \* the applications each page shows
    request         \* what is left to do of each request

sellersVars == <<standing, sellers, listed, request>>

NoRequest == [op |-> "none", at |-> "idle", of |-> Nobody, by |-> Nobody, late |-> FALSE]
Decisions == {"APPROVED", "REJECTED"}

Pending == {c \in Customers : standing[c] = "PENDING"}

\* Nobody has applied, or a seller has been approved and another user refused before.
SellersInit ==
    /\ standing \in [Customers -> {"NONE", "APPROVED", "REJECTED"}]
    /\ sellers = {c \in Customers : standing[c] = "APPROVED"}
    /\ listed = [p \in Moderators |-> {}]
    /\ request = [r \in Requests |-> NoRequest]

Asked(r, op, c, p) ==
    /\ request[r].at = "idle"
    /\ request' = [request EXCEPT ![r] = [NoRequest EXCEPT !.op = op, !.at = "write", !.of = c, !.by = p]]

ToWrite(r, ops) == request[r].at = "write" /\ request[r].op \in ops
Ended(r) == request' = [request EXCEPT ![r] = NoRequest]

-----------------------------------------------------------------------------
(* The customer *)

\* Mutant: an approved seller is not refused.
UnlessPending(c) == standing[c] # "PENDING"

MayApply(c) == standing[c] \notin {"PENDING", "APPROVED"}

\* apply: findByUserId and the two conflicts.
Apply(r, c) == MayApply(c) /\ Asked(r, "apply", c, Nobody) /\ UNCHANGED <<standing, sellers, listed>>

\* apply: upsertForUser, whatever the profile has become.
Submit(r) ==
    /\ ToWrite(r, {"apply"})
    /\ standing' = [standing EXCEPT ![request[r].of] = "PENDING"]
    /\ Ended(r)
    /\ UNCHANGED <<sellers, listed>>

-----------------------------------------------------------------------------
(* The administrator *)

\* ApprovalsPage is opened, or its list reloaded.
ListPending(p) ==
    /\ listed' = [listed EXCEPT ![p] = Pending]
    /\ UNCHANGED <<standing, sellers, request>>

\* The check of approve, and of reject.
MayDecide(c) == c \in Pending

\* approve or reject is called for an application the page shows.
Moderate(r, p, c, decision) ==
    /\ c \in listed[p] /\ MayDecide(c)
    /\ Asked(r, decision, c, p)
    /\ UNCHANGED <<standing, sellers, listed>>

\* claimPending: an update under the condition that the profile is still PENDING.
ClaimPending(r, decision) ==
    /\ ToWrite(r, {decision})
    /\ request[r].of \in Pending
    /\ standing' = [standing EXCEPT ![request[r].of] = decision]

\* approve: the claim and the role in one transaction.  An application that has been
\* checked and is not written yet is late from now on.
Approve(r) ==
    LET late(q) == request[q].op = "apply" /\ request[q].of = request[r].of
    IN  /\ ClaimPending(r, "APPROVED")
        /\ sellers' = sellers \cup {request[r].of}
        /\ request' = [q \in Requests |->
                IF q = r THEN [request[q] EXCEPT !.at = "done"]
                         ELSE [request[q] EXCEPT !.late = @ \/ late(q)]]
        /\ UNCHANGED listed

Reject(r) ==
    /\ ClaimPending(r, "REJECTED")
    /\ request' = [request EXCEPT ![r].at = "done"]
    /\ UNCHANGED <<sellers, listed>>

\* The page takes the application it has decided off its list.
Decided(r) ==
    /\ request[r].at = "done"
    /\ listed' = [listed EXCEPT ![request[r].by] = @ \ {request[r].of}]
    /\ Ended(r)
    /\ UNCHANGED <<standing, sellers>>

\* A claim that finds the application decided, a statement that fails, an answer
\* that is lost: the page keeps what it shows.
Refused(r) ==
    /\ request[r].at # "idle"
    /\ Ended(r)
    /\ UNCHANGED <<standing, sellers, listed>>

-----------------------------------------------------------------------------

SellersNext ==
    \/ \E r \in Requests :
          \/ \E c \in Customers : Apply(r, c)
          \/ \E p \in Moderators, c \in Customers, d \in Decisions : Moderate(r, p, c, d)
          \/ Submit(r) \/ Approve(r) \/ Reject(r) \/ Decided(r) \/ Refused(r)
    \/ \E p \in Moderators : ListPending(p)

-----------------------------------------------------------------------------
(* Properties *)

\* "Seller status is an admin-moderated application" (README.md:123): once approved,
\* a profile stays so through late rejections, repeated applications and second
\* decisions from old lists.  Only an application whose check ran before the approval
\* takes it back to PENDING; the role stays SELLER.
ApprovalStands ==
    [][\A c \in Customers :
          standing[c] = "APPROVED" /\ standing'[c] # "APPROVED"
              => standing'[c] = "PENDING" /\ \E r \in Requests :
                    request[r].of = c /\ request[r].late /\ request'[r] = NoRequest]_sellersVars
=============================================================================
