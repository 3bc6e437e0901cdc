------------------------------ MODULE Auctions ------------------------------
(***************************************************************************)
(* One auction lot: its Auction row, its Product row, its bids and the     *)
(* order of its winner, under the handlers of bidding.service.ts           *)
(* (createAuction, startAuction, placeBid, endAuction, expireWinnerCheckout*)
(* and checkoutWinner) and the operations of products.service.ts that      *)
(* change the same rows (approve, reject, submitForApproval, remove and    *)
(* restore).                                                               *)
(*                                                                         *)
(* Handlers are transactions at READ COMMITTED.  A conditional updateMany  *)
(* (a "claim") looks at the committed row: when it does not match, nothing *)
(* is locked and the handler gives up; when it does, the transaction waits *)
(* for the row's lock, and what it writes is seen by others only after its *)
(* commit.  What was read before the claim may be stale by then, and time  *)
(* passes between any two steps.                                           *)
(***************************************************************************)
EXTENDS Integers, FiniteSetsExt

CONSTANTS
    Procs,              \* request handlers and queue workers that run concurrently
    Users,              \* bidders
    Keys,               \* Idempotency-Key header values, of bids and of checkouts
    Amounts,            \* amounts users bid
    StartingPrice,
    MinBidIncrement,
    StartsAt,
    EndsAt,
    CheckoutWindow,     \* the winner's 15 minutes
    MaxTime,            \* bound: the clock stops here
    None                \* null

ASSUME NoneAssumption == None \notin Users /\ None \notin Keys
ASSUME AmountsAssumption == Amounts \subseteq Nat
ASSUME PriceAssumption == StartingPrice \in Nat /\ MinBidIncrement \in Nat \ {0}
ASSUME TimeAssumption ==
    /\ StartsAt \in Nat /\ EndsAt \in Nat /\ StartsAt < EndsAt
    /\ CheckoutWindow \in Nat \ {0} /\ MaxTime \in Nat

AuctionStatus == {"NONE", "DRAFT", "ACTIVE", "SOLD", "EXPIRED", "CANCELLED"}
ProductStatus == {"DRAFT", "PENDING_APPROVAL", "ACTIVE", "REJECTED", "ARCHIVED", "SOLD"}
BidStatus == {"NONE", "ACTIVE", "OUTBID", "WON"}

Requests ==
    [op : {"create", "start", "end", "expire", "archive", "approve"}]
        \cup [op : {"bid"}, user : Users, amount : Amounts, key : Keys]
        \cup [op : {"checkout"}, user : Users, key : Keys]

VARIABLES
    now,        \* the clock of the backend and of the database
    auction,    \* the Auction row; status NONE before createAuction
    product,    \* status and isArchived of the Product row
    bids,       \* Bid rows, by idempotency key; status NONE when there is none
    orders,     \* orders made by checkoutWinner, by payment key: who pays what
    events,     \* the outbox events of the lot that have a key of their own
    pc,         \* the step each handler takes next
    call,       \* the request it serves
    seen,       \* the Auction row its transaction read first
    locks,      \* the rows its transaction has written
    next        \* the Auction row as its transaction will leave it

db == <<auction, product, bids, orders, events>>
tx == <<pc, call, seen, locks, next>>
vars == <<now, db, tx>>

AuctionRow ==
    [status : AuctionStatus, price : Nat, version : Nat, winner : Users \cup {None},
     expiresAt : Nat, order : Keys \cup {None}]      \* expiresAt 0 is null
BidRow == [bidder : Users \cup {None}, amount : Nat, status : BidStatus]
OrderRow == [user : Users \cup {None}, amount : Nat]

NoAuction == [status |-> "NONE", price |-> StartingPrice, version |-> 0, winner |-> None,
              expiresAt |-> 0, order |-> None]
NoBid == [bidder |-> None, amount |-> 0, status |-> "NONE"]
NoOrder == [user |-> None, amount |-> 0]
NoCall == [op |-> "none"]

Steps ==
    {"idle", "createInsert", "startProduct", "startClaim", "startCommit",
     "bidClaim", "bidCommit", "endClaim", "endCommit", "expireClaim", "expireCommit",
     "checkoutProduct", "checkoutClaim", "checkoutCommit",
     "archiveAuction", "archiveCommit", "approveAuction", "approveCommit"}

TypeOK ==
    /\ now \in Nat
    /\ auction \in AuctionRow
    /\ product \in [status : ProductStatus, archived : BOOLEAN]
    /\ bids \in [Keys -> BidRow]
    /\ orders \in [Keys -> OrderRow]
    /\ events \in SUBSET {"started", "ended", "checkoutExpired"}
    /\ pc \in [Procs -> Steps]
    /\ call \in [Procs -> Requests \cup {NoCall}]
    /\ seen \in [Procs -> AuctionRow]
    /\ locks \in [Procs -> SUBSET {"auction", "product"}]
    /\ next \in [Procs -> AuctionRow]

-----------------------------------------------------------------------------
(* Transactions *)

Free(p, row) == \A q \in Procs \ {p} : row \notin locks[q]
Goto(p, step) == pc' = [pc EXCEPT ![p] = step]

\* A handler starts; read is the row its first statement returned.
Begin(p, r, step) ==
    /\ pc[p] = "idle"
    /\ Goto(p, step)
    /\ call' = [call EXCEPT ![p] = r]
    /\ seen' = [seen EXCEPT ![p] = auction]
    /\ UNCHANGED <<now, db, next>>

\* It writes the Auction row, which is locked from here to its end.
Claim(p, row, step) ==
    /\ Free(p, "auction")
    /\ locks' = [locks EXCEPT ![p] = @ \cup {"auction"}]
    /\ next' = [next EXCEPT ![p] = row]
    /\ Goto(p, step)
    /\ UNCHANGED <<now, db, call, seen>>

Finish(p) ==
    /\ pc' = [pc EXCEPT ![p] = "idle"]
    /\ call' = [call EXCEPT ![p] = NoCall]
    /\ seen' = [seen EXCEPT ![p] = NoAuction]
    /\ locks' = [locks EXCEPT ![p] = {}]
    /\ next' = [next EXCEPT ![p] = NoAuction]
    /\ UNCHANGED now

Rollback(p) == Finish(p) /\ UNCHANGED db

\* The Auction row after the commit of p.
Committed(p) == IF "auction" \in locks[p] THEN next[p] ELSE auction

-----------------------------------------------------------------------------
Init ==
    /\ now = 0
    /\ auction = NoAuction
    /\ product = [status |-> "DRAFT", archived |-> FALSE]
    /\ bids = [k \in Keys |-> NoBid]
    /\ orders = [k \in Keys |-> NoOrder]
    /\ events = {}
    /\ pc = [p \in Procs |-> "idle"]
    /\ call = [p \in Procs |-> NoCall]
    /\ seen = [p \in Procs |-> NoAuction]
    /\ locks = [p \in Procs |-> {}]
    /\ next = [p \in Procs |-> NoAuction]

Tick ==
    /\ now < MaxTime
    /\ now' = now + 1
    /\ UNCHANGED <<db, tx>>

-----------------------------------------------------------------------------
(* createAuction and startAuction *)

CreateStart(p, r) ==
    /\ r.op = "create"
    /\ now < EndsAt
    /\ product.status \in {"DRAFT", "PENDING_APPROVAL", "ACTIVE"} /\ ~product.archived
    /\ auction.status = "NONE"
    /\ Begin(p, r, "createInsert")
    /\ UNCHANGED locks

\* A product has one auction: a second insert fails on the unique productId.
CreateInsert(p) ==
    /\ pc[p] = "createInsert"
    /\ \/ auction.status # "NONE" /\ Rollback(p)
       \/ /\ auction.status = "NONE"
          /\ auction' = [auction EXCEPT !.status = "DRAFT"]
          /\ Finish(p)
          /\ UNCHANGED <<product, bids, orders, events>>

StartStart(p, r) ==
    /\ r.op = "start"
    /\ auction.status = "DRAFT"
    /\ StartsAt =< now
    /\ Begin(p, r, "startProduct")
    /\ UNCHANGED locks

StartProduct(p) ==
    /\ pc[p] = "startProduct"
    /\ \/ product.status # "ACTIVE" /\ Rollback(p)
       \/ /\ product.status = "ACTIVE"
          /\ Goto(p, "startClaim")
          /\ UNCHANGED <<now, db, call, seen, locks, next>>

\* activate writes by id, whatever the status is by now.
StartClaim(p) ==
    /\ pc[p] = "startClaim"
    /\ Claim(p, [auction EXCEPT !.status = "ACTIVE"], "startCommit")

StartCommit(p) ==
    /\ pc[p] = "startCommit"
    /\ \/ "started" \in events /\ Rollback(p)
       \/ /\ "started" \notin events
          /\ auction' = Committed(p)
          /\ events' = events \cup {"started"}
          /\ Finish(p)
          /\ UNCHANGED <<product, bids, orders>>

-----------------------------------------------------------------------------
(* placeBid *)

MinimumBid(row) == row.price + MinBidIncrement

BidStart(p, r) ==
    /\ r.op = "bid"
    /\ bids[r.key].status = "NONE"
    /\ auction.status = "ACTIVE"
    /\ StartsAt =< now /\ now < EndsAt
    /\ r.amount >= MinimumBid(auction)
    /\ Begin(p, r, "bidClaim")
    /\ UNCHANGED locks

\* Mutants: the claim names the auction's status, or its version and price, only.
BidClaimsStatus(p) == auction.status = "ACTIVE"
BidClaimsVersion(p) == auction.version = seen[p].version /\ auction.price = seen[p].price

\* claimAuctionVersion: nobody has bid, and the auction has not ended, since it
\* was read.
BidClaims(p) ==
    /\ auction.status = "ACTIVE"
    /\ auction.version = seen[p].version
    /\ auction.price = seen[p].price

BidClaim(p) ==
    /\ pc[p] = "bidClaim"
    /\ \/ ~BidClaims(p) /\ Rollback(p)
       \/ /\ BidClaims(p)
          /\ Claim(p, [auction EXCEPT !.price = call[p].amount, !.version = @ + 1], "bidCommit")

\* Mutant: the leading bid stays ACTIVE.
NoneOutbid == bids

\* markActiveOutbid
ActiveOutbid ==
    [k \in Keys |-> IF bids[k].status = "ACTIVE" THEN [bids[k] EXCEPT !.status = "OUTBID"]
                    ELSE bids[k]]

BidCommit(p) ==
    LET r == call[p]
    IN  /\ pc[p] = "bidCommit"
        /\ \/ bids[r.key].status # "NONE" /\ Rollback(p)
           \/ /\ bids[r.key].status = "NONE"
              /\ bids' = [ActiveOutbid EXCEPT ![r.key] =
                            [bidder |-> r.user, amount |-> r.amount, status |-> "ACTIVE"]]
              /\ auction' = Committed(p)
              /\ Finish(p)
              /\ UNCHANGED <<product, orders, events>>

-----------------------------------------------------------------------------
(* endAuction, by its job or by findAuction *)

EndStart(p, r) ==
    /\ r.op = "end"
    /\ auction.status = "ACTIVE"
    /\ EndsAt =< now
    /\ Begin(p, r, "endClaim")
    /\ UNCHANGED locks

ActiveBids == {k \in Keys : bids[k].status = "ACTIVE"}

\* findHighestActive
HighestActive == CHOOSE k \in ActiveBids : \A l \in ActiveBids : bids[l].amount =< bids[k].amount

\* Mutants: the winner is not recorded, or is the bid instead of the bidder.
EndedWithoutWinner(row) ==
    [row EXCEPT !.status = IF ActiveBids = {} THEN "EXPIRED" ELSE "SOLD",
                !.winner = None,
                !.expiresAt = IF ActiveBids = {} THEN 0 ELSE now + CheckoutWindow,
                !.version = @ + 1]

\* markEnded: the row of the ended auction.
Ended(row) ==
    [row EXCEPT !.status = IF ActiveBids = {} THEN "EXPIRED" ELSE "SOLD",
                !.winner = IF ActiveBids = {} THEN None ELSE bids[HighestActive].bidder,
                !.expiresAt = IF ActiveBids = {} THEN 0 ELSE now + CheckoutWindow,
                !.version = @ + 1]

EndClaim(p) ==
    /\ pc[p] = "endClaim"
    /\ \/ auction.status # "ACTIVE" /\ Rollback(p)
       \/ auction.status = "ACTIVE" /\ Claim(p, Ended(auction), "endCommit")

EndCommit(p) ==
    /\ pc[p] = "endCommit"
    /\ \/ "ended" \in events /\ Rollback(p)
       \/ /\ "ended" \notin events
          /\ auction' = Committed(p)
          /\ bids' = IF ActiveBids = {} THEN bids
                     ELSE [bids EXCEPT ![HighestActive].status = "WON"]
          /\ events' = events \cup {"ended"}
          /\ Finish(p)
          /\ UNCHANGED <<product, orders>>

-----------------------------------------------------------------------------
(* expireWinnerCheckout and checkoutWinner *)

ExpireStart(p, r) ==
    /\ r.op = "expire"
    /\ auction.status = "SOLD"
    /\ auction.expiresAt # 0 /\ auction.expiresAt =< now
    /\ Begin(p, r, "expireClaim")
    /\ UNCHANGED locks

\* Mutant: the expiry does not look for an order.
ExpiryClaimsAnyway(p) ==
    /\ auction.status = "SOLD"
    /\ auction.winner = seen[p].winner
    /\ auction.expiresAt = seen[p].expiresAt

\* claimCheckoutExpiry
ExpiryClaims(p) ==
    /\ auction.status = "SOLD"
    /\ auction.winner = seen[p].winner
    /\ auction.expiresAt = seen[p].expiresAt
    /\ auction.order = None

ExpireClaim(p) ==
    /\ pc[p] = "expireClaim"
    /\ \/ ~ExpiryClaims(p) /\ Rollback(p)
       \/ /\ ExpiryClaims(p)
          /\ Claim(p, [auction EXCEPT !.status = "EXPIRED", !.winner = None, !.expiresAt = 0,
                                      !.version = @ + 1], "expireCommit")

ExpireCommit(p) ==
    /\ pc[p] = "expireCommit"
    /\ \/ "checkoutExpired" \in events /\ Rollback(p)
       \/ /\ "checkoutExpired" \notin events
          /\ auction' = Committed(p)
          /\ events' = events \cup {"checkoutExpired"}
          /\ Finish(p)
          /\ UNCHANGED <<product, bids, orders>>

CheckoutStart(p, r) ==
    /\ r.op = "checkout"
    /\ orders[r.key] = NoOrder
    /\ auction.order = None
    /\ auction.status = "SOLD" /\ auction.winner = r.user
    /\ now < auction.expiresAt
    /\ product.status = "ACTIVE" /\ ~product.archived
    /\ Begin(p, r, "checkoutProduct")
    /\ UNCHANGED locks

\* The product is written by id, whatever its status is by now, and the order
\* inserted; its payment's key is unique.
CheckoutProduct(p) ==
    /\ pc[p] = "checkoutProduct"
    /\ Free(p, "product")
    /\ \/ orders[call[p].key] # NoOrder /\ Rollback(p)
       \/ /\ orders[call[p].key] = NoOrder
          /\ locks' = [locks EXCEPT ![p] = @ \cup {"product"}]
          /\ Goto(p, "checkoutClaim")
          /\ UNCHANGED <<now, db, call, seen, next>>

\* Mutant: a lot is checked out again.
CheckoutClaimsAgain(p) ==
    /\ auction.status = "SOLD"
    /\ auction.winner = call[p].user
    /\ now < auction.expiresAt

\* claimWinnerCheckout
CheckoutClaims(p) ==
    /\ auction.status = "SOLD"
    /\ auction.winner = call[p].user
    /\ auction.order = None
    /\ now < auction.expiresAt

CheckoutClaim(p) ==
    /\ pc[p] = "checkoutClaim"
    /\ \/ ~CheckoutClaims(p) /\ Rollback(p)
       \/ /\ CheckoutClaims(p)
          /\ Claim(p, [auction EXCEPT !.order = call[p].key], "checkoutCommit")

\* The order's price is the one that was read first.
CheckoutCommit(p) ==
    /\ pc[p] = "checkoutCommit"
    /\ auction' = Committed(p)
    /\ product' = [product EXCEPT !.status = "SOLD"]
    /\ orders' = [orders EXCEPT ![call[p].key] =
                    [user |-> call[p].user, amount |-> seen[p].price]]
    /\ Finish(p)
    /\ UNCHANGED <<bids, events>>

-----------------------------------------------------------------------------
(* products.service.ts *)

\* remove claims the product, then cancels an auction that is not over.
ArchiveStart(p, r) ==
    /\ r.op = "archive"
    /\ ~product.archived
    /\ Free(p, "product")
    /\ Begin(p, r, "archiveAuction")
    /\ locks' = [locks EXCEPT ![p] = {"product"}]

ArchiveAuction(p) ==
    /\ pc[p] = "archiveAuction"
    /\ \/ /\ auction.status \notin {"DRAFT", "ACTIVE"}
          /\ Goto(p, "archiveCommit")
          /\ UNCHANGED <<now, db, call, seen, locks, next>>
       \/ /\ auction.status \in {"DRAFT", "ACTIVE"}
          /\ Claim(p, [auction EXCEPT !.status = "CANCELLED"], "archiveCommit")

ArchiveCommit(p) ==
    /\ pc[p] = "archiveCommit"
    /\ auction' = Committed(p)
    /\ product' = [status |-> "ARCHIVED", archived |-> TRUE]
    /\ Finish(p)
    /\ UNCHANGED <<bids, orders, events>>

\* approve claims the product, then activates an auction whose start has passed.
ApproveStart(p, r) ==
    /\ r.op = "approve"
    /\ product.status = "PENDING_APPROVAL" /\ ~product.archived
    /\ Free(p, "product")
    /\ Begin(p, r, "approveAuction")
    /\ locks' = [locks EXCEPT ![p] = {"product"}]

ApproveAuction(p) ==
    LET started == auction.status = "DRAFT" /\ StartsAt =< now
    IN  /\ pc[p] = "approveAuction"
        /\ \/ /\ ~started
              /\ Goto(p, "approveCommit")
              /\ UNCHANGED <<now, db, call, seen, locks, next>>
           \/ started /\ Claim(p, [auction EXCEPT !.status = "ACTIVE"], "approveCommit")

ApproveCommit(p) ==
    /\ pc[p] = "approveCommit"
    /\ auction' = Committed(p)
    /\ product' = [product EXCEPT !.status = "ACTIVE"]
    /\ Finish(p)
    /\ UNCHANGED <<bids, orders, events>>

\* submitForApproval, reject and restore change the product in one conditional
\* update.
SetProduct(row) ==
    /\ \A q \in Procs : "product" \notin locks[q]
    /\ product' = row
    /\ UNCHANGED <<now, auction, bids, orders, events, tx>>

Submit ==
    /\ product.status = "DRAFT" /\ ~product.archived
    /\ SetProduct([product EXCEPT !.status = "PENDING_APPROVAL"])

Reject ==
    /\ product.status = "PENDING_APPROVAL" /\ ~product.archived
    /\ SetProduct([product EXCEPT !.status = "REJECTED"])

Restore ==
    /\ product.archived
    /\ SetProduct([status |-> "DRAFT", archived |-> FALSE])

-----------------------------------------------------------------------------
\* A handler in flight fails: a crash, a lost connection, a timeout.
Abort(p) == pc[p] # "idle" /\ Rollback(p)

Start(p, r) ==
    \/ CreateStart(p, r)
    \/ StartStart(p, r)
    \/ BidStart(p, r)
    \/ EndStart(p, r)
    \/ ExpireStart(p, r)
    \/ CheckoutStart(p, r)
    \/ ArchiveStart(p, r)
    \/ ApproveStart(p, r)

Step(p) ==
    \/ CreateInsert(p)
    \/ StartProduct(p)
    \/ StartClaim(p)
    \/ StartCommit(p)
    \/ BidClaim(p)
    \/ BidCommit(p)
    \/ EndClaim(p)
    \/ EndCommit(p)
    \/ ExpireClaim(p)
    \/ ExpireCommit(p)
    \/ CheckoutProduct(p)
    \/ CheckoutClaim(p)
    \/ CheckoutCommit(p)
    \/ ArchiveAuction(p)
    \/ ArchiveCommit(p)
    \/ ApproveAuction(p)
    \/ ApproveCommit(p)
    \/ Abort(p)

Next ==
    \/ \E p \in Procs : (\E r \in Requests : Start(p, r)) \/ Step(p)
    \/ Submit
    \/ Reject
    \/ Restore
    \/ Tick

Spec == Init /\ [][Next]_vars

-----------------------------------------------------------------------------
(* Properties *)

Placed == {k \in Keys : bids[k].status # "NONE"}

\* Every accepted bid counts: the price is that of the highest bid, however bids,
\* the deadline and an archival interleave.
PriceIsHighestBid ==
    /\ \A k \in Placed : bids[k].amount =< auction.price
    /\ Placed # {} => \E k \in Placed : bids[k].amount = auction.price

\* Only the highest bid can lead or win.
OnlyHighestBidLeads ==
    \A k \in Placed : bids[k].status \in {"ACTIVE", "WON"} =>
        \A l \in Placed \ {k} : bids[l].amount < bids[k].amount /\ bids[l].status = "OUTBID"

\* A lot is sold to the bidder of the highest bid.
WinnerBidHighest ==
    /\ auction.status = "SOLD" => auction.winner # None
    /\ auction.winner # None =>
          \E k \in Placed : /\ bids[k].bidder = auction.winner
                            /\ bids[k].amount = auction.price
                            /\ bids[k].status = "WON"

\* A bid is accepted only by an auction that is open in the database when it
\* commits, and tops the price of that moment by the increment.
BidsTopThePrice ==
    [][\A k \in Keys : bids[k].status = "NONE" /\ bids'[k].status # "NONE" =>
          /\ auction.status = "ACTIVE"
          /\ bids'[k].amount >= auction.price + MinBidIncrement]_vars

\* A lot has one order at most, of its winner and at the winning price, whatever
\* keys the winner sends and whether the window expires meanwhile.
OneOrderOfTheWinner ==
    \A k \in Keys : orders[k] # NoOrder =>
        auction.order = k /\ orders[k] = [user |-> auction.winner, amount |-> auction.price]

\* Once the winner has checked out the expiry job does not take the lot away.
CheckoutIsKept ==
    [][auction.order # None =>
          auction'.order = auction.order /\ auction'.winner = auction.winner]_vars

-----------------------------------------------------------------------------
(* The lot without its concurrency *)

\* The bid that leads or has won.
Leading == {k \in Keys : bids[k].status \in {"ACTIVE", "WON"}}
Leader == IF Leading = {} THEN None ELSE bids[CHOOSE k \in Leading : TRUE].bidder

\* The order the lot points to.
Sale == IF auction.order = None THEN NoOrder ELSE orders[auction.order]

Lot == INSTANCE AuctionLot WITH
    status <- auction.status,
    price <- auction.price,
    leader <- Leader,
    decided <- "ended" \in events,
    winner <- auction.winner,
    sale <- Sale

\* Whatever the interleaving, the committed rows change as if bids, the end, the
\* release and the checkout of the lot happened one at a time, each at its commit:
\* the last bid accepted is the one that wins, a lot with bids does not expire at
\* its end, and nothing is bid once it is decided.
ImplementsLot == Lot!Spec

-----------------------------------------------------------------------------
(* The inductive invariant behind the properties *)

LocksAreExclusive == \A p, q \in Procs : p # q => locks[p] \cap locks[q] = {}

\* A commit that follows a claim holds the Auction row.
LocksOfStep(p) ==
    /\ pc[p] \in {"startCommit", "bidCommit", "endCommit", "expireCommit", "checkoutCommit"} =>
          "auction" \in locks[p]
    /\ "auction" \in locks[p] =>
          pc[p] \in {"startCommit", "bidCommit", "endCommit", "expireCommit", "checkoutCommit",
                     "archiveCommit", "approveCommit"}

CallOfStep(p) ==
    /\ pc[p] \in {"bidClaim", "bidCommit"} =>
          call[p] \in [op : {"bid"}, user : Users, amount : Amounts, key : Keys]
    /\ pc[p] \in {"checkoutProduct", "checkoutClaim", "checkoutCommit"} =>
          call[p] \in [op : {"checkout"}, user : Users, key : Keys]

\* What a transaction that holds the Auction row will leave in it, relative to the
\* committed row, which nobody else can change.
NextOfStep(p) ==
    "auction" \in locks[p] =>
        /\ pc[p] = "startCommit" => next[p] = [auction EXCEPT !.status = "ACTIVE"]
        /\ pc[p] = "bidCommit" =>
              /\ auction.status = "ACTIVE" /\ "ended" \notin events
              /\ call[p].amount >= MinimumBid(auction)
              /\ next[p] = [auction EXCEPT !.price = call[p].amount, !.version = @ + 1]
        /\ pc[p] = "endCommit" =>
              /\ auction.status = "ACTIVE"
              /\ next[p] = [Ended(auction) EXCEPT !.expiresAt = next[p].expiresAt]
        /\ pc[p] = "expireCommit" =>
              /\ auction.status = "SOLD" /\ auction.order = None
              /\ next[p] = [auction EXCEPT !.status = "EXPIRED", !.winner = None,
                                           !.expiresAt = 0, !.version = @ + 1]
        /\ pc[p] = "checkoutCommit" =>
              /\ auction.status = "SOLD" /\ auction.order = None
              /\ auction.winner = call[p].user
              /\ next[p] = [auction EXCEPT !.order = call[p].key]
        /\ pc[p] = "archiveCommit" =>
              /\ auction.status \in {"DRAFT", "ACTIVE"}
              /\ next[p] = [auction EXCEPT !.status = "CANCELLED"]
        /\ pc[p] = "approveCommit" =>
              /\ auction.status = "DRAFT"
              /\ next[p] = [auction EXCEPT !.status = "ACTIVE"]

\* What a transaction read is still good for: the version of an auction that has
\* ended is higher than any bidder has seen, its price does not change.
SeenOfStep(p) ==
    /\ seen[p].version =< auction.version
    /\ pc[p] \in {"startProduct", "startClaim", "startCommit"} => auction.status # "NONE"
    /\ pc[p] = "bidClaim" =>
          /\ call[p].amount >= MinimumBid(seen[p])
          /\ "ended" \in events => seen[p].version < auction.version
    /\ pc[p] \in {"endClaim", "endCommit"} => EndsAt =< now
    /\ pc[p] \in {"checkoutProduct", "checkoutClaim", "checkoutCommit"} =>
          seen[p].price = auction.price /\ "ended" \in events

HandlerInv(p) ==
    /\ LocksOfStep(p)
    /\ CallOfStep(p)
    /\ NextOfStep(p)
    /\ SeenOfStep(p)

\* Winners and orders come after the one commit that ends the auction.
EndedFirst ==
    /\ auction.winner # None \/ auction.order # None \/ (\E k \in Keys : bids[k].status = "WON")
          => "ended" \in events
    /\ "ended" \in events => EndsAt =< now
    /\ \A k \in Placed : bids[k].bidder # None

LotInv ==
    /\ EndedFirst
    /\ PriceIsHighestBid
    /\ OnlyHighestBidLeads
    /\ WinnerBidHighest
    /\ OneOrderOfTheWinner

IInv ==
    /\ TypeOK
    /\ LocksAreExclusive
    /\ \A p \in Procs : HandlerInv(p)
    /\ LotInv
=============================================================================
