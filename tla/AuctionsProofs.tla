--------------------------- MODULE AuctionsProofs ---------------------------
(* Theorems about Auctions, for every number of handlers, bidders and keys,  *)
(* every set of amounts and every clock.                                     *)
EXTENDS AuctionJobs, TLAPS

-----------------------------------------------------------------------------
(* What does not concern the handler that moves *)

\* A handler keeps its part of the invariant when another one moves: it holds the
\* Auction row, and then nobody else writes it, or it does not, and then only its
\* version, its price and the end of the auction matter to it.
LEMMA OthersKeep ==
    ASSUME IInv, TypeOK', NEW q \in Procs,
           pc'[q] = pc[q], call'[q] = call[q], seen'[q] = seen[q], locks'[q] = locks[q],
           next'[q] = next[q],
           now =< now',
           \/ "auction" \notin locks[q]
           \/ auction' = auction /\ bids' = bids /\ events' = events,
           events \subseteq events',
           auction.version =< auction'.version,
           "ended" \in events' => "ended" \in events \/ auction.version < auction'.version,
           "ended" \in events => auction'.price = auction.price,
           auction.status # "NONE" => auction'.status # "NONE"
    PROVE  HandlerInv(q)'
<1>1. HandlerInv(q)
  BY DEF IInv
<1>2. LocksOfStep(q)' /\ CallOfStep(q)'
  BY <1>1 DEF HandlerInv, LocksOfStep, CallOfStep
<1>3. NextOfStep(q)'
  <2>1. CASE "auction" \notin locks[q]
    BY <2>1 DEF NextOfStep
  <2>2. CASE auction' = auction /\ bids' = bids /\ events' = events
    <3>1. ActiveBids' = ActiveBids /\ HighestActive' = HighestActive
      BY <2>2 DEF ActiveBids, HighestActive
    <3>2. \A t : [Ended(auction) EXCEPT !.expiresAt = t]' = [Ended(auction) EXCEPT !.expiresAt = t]
      BY <2>2, <3>1 DEF Ended, IInv, TypeOK, AuctionRow
    <3>3. NextOfStep(q)
      BY <1>1 DEF HandlerInv
    <3>4. pc[q] = "endCommit" /\ "auction" \in locks[q] =>
              next[q] = [Ended(auction) EXCEPT !.expiresAt = next[q].expiresAt]'
      BY <3>2, <3>3 DEF NextOfStep
    <3>5. QED  BY <2>2, <3>3, <3>4 DEF NextOfStep, MinimumBid
  <2>3. QED  BY <2>1, <2>2
<1>4. SeenOfStep(q)'
  <2>1. /\ seen[q].version \in Nat /\ auction.version \in Nat /\ auction'.version \in Nat
        /\ now \in Nat /\ now' \in Nat /\ EndsAt \in Nat
    BY TimeAssumption DEF IInv, TypeOK, AuctionRow
  <2>2. SeenOfStep(q)
    BY <1>1 DEF HandlerInv
  <2>3. seen'[q].version =< auction'.version
    BY <2>1, <2>2 DEF SeenOfStep
  <2>4. pc[q] = "bidClaim" /\ "ended" \in events' => seen[q].version < auction'.version
    BY <2>1, <2>2 DEF SeenOfStep
  <2>5. pc[q] \in {"endClaim", "endCommit"} => EndsAt =< now'
    BY <2>1, <2>2 DEF SeenOfStep
  <2>6. pc[q] \in {"checkoutProduct", "checkoutClaim", "checkoutCommit"} =>
            seen[q].price = auction'.price /\ "ended" \in events'
    BY <2>2 DEF SeenOfStep
  <2>7. QED  BY <2>2, <2>3, <2>4, <2>5, <2>6 DEF SeenOfStep, MinimumBid
<1>5. QED  BY <1>2, <1>3, <1>4 DEF HandlerInv

\* A step that leaves the database alone.
LEMMA LocalStep ==
    ASSUME IInv, TypeOK', NEW p \in Procs, UNCHANGED <<now, db>>,
           \A q \in Procs \ {p} : /\ pc'[q] = pc[q] /\ call'[q] = call[q] /\ seen'[q] = seen[q]
                                  /\ locks'[q] = locks[q] /\ next'[q] = next[q],
           LocksAreExclusive', HandlerInv(p)'
    PROVE  IInv'
<1>1. now =< now' /\ auction.version =< auction'.version
  BY DEF IInv, TypeOK, AuctionRow, db
<1>2. \A q \in Procs \ {p} : HandlerInv(q)'
  BY <1>1, OthersKeep DEF db
<1>3. LotInv'
  BY DEF IInv, LotInv, EndedFirst, PriceIsHighestBid, OnlyHighestBidLeads, WinnerBidHighest,
         OneOrderOfTheWinner, Placed, db
<1>4. QED  BY <1>2, <1>3 DEF IInv

\* The first read of a transaction, perhaps with the claim of the product.
LEMMA BeginStep ==
    ASSUME IInv, NEW p \in Procs, NEW r \in Requests,
           NEW step \in {"createInsert", "startProduct", "bidClaim", "endClaim", "expireClaim",
                         "checkoutProduct", "archiveAuction", "approveAuction"},
           Begin(p, r, step),
           \/ UNCHANGED locks
           \/ Free(p, "product") /\ locks' = [locks EXCEPT ![p] = {"product"}],
           step = "startProduct" => auction.status # "NONE",
           step = "bidClaim" => /\ r \in [op : {"bid"}, user : Users, amount : Amounts, key : Keys]
                                /\ r.amount >= MinimumBid(auction)
                                /\ "ended" \notin events,
           step = "endClaim" => EndsAt =< now,
           step = "checkoutProduct" =>
               r \in [op : {"checkout"}, user : Users, key : Keys] /\ "ended" \in events
    PROVE  IInv'
<1>1. /\ pc[p] = "idle" /\ pc' = [pc EXCEPT ![p] = step]
      /\ call' = [call EXCEPT ![p] = r] /\ seen' = [seen EXCEPT ![p] = auction]
      /\ UNCHANGED <<now, db, next>>
  BY DEF Begin, Goto
<1>2. TypeOK'
  BY <1>1 DEF IInv, TypeOK, Steps, db
<1>3. "auction" \notin locks[p]
  BY <1>1 DEF IInv, HandlerInv, LocksOfStep
<1>4. "auction" \notin locks'[p] /\ \A q \in Procs \ {p} : locks'[q] = locks[q]
  BY <1>3 DEF IInv, TypeOK
<1>5. LocksAreExclusive'
  BY <1>3, <1>4 DEF IInv, TypeOK, LocksAreExclusive, Free
<1>6. pc'[p] = step /\ call'[p] = r /\ seen'[p] = auction
  BY <1>1 DEF IInv, TypeOK
<1>7. HandlerInv(p)'
  <2>1. LocksOfStep(p)' /\ CallOfStep(p)' /\ NextOfStep(p)'
    BY <1>4, <1>6 DEF LocksOfStep, CallOfStep, NextOfStep
  <2>2. auction.version =< auction.version
    BY DEF IInv, TypeOK, AuctionRow
  <2>3. SeenOfStep(p)'
    BY <1>1, <1>6, <2>2 DEF SeenOfStep, MinimumBid, db
  <2>4. QED  BY <2>1, <2>3 DEF HandlerInv
<1>8. \A q \in Procs \ {p} : /\ pc'[q] = pc[q] /\ call'[q] = call[q] /\ seen'[q] = seen[q]
                             /\ locks'[q] = locks[q] /\ next'[q] = next[q]
  BY <1>1, <1>4 DEF IInv, TypeOK
<1>9. QED  BY <1>1, <1>2, <1>5, <1>7, <1>8, LocalStep

\* The end of a request.
LEMMA FinishEffect ==
    ASSUME IInv, NEW p \in Procs, Finish(p)
    PROVE  /\ now' = now
           /\ pc' \in [Procs -> Steps] /\ call' \in [Procs -> Requests \cup {NoCall}]
           /\ seen' \in [Procs -> AuctionRow] /\ next' \in [Procs -> AuctionRow]
           /\ locks' \in [Procs -> SUBSET {"auction", "product"}]
           /\ \A q \in Procs \ {p} :
                 /\ pc'[q] = pc[q] /\ call'[q] = call[q] /\ seen'[q] = seen[q]
                 /\ locks'[q] = locks[q] /\ next'[q] = next[q]
           /\ LocksAreExclusive'
           /\ pc'[p] = "idle" /\ locks'[p] = {} /\ seen'[p] = NoAuction
<1>1. NoAuction \in AuctionRow
  BY PriceAssumption DEF NoAuction, AuctionRow, AuctionStatus
<1>2. LocksAreExclusive'
  BY DEF Finish, IInv, TypeOK, LocksAreExclusive
<1>3. QED  BY <1>1, <1>2 DEF Finish, IInv, TypeOK, Steps

\* A handler at rest holds no lock and has seen nothing.
LEMMA IdleInv ==
    ASSUME NEW p \in Procs, TypeOK', pc'[p] = "idle", locks'[p] = {}, seen'[p] = NoAuction
    PROVE  HandlerInv(p)'
<1>1. seen'[p].version = 0 /\ auction'.version \in Nat
  BY DEF NoAuction, TypeOK, AuctionRow
<1>2. QED  BY <1>1 DEF HandlerInv, LocksOfStep, CallOfStep, NextOfStep, SeenOfStep

\* A transaction that is rolled back leaves the rows as they were.
LEMMA RollbackStep ==
    ASSUME IInv, NEW p \in Procs, Rollback(p)
    PROVE  IInv'
<1>1. Finish(p) /\ UNCHANGED db
  BY DEF Rollback
<1>2. TypeOK'
  BY <1>1, FinishEffect DEF IInv, TypeOK, db
<1>3. QED  BY <1>1, <1>2, FinishEffect, IdleInv, LocalStep

\* The claim of the Auction row.
LEMMA ClaimStep ==
    ASSUME IInv, NEW p \in Procs, NEW chosen \in AuctionRow,
           NEW step \in {"startCommit", "bidCommit", "endCommit", "expireCommit",
                         "checkoutCommit", "archiveCommit", "approveCommit"},
           Claim(p, chosen, step),
           step \in {"bidCommit", "checkoutCommit"} => CallOfStep(p)',
           next'[p] = chosen => NextOfStep(p)' /\ SeenOfStep(p)'
    PROVE  IInv'
<1>1. /\ Free(p, "auction") /\ locks' = [locks EXCEPT ![p] = @ \cup {"auction"}]
      /\ next' = [next EXCEPT ![p] = chosen] /\ pc' = [pc EXCEPT ![p] = step]
      /\ UNCHANGED <<now, db, call, seen>>
  BY DEF Claim, Goto
<1>2. TypeOK'
  BY <1>1 DEF IInv, TypeOK, Steps, db
<1>3. LocksAreExclusive'
  BY <1>1 DEF IInv, TypeOK, LocksAreExclusive, Free
<1>4. pc'[p] = step /\ next'[p] = chosen /\ "auction" \in locks'[p]
  BY <1>1 DEF IInv, TypeOK
<1>5. HandlerInv(p)'
  BY <1>4 DEF HandlerInv, LocksOfStep, CallOfStep
<1>6. \A q \in Procs \ {p} : /\ pc'[q] = pc[q] /\ call'[q] = call[q] /\ seen'[q] = seen[q]
                             /\ locks'[q] = locks[q] /\ next'[q] = next[q]
  BY <1>1 DEF IInv, TypeOK
<1>7. QED  BY <1>1, <1>2, <1>3, <1>5, <1>6, LocalStep

\* A commit: of a transaction that holds the Auction row, that leaves it alone, or
\* that inserts it.
LEMMA CommitStep ==
    ASSUME IInv, NEW p \in Procs, Finish(p), LotInv',
           auction' \in AuctionRow, bids' \in [Keys -> BidRow], orders' \in [Keys -> OrderRow],
           product' \in [status : ProductStatus, archived : BOOLEAN],
           events' \in SUBSET {"started", "ended", "checkoutExpired"},
           \/ "auction" \in locks[p]
           \/ auction' = auction /\ bids' = bids /\ events' = events
           \/ auction.status = "NONE",
           events \subseteq events',
           auction.version =< auction'.version,
           "ended" \in events' => "ended" \in events \/ auction.version < auction'.version,
           "ended" \in events => auction'.price = auction.price,
           auction.status # "NONE" => auction'.status # "NONE"
    PROVE  IInv'
<1>1. TypeOK'
  BY FinishEffect DEF IInv, TypeOK
<1>2. HandlerInv(p)'
  BY <1>1, FinishEffect, IdleInv
<1>3. ASSUME NEW q \in Procs \ {p}
      PROVE  HandlerInv(q)'
  <2>1. CASE "auction" \in locks[p]
    <3>1. "auction" \notin locks[q]
      BY <2>1 DEF IInv, LocksAreExclusive
    <3>2. now =< now'
      BY FinishEffect DEF IInv, TypeOK
    <3>3. QED  BY <1>1, <3>1, <3>2, FinishEffect, OthersKeep
  <2>2. CASE auction' = auction /\ bids' = bids /\ events' = events
    <3>1. now =< now'
      BY FinishEffect DEF IInv, TypeOK
    <3>2. QED  BY <1>1, <2>2, <3>1, FinishEffect, OthersKeep
  <2>3. CASE auction.status = "NONE"
    <3>1. HandlerInv(q)
      BY DEF IInv
    <3>2. "auction" \notin locks[q]
      BY <2>3, <3>1 DEF HandlerInv, LocksOfStep, NextOfStep, SeenOfStep
    <3>3. now =< now'
      BY FinishEffect DEF IInv, TypeOK
    <3>4. QED  BY <1>1, <3>2, <3>3, FinishEffect, OthersKeep
  <2>4. QED  BY <2>1, <2>2, <2>3
<1>4. QED  BY <1>1, <1>2, <1>3, FinishEffect DEF IInv

-----------------------------------------------------------------------------
(* Steps that leave the database alone *)

\* A handler begins: it has read one version of the auction at most.
LEMMA StartStep ==
    ASSUME IInv, NEW p \in Procs, NEW r \in Requests, Start(p, r)
    PROVE  IInv'
<1> USE DEF Requests
<1>1. CASE CreateStart(p, r)
  BY <1>1, BeginStep DEF CreateStart
<1>2. CASE StartStart(p, r)
  BY <1>2, BeginStep DEF StartStart
<1>3. CASE BidStart(p, r)
  <2>1. r \in [op : {"bid"}, user : Users, amount : Amounts, key : Keys]
    BY <1>3 DEF BidStart
  <2>2. "ended" \notin events
    BY <1>3, TimeAssumption DEF BidStart, IInv, LotInv, EndedFirst, TypeOK
  <2>3. r.amount >= MinimumBid(auction) /\ Begin(p, r, "bidClaim") /\ UNCHANGED locks
    BY <1>3 DEF BidStart
  <2>4. QED  BY <2>1, <2>2, <2>3, BeginStep
<1>4. CASE EndStart(p, r)
  BY <1>4, BeginStep DEF EndStart
<1>5. CASE ExpireStart(p, r)
  BY <1>5, BeginStep DEF ExpireStart
<1>6. CASE CheckoutStart(p, r)
  <2>1. r \in [op : {"checkout"}, user : Users, key : Keys]
    BY <1>6 DEF CheckoutStart
  <2>2. "ended" \in events
    BY <1>6 DEF CheckoutStart, IInv, LotInv, EndedFirst, WinnerBidHighest
  <2>3. Begin(p, r, "checkoutProduct") /\ UNCHANGED locks
    BY <1>6 DEF CheckoutStart
  <2>4. QED  BY <2>1, <2>2, <2>3, BeginStep
<1>7. CASE ArchiveStart(p, r)
  BY <1>7, BeginStep DEF ArchiveStart
<1>8. CASE ApproveStart(p, r)
  BY <1>8, BeginStep DEF ApproveStart
<1>9. QED  BY <1>1, <1>2, <1>3, <1>4, <1>5, <1>6, <1>7, <1>8 DEF Start

\* A step that only moves on, with no claim of the Auction row before or after it.
LEMMA MoveStep ==
    ASSUME IInv, NEW p \in Procs,
           NEW step \in {"startClaim", "checkoutClaim", "archiveCommit", "approveCommit"},
           Goto(p, step), UNCHANGED <<now, db, call, seen, next>>,
           pc[p] \in {"startProduct", "checkoutProduct", "archiveAuction", "approveAuction"},
           step = "startClaim" => pc[p] = "startProduct",
           step = "checkoutClaim" => pc[p] = "checkoutProduct",
           \/ UNCHANGED locks
           \/ Free(p, "product") /\ locks' = [locks EXCEPT ![p] = @ \cup {"product"}]
    PROVE  IInv'
<1>1. TypeOK'
  BY DEF IInv, TypeOK, Goto, Steps, db
<1>2. HandlerInv(p)
  BY DEF IInv
<1>3. "auction" \notin locks[p]
  BY <1>2 DEF HandlerInv, LocksOfStep
<1>4. "auction" \notin locks'[p] /\ \A q \in Procs \ {p} : locks'[q] = locks[q]
  BY <1>3 DEF IInv, TypeOK
<1>5. LocksAreExclusive'
  BY DEF IInv, TypeOK, LocksAreExclusive, Free
<1>6. pc'[p] = step
  BY DEF IInv, TypeOK, Goto
<1>7. HandlerInv(p)'
  BY <1>2, <1>4, <1>6
     DEF HandlerInv, LocksOfStep, CallOfStep, NextOfStep, SeenOfStep, MinimumBid, db
<1>8. \A q \in Procs \ {p} : /\ pc'[q] = pc[q] /\ call'[q] = call[q] /\ seen'[q] = seen[q]
                             /\ locks'[q] = locks[q] /\ next'[q] = next[q]
  BY <1>4 DEF IInv, TypeOK, Goto
<1>9. QED  BY <1>1, <1>5, <1>7, <1>8, LocalStep

\* The start job takes the product's row for the lot.
LEMMA StartProductStep == ASSUME IInv, NEW p \in Procs, StartProduct(p) PROVE IInv'
BY RollbackStep, MoveStep DEF StartProduct

\* The winner's checkout takes the product's row.
LEMMA CheckoutProductStep == ASSUME IInv, NEW p \in Procs, CheckoutProduct(p) PROVE IInv'
BY RollbackStep, MoveStep DEF CheckoutProduct

\* The leading bid is the only ACTIVE one.
LEMMA HighestActiveLeads ==
    ASSUME TypeOK, OnlyHighestBidLeads, ActiveBids # {}
    PROVE  /\ HighestActive \in Keys /\ bids[HighestActive].status = "ACTIVE"
           /\ ActiveBids = {HighestActive}
<1>1. PICK k \in Keys : bids[k].status = "ACTIVE"
  BY DEF ActiveBids
<1>2. ActiveBids = {k}
  BY <1>1 DEF ActiveBids, OnlyHighestBidLeads, Placed
<1>3. bids[k].amount =< bids[k].amount
  BY <1>1 DEF TypeOK, BidRow
<1>4. HighestActive = k
  BY <1>2, <1>3 DEF HighestActive
<1>5. QED  BY <1>1, <1>2, <1>4

\* Rows that handlers write.
LEMMA BidRowType ==
    ASSUME NEW chosen \in AuctionRow, NEW price \in Nat
    PROVE  [chosen EXCEPT !.price = price, !.version = @ + 1] \in AuctionRow
<1>1. chosen.version \in Nat /\ chosen.version + 1 \in Nat
  BY DEF AuctionRow
<1>2. QED  BY <1>1 DEF AuctionRow

\* The row an end, an expiry or a close writes is an auction's row.
LEMMA EndedRowType ==
    ASSUME NEW chosen \in AuctionRow, NEW status \in AuctionStatus,
           NEW winner \in Users \cup {None}, NEW expiresAt \in Nat
    PROVE  [chosen EXCEPT !.status = status, !.winner = winner, !.expiresAt = expiresAt,
                       !.version = @ + 1] \in AuctionRow
<1>1. chosen.version \in Nat /\ chosen.version + 1 \in Nat
  BY DEF AuctionRow
<1>2. QED  BY <1>1 DEF AuctionRow

\* An auction that ends, with or without a winner, is still a row.
LEMMA EndedType == ASSUME IInv PROVE Ended(auction) \in AuctionRow
<1>1. ActiveBids # {} => bids[HighestActive].bidder \in Users \cup {None}
  BY HighestActiveLeads DEF IInv, LotInv, TypeOK, BidRow
<1>2. auction \in AuctionRow /\ now + CheckoutWindow \in Nat
  BY TimeAssumption DEF IInv, TypeOK
<1> DEFINE status == IF ActiveBids = {} THEN "EXPIRED" ELSE "SOLD"
           winner == IF ActiveBids = {} THEN None ELSE bids[HighestActive].bidder
           expiresAt == IF ActiveBids = {} THEN 0 ELSE now + CheckoutWindow
<1>3. status \in AuctionStatus /\ winner \in Users \cup {None} /\ expiresAt \in Nat
  BY <1>1, <1>2 DEF AuctionStatus
<1>4. Ended(auction) = [auction EXCEPT !.status = status, !.winner = winner,
                                       !.expiresAt = expiresAt, !.version = @ + 1]
  BY DEF Ended
<1> HIDE DEF status, winner, expiresAt
<1>5. [auction EXCEPT !.status = status, !.winner = winner, !.expiresAt = expiresAt,
                      !.version = @ + 1] \in AuctionRow
  BY <1>2, <1>3, EndedRowType
<1>6. QED  BY <1>4, <1>5

\* The start job claims the auction's row.
LEMMA StartClaimStep == ASSUME IInv, NEW p \in Procs, StartClaim(p) PROVE IInv'
<1> DEFINE chosen == [auction EXCEPT !.status = "ACTIVE"]
<1>1. Claim(p, chosen, "startCommit") /\ pc[p] = "startClaim"
  BY DEF StartClaim
<1>2. chosen \in AuctionRow
  BY DEF IInv, TypeOK, AuctionRow, AuctionStatus
<1>3. pc'[p] = "startCommit" /\ UNCHANGED <<now, db, call, seen>>
  BY <1>1 DEF Claim, Goto, IInv, TypeOK
<1>4. SeenOfStep(p)'
  BY <1>1, <1>3 DEF IInv, HandlerInv, SeenOfStep, db
<1>5. next'[p] = chosen => NextOfStep(p)'
  BY <1>3 DEF NextOfStep, db
<1> HIDE DEF chosen
<1>6. QED  BY <1>1, <1>2, <1>4, <1>5, ClaimStep

\* A bid claims the row with the version it has read.
LEMMA BidClaimStep == ASSUME IInv, NEW p \in Procs, BidClaim(p) PROVE IInv'
<1>1. CASE ~BidClaims(p)
  BY <1>1, RollbackStep DEF BidClaim
<1>2. CASE BidClaims(p)
  <2> DEFINE chosen == [auction EXCEPT !.price = call[p].amount, !.version = @ + 1]
  <2>1. Claim(p, chosen, "bidCommit") /\ pc[p] = "bidClaim"
    BY <1>2 DEF BidClaim
  <2>2. /\ CallOfStep(p) /\ SeenOfStep(p)
        /\ auction \in AuctionRow /\ seen[p] \in AuctionRow
    BY DEF IInv, HandlerInv, TypeOK
  <2>3. call[p].amount \in Nat
    BY <2>1, <2>2, AmountsAssumption DEF CallOfStep
  <2>4. chosen \in AuctionRow
    BY <2>2, <2>3, BidRowType
  <2>5. pc'[p] = "bidCommit" /\ UNCHANGED <<now, db, call, seen>>
    BY <2>1 DEF Claim, Goto, IInv, TypeOK
  <2>6. SeenOfStep(p)' /\ CallOfStep(p)'
    BY <2>1, <2>2, <2>5 DEF SeenOfStep, CallOfStep, db
  <2>7. /\ auction.status = "ACTIVE" /\ "ended" \notin events
        /\ call[p].amount >= MinimumBid(auction)
    BY <1>2, <2>1, <2>2 DEF BidClaims, SeenOfStep, AuctionRow, MinimumBid
  <2>8. next'[p] = chosen => NextOfStep(p)'
    BY <2>5, <2>7 DEF NextOfStep, MinimumBid, db
  <2> HIDE DEF chosen
  <2>9. QED  BY <2>1, <2>4, <2>6, <2>8, ClaimStep
<1>3. QED  BY <1>1, <1>2

\* The end job claims the row.
LEMMA EndClaimStep == ASSUME IInv, NEW p \in Procs, EndClaim(p) PROVE IInv'
<1>1. CASE auction.status # "ACTIVE"
  BY <1>1, RollbackStep DEF EndClaim
<1>2. CASE auction.status = "ACTIVE"
  <2>1. Claim(p, Ended(auction), "endCommit") /\ pc[p] = "endClaim"
    BY <1>2 DEF EndClaim
  <2>2. pc'[p] = "endCommit" /\ UNCHANGED <<now, db, call, seen>>
    BY <2>1 DEF Claim, Goto, IInv, TypeOK
  <2>3. SeenOfStep(p)'
    BY <2>1, <2>2 DEF IInv, HandlerInv, SeenOfStep, db
  <2>4. Ended(auction)' = Ended(auction)
    BY <2>2 DEF Ended, ActiveBids, HighestActive, db
  <2>5. Ended(auction) = [Ended(auction) EXCEPT !.expiresAt = Ended(auction).expiresAt]
    BY EndedType DEF AuctionRow
  <2>6. next'[p] = Ended(auction) => NextOfStep(p)'
    BY <1>2, <2>2, <2>4, <2>5 DEF NextOfStep, db
  <2>7. QED  BY <2>1, <2>3, <2>6, EndedType, ClaimStep
<1>3. QED  BY <1>1, <1>2

\* The expiry job claims the row.
LEMMA ExpireClaimStep == ASSUME IInv, NEW p \in Procs, ExpireClaim(p) PROVE IInv'
<1>1. CASE ~ExpiryClaims(p)
  BY <1>1, RollbackStep DEF ExpireClaim
<1>2. CASE ExpiryClaims(p)
  <2> DEFINE chosen == [auction EXCEPT !.status = "EXPIRED", !.winner = None, !.expiresAt = 0,
                                    !.version = @ + 1]
  <2>1. Claim(p, chosen, "expireCommit") /\ pc[p] = "expireClaim"
    BY <1>2 DEF ExpireClaim
  <2>2. chosen \in AuctionRow
    <3>1. "EXPIRED" \in AuctionStatus /\ None \in Users \cup {None} /\ 0 \in Nat
      BY DEF AuctionStatus
    <3>2. QED  BY <3>1, EndedRowType DEF IInv, TypeOK
  <2>3. pc'[p] = "expireCommit" /\ UNCHANGED <<now, db, call, seen>>
    BY <2>1 DEF Claim, Goto, IInv, TypeOK
  <2>4. SeenOfStep(p)'
    BY <2>1, <2>3 DEF IInv, HandlerInv, SeenOfStep, db
  <2>5. next'[p] = chosen => NextOfStep(p)'
    BY <1>2, <2>3 DEF NextOfStep, ExpiryClaims, db
  <2> HIDE DEF chosen
  <2>6. QED  BY <2>1, <2>2, <2>4, <2>5, ClaimStep
<1>3. QED  BY <1>1, <1>2

\* The winner's checkout claims the row.
LEMMA CheckoutClaimStep == ASSUME IInv, NEW p \in Procs, CheckoutClaim(p) PROVE IInv'
<1>1. CASE ~CheckoutClaims(p)
  BY <1>1, RollbackStep DEF CheckoutClaim
<1>2. CASE CheckoutClaims(p)
  <2> DEFINE chosen == [auction EXCEPT !.order = call[p].key]
  <2>1. Claim(p, chosen, "checkoutCommit") /\ pc[p] = "checkoutClaim"
    BY <1>2 DEF CheckoutClaim
  <2>2. CallOfStep(p) /\ SeenOfStep(p) /\ auction \in AuctionRow
    BY DEF IInv, HandlerInv, TypeOK
  <2>3. chosen \in AuctionRow
    BY <2>1, <2>2 DEF AuctionRow, CallOfStep
  <2>4. pc'[p] = "checkoutCommit" /\ UNCHANGED <<now, db, call, seen>>
    BY <2>1 DEF Claim, Goto, IInv, TypeOK
  <2>5. SeenOfStep(p)' /\ CallOfStep(p)'
    BY <2>1, <2>2, <2>4 DEF SeenOfStep, CallOfStep, db
  <2>6. next'[p] = chosen => NextOfStep(p)'
    BY <1>2, <2>4 DEF NextOfStep, CheckoutClaims, db
  <2> HIDE DEF chosen
  <2>7. QED  BY <2>1, <2>3, <2>5, <2>6, ClaimStep
<1>3. QED  BY <1>1, <1>2

\* Archiving claims the auction's row after the product's.
LEMMA ArchiveAuctionStep == ASSUME IInv, NEW p \in Procs, ArchiveAuction(p) PROVE IInv'
<1>1. CASE auction.status \notin {"DRAFT", "ACTIVE"}
  BY <1>1, MoveStep DEF ArchiveAuction
<1>2. CASE auction.status \in {"DRAFT", "ACTIVE"}
  <2> DEFINE chosen == [auction EXCEPT !.status = "CANCELLED"]
  <2>1. Claim(p, chosen, "archiveCommit") /\ pc[p] = "archiveAuction"
    BY <1>2 DEF ArchiveAuction
  <2>2. chosen \in AuctionRow
    BY DEF IInv, TypeOK, AuctionRow, AuctionStatus
  <2>3. pc'[p] = "archiveCommit" /\ UNCHANGED <<now, db, call, seen>>
    BY <2>1 DEF Claim, Goto, IInv, TypeOK
  <2>4. SeenOfStep(p)'
    BY <2>1, <2>3 DEF IInv, HandlerInv, SeenOfStep, db
  <2>5. next'[p] = chosen => NextOfStep(p)'
    BY <1>2, <2>3 DEF NextOfStep, db
  <2> HIDE DEF chosen
  <2>6. QED  BY <2>1, <2>2, <2>4, <2>5, ClaimStep
<1>3. QED  BY <1>1, <1>2

\* The approval claims the auction's row after the product's.
LEMMA ApproveAuctionStep == ASSUME IInv, NEW p \in Procs, ApproveAuction(p) PROVE IInv'
<1>1. CASE ~(auction.status = "DRAFT" /\ StartsAt =< now)
  BY <1>1, MoveStep DEF ApproveAuction
<1>2. CASE auction.status = "DRAFT" /\ StartsAt =< now
  <2> DEFINE chosen == [auction EXCEPT !.status = "ACTIVE"]
  <2>1. Claim(p, chosen, "approveCommit") /\ pc[p] = "approveAuction"
    BY <1>2 DEF ApproveAuction
  <2>2. chosen \in AuctionRow
    BY DEF IInv, TypeOK, AuctionRow, AuctionStatus
  <2>3. pc'[p] = "approveCommit" /\ UNCHANGED <<now, db, call, seen>>
    BY <2>1 DEF Claim, Goto, IInv, TypeOK
  <2>4. SeenOfStep(p)'
    BY <2>1, <2>3 DEF IInv, HandlerInv, SeenOfStep, db
  <2>5. next'[p] = chosen => NextOfStep(p)'
    BY <1>2, <2>3 DEF NextOfStep, db
  <2> HIDE DEF chosen
  <2>6. QED  BY <2>1, <2>2, <2>4, <2>5, ClaimStep
<1>3. QED  BY <1>1, <1>2

-----------------------------------------------------------------------------
(* Commits *)

\* A commit that changes nothing but the status of the auction.
LEMMA StatusCommit ==
    ASSUME IInv, NEW p \in Procs, Finish(p), NEW status \in AuctionStatus \ {"NONE", "SOLD"},
           auction' = [auction EXCEPT !.status = status],
           \/ "auction" \in locks[p]
           \/ auction.status = "NONE",
           UNCHANGED <<bids, orders>>,
           product' \in [status : ProductStatus, archived : BOOLEAN],
           events' \in SUBSET {"started", "ended", "checkoutExpired"},
           events \subseteq events', "ended" \in events' => "ended" \in events
    PROVE  IInv'
<1>1. /\ auction' \in AuctionRow /\ auction'.status = status
      /\ auction'.price = auction.price /\ auction'.version = auction.version
      /\ auction'.winner = auction.winner /\ auction'.order = auction.order
  BY DEF IInv, TypeOK, AuctionRow
<1>2. now' = now /\ auction.version =< auction'.version
  BY <1>1, FinishEffect DEF IInv, TypeOK, AuctionRow
<1>3. LotInv'
  BY <1>1, <1>2 DEF IInv, LotInv, EndedFirst, PriceIsHighestBid, OnlyHighestBidLeads,
     WinnerBidHighest, OneOrderOfTheWinner, Placed
<1>4. bids' \in [Keys -> BidRow] /\ orders' \in [Keys -> OrderRow]
  BY DEF IInv, TypeOK
<1>5. QED  BY <1>1, <1>2, <1>3, <1>4, CommitStep

\* A commit that changes nothing but the product.
LEMMA ProductCommit ==
    ASSUME IInv, NEW p \in Procs, Finish(p), UNCHANGED <<auction, bids, orders, events>>,
           product' \in [status : ProductStatus, archived : BOOLEAN]
    PROVE  IInv'
<1>1. now' = now
  BY FinishEffect
<1>2. LotInv'
  BY <1>1 DEF IInv, LotInv, EndedFirst, PriceIsHighestBid, OnlyHighestBidLeads,
     WinnerBidHighest, OneOrderOfTheWinner, Placed
<1>3. auction.version =< auction'.version
  BY DEF IInv, TypeOK, AuctionRow
<1>4. QED  BY <1>2, <1>3, CommitStep DEF IInv, TypeOK

\* The auction of a product is inserted once.
LEMMA CreateInsertStep == ASSUME IInv, NEW p \in Procs, CreateInsert(p) PROVE IInv'
<1>1. CASE auction.status # "NONE"
  BY <1>1, RollbackStep DEF CreateInsert
<1>2. CASE auction.status = "NONE"
  <2>1. /\ auction' = [auction EXCEPT !.status = "DRAFT"] /\ Finish(p)
        /\ UNCHANGED <<product, bids, orders, events>>
    BY <1>2 DEF CreateInsert
  <2>2. "DRAFT" \in AuctionStatus \ {"NONE", "SOLD"}
    BY DEF AuctionStatus
  <2>3. QED  BY <1>2, <2>1, <2>2, StatusCommit DEF IInv, TypeOK
<1>3. QED  BY <1>1, <1>2

\* The auction opens.
LEMMA StartCommitStep == ASSUME IInv, NEW p \in Procs, StartCommit(p) PROVE IInv'
<1>1. CASE "started" \in events
  BY <1>1, RollbackStep DEF StartCommit
<1>2. CASE "started" \notin events
  <2>1. HandlerInv(p)
    BY DEF IInv
  <2>2. pc[p] = "startCommit" /\ "auction" \in locks[p]
    BY <2>1 DEF StartCommit, HandlerInv, LocksOfStep
  <2>3. /\ auction' = [auction EXCEPT !.status = "ACTIVE"] /\ Finish(p)
        /\ events' = events \cup {"started"} /\ UNCHANGED <<product, bids, orders>>
    BY <1>2, <2>1, <2>2 DEF StartCommit, Committed, HandlerInv, NextOfStep
  <2>4. "ACTIVE" \in AuctionStatus \ {"NONE", "SOLD"}
    BY DEF AuctionStatus
  <2>5. QED  BY <2>2, <2>3, <2>4, StatusCommit DEF IInv, TypeOK
<1>3. QED  BY <1>1, <1>2

\* The auction is cancelled with its product.
LEMMA ArchiveCommitStep == ASSUME IInv, NEW p \in Procs, ArchiveCommit(p) PROVE IInv'
<1>1. /\ pc[p] = "archiveCommit" /\ auction' = Committed(p) /\ Finish(p)
      /\ product' = [status |-> "ARCHIVED", archived |-> TRUE]
      /\ UNCHANGED <<bids, orders, events>>
  BY DEF ArchiveCommit
<1>2. product' \in [status : ProductStatus, archived : BOOLEAN]
  BY <1>1 DEF ProductStatus
<1>3. CASE "auction" \in locks[p]
  <2>1. auction' = [auction EXCEPT !.status = "CANCELLED"]
    BY <1>1, <1>3 DEF Committed, IInv, HandlerInv, NextOfStep
  <2>2. "CANCELLED" \in AuctionStatus \ {"NONE", "SOLD"}
    BY DEF AuctionStatus
  <2>3. QED  BY <1>1, <1>2, <1>3, <2>1, <2>2, StatusCommit DEF IInv, TypeOK
<1>4. CASE "auction" \notin locks[p]
  BY <1>1, <1>2, <1>4, ProductCommit DEF Committed
<1>5. QED  BY <1>3, <1>4

\* The auction opens, or waits, with its product.
LEMMA ApproveCommitStep == ASSUME IInv, NEW p \in Procs, ApproveCommit(p) PROVE IInv'
<1>1. /\ pc[p] = "approveCommit" /\ auction' = Committed(p) /\ Finish(p)
      /\ product' = [product EXCEPT !.status = "ACTIVE"]
      /\ UNCHANGED <<bids, orders, events>>
  BY DEF ApproveCommit
<1>2. product' \in [status : ProductStatus, archived : BOOLEAN]
  BY <1>1 DEF ProductStatus, IInv, TypeOK
<1>3. CASE "auction" \in locks[p]
  <2>1. auction' = [auction EXCEPT !.status = "ACTIVE"]
    BY <1>1, <1>3 DEF Committed, IInv, HandlerInv, NextOfStep
  <2>2. "ACTIVE" \in AuctionStatus \ {"NONE", "SOLD"}
    BY DEF AuctionStatus
  <2>3. QED  BY <1>1, <1>2, <1>3, <2>1, <2>2, StatusCommit DEF IInv, TypeOK
<1>4. CASE "auction" \notin locks[p]
  BY <1>1, <1>2, <1>4, ProductCommit DEF Committed
<1>5. QED  BY <1>3, <1>4

\* Before the end there is neither a winner nor an order.
LEMMA NotEnded ==
    ASSUME IInv, "ended" \notin events
    PROVE  /\ auction.winner = None /\ auction.order = None /\ auction.status # "SOLD"
           /\ \A k \in Keys : bids[k].status # "WON" /\ orders[k] = NoOrder
<1>1. auction.winner = None /\ auction.order = None /\ \A k \in Keys : bids[k].status # "WON"
  BY DEF IInv, LotInv, EndedFirst
<1>2. auction.status # "SOLD"
  BY <1>1 DEF IInv, LotInv, WinnerBidHighest
<1>3. \A k \in Keys : orders[k] = NoOrder
  BY <1>1, NoneAssumption DEF IInv, LotInv, OneOrderOfTheWinner
<1>4. QED  BY <1>1, <1>2, <1>3

\* What an accepted bid does.
LEMMA BidEffect ==
    ASSUME IInv, NEW p \in Procs, BidCommit(p), bids[call[p].key].status = "NONE"
    PROVE  /\ Finish(p) /\ "auction" \in locks[p] /\ UNCHANGED <<product, orders, events>>
           /\ auction.status = "ACTIVE" /\ "ended" \notin events
           /\ call[p] \in [op : {"bid"}, user : Users, amount : Amounts, key : Keys]
           /\ call[p].amount >= auction.price + MinBidIncrement
           /\ auction' = [auction EXCEPT !.price = call[p].amount, !.version = @ + 1]
           /\ \A l \in Keys \ {call[p].key} :
                 /\ bids'[l].bidder = bids[l].bidder /\ bids'[l].amount = bids[l].amount
                 /\ bids'[l].status = IF bids[l].status = "ACTIVE" THEN "OUTBID"
                                      ELSE bids[l].status
           /\ bids'[call[p].key] =
                 [bidder |-> call[p].user, amount |-> call[p].amount, status |-> "ACTIVE"]
           /\ bids' \in [Keys -> BidRow]
<1>1. /\ pc[p] = "bidCommit" /\ Finish(p) /\ UNCHANGED <<product, orders, events>>
      /\ auction' = Committed(p)
      /\ bids' = [ActiveOutbid EXCEPT ![call[p].key] =
                    [bidder |-> call[p].user, amount |-> call[p].amount, status |-> "ACTIVE"]]
  BY DEF BidCommit
<1>2. HandlerInv(p)
  BY DEF IInv
<1>3. "auction" \in locks[p] /\ CallOfStep(p) /\ NextOfStep(p)
  BY <1>1, <1>2 DEF HandlerInv, LocksOfStep
<1>4. call[p] \in [op : {"bid"}, user : Users, amount : Amounts, key : Keys]
  BY <1>1, <1>3 DEF CallOfStep
<1>5. /\ auction.status = "ACTIVE" /\ "ended" \notin events
      /\ call[p].amount >= auction.price + MinBidIncrement
      /\ auction' = [auction EXCEPT !.price = call[p].amount, !.version = @ + 1]
  BY <1>1, <1>3 DEF NextOfStep, MinimumBid, Committed
<1>6. ActiveOutbid \in [Keys -> BidRow]
  BY DEF ActiveOutbid, IInv, TypeOK, BidRow, BidStatus
<1>7. [bidder |-> call[p].user, amount |-> call[p].amount, status |-> "ACTIVE"] \in BidRow
  BY <1>4, AmountsAssumption DEF BidRow, BidStatus
<1>8. bids' \in [Keys -> BidRow]
  BY <1>1, <1>4, <1>6, <1>7
<1>9. \A l \in Keys \ {call[p].key} : bids'[l] = ActiveOutbid[l]
  BY <1>1, <1>4, <1>6
<1>10. \A l \in Keys : /\ ActiveOutbid[l].bidder = bids[l].bidder
                       /\ ActiveOutbid[l].amount = bids[l].amount
                       /\ ActiveOutbid[l].status = IF bids[l].status = "ACTIVE" THEN "OUTBID"
                                                   ELSE bids[l].status
  BY DEF ActiveOutbid, IInv, TypeOK, BidRow
<1>11. bids'[call[p].key] =
          [bidder |-> call[p].user, amount |-> call[p].amount, status |-> "ACTIVE"]
  BY <1>1, <1>4, <1>6
<1>12. QED  BY <1>1, <1>3, <1>4, <1>5, <1>8, <1>9, <1>10, <1>11

\* A bid outranks the one before it and is the price.
LEMMA BidCommitStep == ASSUME IInv, NEW p \in Procs, BidCommit(p) PROVE IInv'
<1>1. CASE bids[call[p].key].status # "NONE"
  BY <1>1, RollbackStep DEF BidCommit
<1>2. CASE bids[call[p].key].status = "NONE"
  <2> DEFINE r == call[p]
  <2>1. /\ Finish(p) /\ "auction" \in locks[p] /\ UNCHANGED <<product, orders, events>>
        /\ auction.status = "ACTIVE" /\ "ended" \notin events
        /\ r \in [op : {"bid"}, user : Users, amount : Amounts, key : Keys]
        /\ r.amount >= auction.price + MinBidIncrement
        /\ auction' = [auction EXCEPT !.price = r.amount, !.version = @ + 1]
        /\ \A l \in Keys \ {r.key} :
              /\ bids'[l].bidder = bids[l].bidder /\ bids'[l].amount = bids[l].amount
              /\ bids'[l].status = IF bids[l].status = "ACTIVE" THEN "OUTBID"
                                   ELSE bids[l].status
        /\ bids'[r.key] = [bidder |-> r.user, amount |-> r.amount, status |-> "ACTIVE"]
        /\ bids' \in [Keys -> BidRow]
    BY <1>2, BidEffect
  <2> HIDE DEF r
  <2>2. /\ r.key \in Keys /\ r.user \in Users /\ r.amount \in Nat
        /\ bids'[r.key].bidder = r.user /\ bids'[r.key].amount = r.amount
        /\ bids'[r.key].status = "ACTIVE"
    BY <2>1, AmountsAssumption
  <2>3. auction' \in AuctionRow
    BY <2>1, <2>2, BidRowType DEF IInv, TypeOK
  <2>4. /\ auction'.status = "ACTIVE" /\ auction'.price = r.amount
        /\ auction'.version = auction.version + 1
        /\ auction'.winner = None /\ auction'.order = None
    BY <2>1, NotEnded DEF IInv, TypeOK, AuctionRow
  <2>5. auction.price \in Nat /\ auction.version \in Nat /\ auction.price < r.amount
    <3>1. auction.price \in Nat /\ auction.version \in Nat
      BY DEF IInv, TypeOK, AuctionRow
    <3>2. r.amount >= auction.price + MinBidIncrement
      BY <2>1
    <3>3. QED  BY <2>2, <3>1, <3>2, PriceAssumption
  <2>6. \A l \in Keys : bids[l].amount \in Nat /\ bids[l].status # "WON"
    BY <2>1, NotEnded DEF IInv, TypeOK, BidRow
  <2>7. \A l \in Placed : bids[l].amount < r.amount
    BY <2>2, <2>5, <2>6 DEF IInv, LotInv, PriceIsHighestBid, Placed
  <2>8. r.key \in Placed' /\ Placed' \ {r.key} \subseteq Placed
    BY <2>1, <2>2 DEF Placed
  <2>9. PriceIsHighestBid'
    BY <2>1, <2>2, <2>4, <2>6, <2>7, <2>8 DEF PriceIsHighestBid, Placed
  <2>10. \A l \in Placed' \ {r.key} : bids'[l].status = "OUTBID" /\ bids'[l].amount < r.amount
    BY <2>1, <2>6, <2>7, <2>8 DEF Placed, IInv, TypeOK, BidRow, BidStatus
  <2>11. OnlyHighestBidLeads'
    BY <2>2, <2>10 DEF OnlyHighestBidLeads
  <2>12. WinnerBidHighest'
    BY <2>4 DEF WinnerBidHighest
  <2>13. OneOrderOfTheWinner'
    BY <2>1, NotEnded DEF OneOrderOfTheWinner
  <2>14. EndedFirst'
    <3>1. \A k \in Keys : bids'[k].status # "WON"
      BY <2>1, <2>2, <2>6
    <3>2. \A k \in Placed' : bids'[k].bidder # None
      BY <2>1, <2>2, <2>8, NoneAssumption DEF IInv, LotInv, EndedFirst, Placed
    <3>3. QED  BY <2>1, <2>4, <3>1, <3>2 DEF EndedFirst
  <2>15. LotInv'
    BY <2>9, <2>11, <2>12, <2>13, <2>14 DEF LotInv
  <2>16. orders' \in [Keys -> OrderRow]
    BY <2>1 DEF IInv, TypeOK
  <2>17. product' \in [status : ProductStatus, archived : BOOLEAN]
    BY <2>1 DEF IInv, TypeOK
  <2>18. QED
    BY <2>1, <2>3, <2>4, <2>5, <2>15, <2>16, <2>17, CommitStep DEF IInv, TypeOK
<1>3. QED  BY <1>1, <1>2

\* What the end of an auction does.
LEMMA EndEffect ==
    ASSUME IInv, NEW p \in Procs, EndCommit(p), "ended" \notin events
    PROVE  /\ Finish(p) /\ "auction" \in locks[p] /\ UNCHANGED <<product, orders>>
           /\ EndsAt =< now /\ events' = events \cup {"ended"}
           /\ auction' \in AuctionRow
           /\ auction'.status = IF ActiveBids = {} THEN "EXPIRED" ELSE "SOLD"
           /\ auction'.winner = IF ActiveBids = {} THEN None ELSE bids[HighestActive].bidder
           /\ auction'.price = auction.price /\ auction'.order = auction.order
           /\ auction'.version = auction.version + 1
           /\ bids' = IF ActiveBids = {} THEN bids
                      ELSE [bids EXCEPT ![HighestActive].status = "WON"]
<1>1. /\ pc[p] = "endCommit" /\ Finish(p) /\ UNCHANGED <<product, orders>>
      /\ events' = events \cup {"ended"} /\ auction' = Committed(p)
      /\ bids' = IF ActiveBids = {} THEN bids
                 ELSE [bids EXCEPT ![HighestActive].status = "WON"]
  BY DEF EndCommit
<1>2. HandlerInv(p)
  BY DEF IInv
<1>3. "auction" \in locks[p] /\ EndsAt =< now /\ auction' = next[p]
  BY <1>1, <1>2 DEF HandlerInv, LocksOfStep, SeenOfStep, Committed
<1>4. next[p] = [Ended(auction) EXCEPT !.expiresAt = next[p].expiresAt]
  BY <1>1, <1>2, <1>3 DEF HandlerInv, NextOfStep
<1>5. next[p] \in AuctionRow /\ Ended(auction) \in AuctionRow /\ auction \in AuctionRow
  BY EndedType DEF IInv, TypeOK
<1>6. /\ next[p].status = Ended(auction).status /\ next[p].winner = Ended(auction).winner
      /\ next[p].price = Ended(auction).price /\ next[p].order = Ended(auction).order
      /\ next[p].version = Ended(auction).version
  BY <1>4, <1>5 DEF AuctionRow
<1>7. /\ Ended(auction).status = IF ActiveBids = {} THEN "EXPIRED" ELSE "SOLD"
      /\ Ended(auction).winner = IF ActiveBids = {} THEN None ELSE bids[HighestActive].bidder
      /\ Ended(auction).price = auction.price /\ Ended(auction).order = auction.order
      /\ Ended(auction).version = auction.version + 1
  BY <1>5 DEF Ended, AuctionRow
<1>8. QED  BY <1>1, <1>3, <1>5, <1>6, <1>7

\* The end decides the winner, or none.
LEMMA EndCommitStep == ASSUME IInv, NEW p \in Procs, EndCommit(p) PROVE IInv'
<1>1. CASE "ended" \in events
  BY <1>1, RollbackStep DEF EndCommit
<1>2. CASE "ended" \notin events
  <2>1. /\ Finish(p) /\ "auction" \in locks[p] /\ UNCHANGED <<product, orders>>
        /\ EndsAt =< now /\ events' = events \cup {"ended"}
        /\ auction' \in AuctionRow
        /\ auction'.status = IF ActiveBids = {} THEN "EXPIRED" ELSE "SOLD"
        /\ auction'.winner = IF ActiveBids = {} THEN None ELSE bids[HighestActive].bidder
        /\ auction'.price = auction.price /\ auction'.order = auction.order
        /\ auction'.version = auction.version + 1
        /\ bids' = IF ActiveBids = {} THEN bids
                   ELSE [bids EXCEPT ![HighestActive].status = "WON"]
    BY <1>2, EndEffect
  <2>2. auction.order = None /\ \A k \in Keys : orders[k] = NoOrder
    BY <1>2, NotEnded
  <2>3. now' = now
    BY <2>1, FinishEffect
  <2>4. auction.version \in Nat /\ auction'.version \in Nat /\ auction.version < auction'.version
    BY <2>1 DEF IInv, TypeOK, AuctionRow
  <2>5. events' \in SUBSET {"started", "ended", "checkoutExpired"}
    BY <2>1 DEF IInv, TypeOK
  <2>6. OneOrderOfTheWinner'
    BY <2>1, <2>2 DEF OneOrderOfTheWinner
  <2>7. bids' \in [Keys -> BidRow] /\ LotInv'
    <3>1. CASE ActiveBids = {}
      <4>1. bids' = bids /\ auction'.status = "EXPIRED" /\ auction'.winner = None
        BY <2>1, <3>1
      <4>2. QED
        BY <2>1, <2>3, <2>6, <4>1
           DEF IInv, LotInv, EndedFirst, PriceIsHighestBid, OnlyHighestBidLeads,
               WinnerBidHighest, Placed, TypeOK
    <3>2. CASE ActiveBids # {}
      <4> DEFINE won == HighestActive
      <4>1. won \in Keys /\ bids[won].status = "ACTIVE"
        BY <3>2, HighestActiveLeads DEF IInv, LotInv
      <4>2. /\ auction'.status = "SOLD" /\ auction'.winner = bids[won].bidder
            /\ bids' = [bids EXCEPT ![won].status = "WON"]
        BY <2>1, <3>2
      <4> HIDE DEF won
      <4>3. /\ \A k \in Keys \ {won} : bids'[k] = bids[k]
            /\ bids'[won].status = "WON" /\ bids'[won].bidder = bids[won].bidder
            /\ bids'[won].amount = bids[won].amount
            /\ bids' \in [Keys -> BidRow]
        BY <4>1, <4>2 DEF IInv, TypeOK, BidRow, BidStatus
      <4>4. Placed' = Placed /\ won \in Placed
        BY <4>1, <4>3 DEF Placed
      <4>5. PriceIsHighestBid'
        BY <2>1, <4>1, <4>3, <4>4 DEF IInv, LotInv, PriceIsHighestBid, Placed
      <4>6. \A l \in Placed \ {won} : bids[l].amount < bids[won].amount /\ bids[l].status = "OUTBID"
        BY <4>1, <4>4 DEF IInv, LotInv, OnlyHighestBidLeads
      <4>7. OnlyHighestBidLeads'
        BY <4>1, <4>3, <4>4, <4>6 DEF OnlyHighestBidLeads, Placed
      <4>8. bids[won].amount = auction.price
        <5>1. PICK k \in Placed : bids[k].amount = auction.price
          BY <4>4 DEF IInv, LotInv, PriceIsHighestBid
        <5>2. bids[won].amount =< auction.price
          BY <4>4 DEF IInv, LotInv, PriceIsHighestBid
        <5>3. bids[won].amount \in Nat /\ auction.price \in Nat
          BY <4>1 DEF IInv, TypeOK, BidRow, AuctionRow
        <5>4. QED  BY <4>6, <5>1, <5>2, <5>3
      <4>9. bids[won].bidder # None
        BY <4>4 DEF IInv, LotInv, EndedFirst
      <4>10. WinnerBidHighest'
        BY <2>1, <4>2, <4>3, <4>4, <4>8, <4>9 DEF WinnerBidHighest
      <4>11. EndedFirst'
        BY <2>1, <2>3, <4>3, <4>4, <4>9 DEF IInv, LotInv, EndedFirst, Placed
      <4>12. QED  BY <2>6, <4>3, <4>5, <4>7, <4>10, <4>11 DEF LotInv
    <3>3. QED  BY <3>1, <3>2
  <2>8. /\ orders' \in [Keys -> OrderRow]
        /\ product' \in [status : ProductStatus, archived : BOOLEAN]
    BY <2>1 DEF IInv, TypeOK
  <2>9. auction'.status # "NONE" /\ auction.version =< auction'.version
    BY <2>1, <2>4
  <2>10. QED  BY <1>2, <2>1, <2>4, <2>5, <2>7, <2>8, <2>9, CommitStep
<1>3. QED  BY <1>1, <1>2

\* The win that was not paid for expires and releases the product.
LEMMA ExpireCommitStep == ASSUME IInv, NEW p \in Procs, ExpireCommit(p) PROVE IInv'
<1>1. CASE "checkoutExpired" \in events
  BY <1>1, RollbackStep DEF ExpireCommit
<1>2. CASE "checkoutExpired" \notin events
  <2>1. HandlerInv(p)
    BY DEF IInv
  <2>2. pc[p] = "expireCommit" /\ "auction" \in locks[p]
    BY <2>1 DEF ExpireCommit, HandlerInv, LocksOfStep
  <2>3. /\ auction' = [auction EXCEPT !.status = "EXPIRED", !.winner = None,
                                      !.expiresAt = 0, !.version = @ + 1]
        /\ auction.order = None
        /\ events' = events \cup {"checkoutExpired"} /\ Finish(p)
        /\ UNCHANGED <<product, bids, orders>>
    BY <1>2, <2>1, <2>2 DEF ExpireCommit, Committed, HandlerInv, NextOfStep
  <2>4. /\ auction'.status = "EXPIRED" /\ auction'.winner = None /\ auction'.order = None
        /\ auction'.price = auction.price /\ auction'.version = auction.version + 1
        /\ auction.version \in Nat
    BY <2>3 DEF IInv, TypeOK, AuctionRow
  <2>5. auction' \in AuctionRow
    <3>1. "EXPIRED" \in AuctionStatus /\ None \in Users \cup {None} /\ 0 \in Nat
      BY DEF AuctionStatus
    <3>2. QED  BY <2>3, <3>1, EndedRowType DEF IInv, TypeOK
  <2>6. \A k \in Keys : orders[k] = NoOrder
    BY <2>3, NoneAssumption DEF IInv, LotInv, OneOrderOfTheWinner
  <2>7. now' = now
    BY <2>3, FinishEffect
  <2>8. LotInv'
    BY <2>3, <2>4, <2>6, <2>7
       DEF IInv, LotInv, EndedFirst, PriceIsHighestBid, OnlyHighestBidLeads,
           WinnerBidHighest, OneOrderOfTheWinner, Placed
  <2>9. auction.version =< auction'.version
    BY <2>4
  <2>10. /\ bids' \in [Keys -> BidRow] /\ orders' \in [Keys -> OrderRow]
         /\ product' \in [status : ProductStatus, archived : BOOLEAN]
         /\ events' \in SUBSET {"started", "ended", "checkoutExpired"}
    BY <2>3 DEF IInv, TypeOK
  <2>11. QED  BY <2>2, <2>3, <2>4, <2>5, <2>8, <2>9, <2>10, CommitStep
<1>3. QED  BY <1>1, <1>2

\* What a checkout does.
LEMMA CheckoutEffect ==
    ASSUME IInv, NEW p \in Procs, CheckoutCommit(p)
    PROVE  /\ Finish(p) /\ "auction" \in locks[p] /\ UNCHANGED <<bids, events>>
           /\ product' = [product EXCEPT !.status = "SOLD"]
           /\ "ended" \in events
           /\ call[p].key \in Keys /\ call[p].user \in Users
           /\ auction.status = "SOLD" /\ auction.order = None /\ auction.winner = call[p].user
           /\ auction' = [auction EXCEPT !.order = call[p].key]
           /\ orders' = [orders EXCEPT ![call[p].key] =
                           [user |-> call[p].user, amount |-> auction.price]]
<1>1. /\ pc[p] = "checkoutCommit" /\ Finish(p) /\ UNCHANGED <<bids, events>>
      /\ auction' = Committed(p) /\ product' = [product EXCEPT !.status = "SOLD"]
      /\ orders' = [orders EXCEPT ![call[p].key] =
                      [user |-> call[p].user, amount |-> seen[p].price]]
  BY DEF CheckoutCommit
<1>2. HandlerInv(p)
  BY DEF IInv
<1>3. "auction" \in locks[p] /\ CallOfStep(p) /\ NextOfStep(p) /\ SeenOfStep(p)
  BY <1>1, <1>2 DEF HandlerInv, LocksOfStep
<1>4. call[p].key \in Keys /\ call[p].user \in Users
  BY <1>1, <1>3 DEF CallOfStep
<1>5. /\ auction.status = "SOLD" /\ auction.order = None /\ auction.winner = call[p].user
      /\ auction' = [auction EXCEPT !.order = call[p].key]
  BY <1>1, <1>3 DEF NextOfStep, Committed
<1>6. seen[p].price = auction.price /\ "ended" \in events
  BY <1>1, <1>3 DEF SeenOfStep
<1>7. QED  BY <1>1, <1>3, <1>4, <1>5, <1>6

\* The winner's order is made, once.
LEMMA CheckoutCommitStep == ASSUME IInv, NEW p \in Procs, CheckoutCommit(p) PROVE IInv'
<1> DEFINE k == call[p].key
           u == call[p].user
<1>1. /\ Finish(p) /\ "auction" \in locks[p] /\ UNCHANGED <<bids, events>>
      /\ product' = [product EXCEPT !.status = "SOLD"]
      /\ "ended" \in events
      /\ k \in Keys /\ u \in Users
      /\ auction.status = "SOLD" /\ auction.order = None /\ auction.winner = u
      /\ auction' = [auction EXCEPT !.order = k]
      /\ orders' = [orders EXCEPT ![k] = [user |-> u, amount |-> auction.price]]
  BY CheckoutEffect
<1> HIDE DEF k, u
<1>2. /\ auction' \in AuctionRow /\ auction'.status = "SOLD" /\ auction'.order = k
      /\ auction'.winner = u /\ auction'.price = auction.price
      /\ auction'.version = auction.version /\ auction.price \in Nat /\ auction.version \in Nat
  BY <1>1 DEF IInv, TypeOK, AuctionRow
<1>3. \A l \in Keys : orders[l] = NoOrder
  BY <1>1, NoneAssumption DEF IInv, LotInv, OneOrderOfTheWinner
<1>4. [user |-> u, amount |-> auction.price] \in OrderRow
  BY <1>1, <1>2 DEF OrderRow
<1>5. orders' \in [Keys -> OrderRow]
  BY <1>1, <1>4 DEF IInv, TypeOK
<1>6. /\ orders'[k] = [user |-> u, amount |-> auction.price]
      /\ \A l \in Keys \ {k} : orders'[l] = NoOrder
  BY <1>1, <1>3 DEF IInv, TypeOK
<1>7. OneOrderOfTheWinner'
  BY <1>2, <1>6 DEF OneOrderOfTheWinner
<1>8. now' = now
  BY <1>1, FinishEffect
<1>9. LotInv'
  BY <1>1, <1>2, <1>7, <1>8
     DEF IInv, LotInv, EndedFirst, PriceIsHighestBid, OnlyHighestBidLeads, WinnerBidHighest,
         Placed
<1>10. product' \in [status : ProductStatus, archived : BOOLEAN]
  BY <1>1 DEF IInv, TypeOK, ProductStatus
<1>11. auction.version =< auction'.version /\ auction'.status # "NONE"
  BY <1>2
<1>12. QED  BY <1>1, <1>2, <1>5, <1>9, <1>10, <1>11, CommitStep DEF IInv, TypeOK

-----------------------------------------------------------------------------
\* A step of a handler.
LEMMA HandlerStep == ASSUME IInv, NEW p \in Procs, Step(p) PROVE IInv'
BY CreateInsertStep, StartProductStep, StartClaimStep, StartCommitStep, BidClaimStep,
   BidCommitStep, EndClaimStep, EndCommitStep, ExpireClaimStep, ExpireCommitStep,
   CheckoutProductStep, CheckoutClaimStep, CheckoutCommitStep, ArchiveAuctionStep,
   ArchiveCommitStep, ApproveAuctionStep, ApproveCommitStep, RollbackStep
   DEF Step, Abort

\* Steps of no handler: the clock and the product's conditional updates.
LEMMA OtherStep ==
    ASSUME IInv, Tick \/ Submit \/ Reject \/ Restore
    PROVE  IInv'
<1>a. UNCHANGED <<auction, bids, orders, events, tx>>
  BY DEF Tick, Submit, Reject, Restore, SetProduct, db
<1>b. now \in Nat /\ now' \in Nat /\ now =< now'
  <2>1. now \in Nat
    BY DEF IInv, TypeOK
  <2>2. now' = now \/ now' = now + 1
    BY DEF Tick, Submit, Reject, Restore, SetProduct
  <2>3. QED  BY <2>1, <2>2
<1>c. product' \in [status : ProductStatus, archived : BOOLEAN]
  <2>1. product \in [status : ProductStatus, archived : BOOLEAN]
    BY DEF IInv, TypeOK
  <2>2. CASE Tick
    BY <2>1, <2>2 DEF Tick, db
  <2>3. CASE Submit
    <3>1. product' = [product EXCEPT !.status = "PENDING_APPROVAL"]
      BY <2>3 DEF Submit, SetProduct
    <3>2. QED  BY <2>1, <3>1 DEF ProductStatus
  <2>4. CASE Reject
    <3>1. product' = [product EXCEPT !.status = "REJECTED"]
      BY <2>4 DEF Reject, SetProduct
    <3>2. QED  BY <2>1, <3>1 DEF ProductStatus
  <2>5. CASE Restore
    <3>1. product' = [status |-> "DRAFT", archived |-> FALSE]
      BY <2>5 DEF Restore, SetProduct
    <3>2. QED  BY <3>1 DEF ProductStatus
  <2>6. QED  BY <2>2, <2>3, <2>4, <2>5
<1>1. /\ UNCHANGED <<auction, bids, orders, events, tx>> /\ now \in Nat /\ now' \in Nat
      /\ now =< now' /\ product' \in [status : ProductStatus, archived : BOOLEAN]
  BY <1>a, <1>b, <1>c
<1>2. TypeOK'
  BY <1>1 DEF IInv, TypeOK, tx
<1>3. auction.version =< auction'.version
  BY <1>1 DEF IInv, TypeOK, AuctionRow
<1>4. \A q \in Procs : HandlerInv(q)'
  BY <1>1, <1>2, <1>3, OthersKeep DEF tx
<1>5. LotInv'
  BY <1>1, TimeAssumption
     DEF IInv, LotInv, EndedFirst, PriceIsHighestBid, OnlyHighestBidLeads, WinnerBidHighest,
         OneOrderOfTheWinner, Placed
<1>6. LocksAreExclusive'
  BY <1>1 DEF IInv, LocksAreExclusive, tx
<1>7. QED  BY <1>2, <1>4, <1>5, <1>6 DEF IInv

\* A product without an auction.
LEMMA InitInv == Init => IInv
<1> SUFFICES ASSUME Init PROVE IInv
  OBVIOUS
<1>1. NoAuction \in AuctionRow /\ NoBid \in BidRow /\ NoOrder \in OrderRow
  BY PriceAssumption DEF NoAuction, NoBid, NoOrder, AuctionRow, BidRow, OrderRow,
     AuctionStatus, BidStatus
<1>2. TypeOK
  BY <1>1 DEF Init, TypeOK, ProductStatus, Steps
<1>3. auction = NoAuction /\ auction.winner = None /\ auction.order = None
      /\ auction.version = 0 /\ auction.status = "NONE"
  BY DEF Init, NoAuction
<1>4. \A p \in Procs : HandlerInv(p)
  BY <1>3 DEF Init, HandlerInv, LocksOfStep, CallOfStep, NextOfStep, SeenOfStep
<1>5. Placed = {} /\ \A k \in Keys : bids[k].status = "NONE" /\ orders[k] = NoOrder
  BY DEF Init, Placed, NoBid
<1>6. LotInv
  BY <1>3, <1>5 DEF Init, LotInv, EndedFirst, PriceIsHighestBid, OnlyHighestBidLeads,
     WinnerBidHighest, OneOrderOfTheWinner
<1>7. QED  BY <1>2, <1>4, <1>6 DEF Init, IInv, LocksAreExclusive

\* The invariant holds in every reachable state.
THEOREM Invariant == Spec => []IInv
<1>1. IInv /\ UNCHANGED vars => IInv'
  <2> SUFFICES ASSUME IInv, UNCHANGED vars PROVE IInv'
    OBVIOUS
  <2>1. TypeOK'
    BY DEF IInv, TypeOK, vars, db, tx
  <2>2. now =< now' /\ auction.version =< auction'.version
    BY DEF IInv, TypeOK, AuctionRow, vars, db, tx
  <2>3. \A q \in Procs : HandlerInv(q)'
    BY <2>1, <2>2, OthersKeep DEF vars, db, tx
  <2>4. LotInv' /\ LocksAreExclusive'
    BY DEF IInv, LotInv, EndedFirst, PriceIsHighestBid, OnlyHighestBidLeads,
       WinnerBidHighest, OneOrderOfTheWinner, Placed, LocksAreExclusive, vars, db, tx
  <2>5. QED  BY <2>1, <2>3, <2>4 DEF IInv
<1>2. IInv /\ [Next]_vars => IInv'
  BY <1>1, StartStep, HandlerStep, OtherStep DEF Next
<1>3. QED  BY <1>2, InitInv, PTL DEF Spec

\* Every reachable state is well typed.
THEOREM TypeCorrect == Spec => []TypeOK
BY Invariant, PTL DEF IInv

\* The price of a lot is its highest bid: no accepted bid is lost.
THEOREM PriceCorrect == Spec => []PriceIsHighestBid
BY Invariant, PTL DEF IInv, LotInv

\* At most one bid leads or has won, and it is higher than every other.
THEOREM LeaderCorrect == Spec => []OnlyHighestBidLeads
BY Invariant, PTL DEF IInv, LotInv

\* A lot is sold to the bidder of the highest bid.
THEOREM WinnerCorrect == Spec => []WinnerBidHighest
BY Invariant, PTL DEF IInv, LotInv

\* A lot has one order at most, of its winner and at the winning price.
THEOREM OneOrder == Spec => []OneOrderOfTheWinner
BY Invariant, PTL DEF IInv, LotInv

-----------------------------------------------------------------------------
(* What a step never does *)

\* The steps that write bids or the Auction row are the commits.
LEMMA Writers ==
    ASSUME Next
    PROVE  \/ UNCHANGED <<auction, bids, orders, events>>
           \/ \E p \in Procs :
                 \/ CreateInsert(p) \/ StartCommit(p) \/ BidCommit(p) \/ EndCommit(p)
                 \/ ExpireCommit(p) \/ CheckoutCommit(p) \/ ArchiveCommit(p) \/ ApproveCommit(p)
<1>1. ASSUME NEW p \in Procs, NEW r \in Requests, Start(p, r) PROVE UNCHANGED db
  BY <1>1 DEF Start, CreateStart, StartStart, BidStart, EndStart, ExpireStart, CheckoutStart,
     ArchiveStart, ApproveStart, Begin
<1>2. ASSUME NEW p \in Procs,
             \/ StartProduct(p) \/ StartClaim(p) \/ BidClaim(p) \/ EndClaim(p)
             \/ ExpireClaim(p) \/ CheckoutProduct(p) \/ CheckoutClaim(p)
             \/ ArchiveAuction(p) \/ ApproveAuction(p) \/ Abort(p)
      PROVE  UNCHANGED db
  BY <1>2 DEF StartProduct, StartClaim, BidClaim, EndClaim, ExpireClaim, CheckoutProduct,
     CheckoutClaim, ArchiveAuction, ApproveAuction, Abort, Rollback, Claim
<1>3. Submit \/ Reject \/ Restore \/ Tick => UNCHANGED <<auction, bids, orders, events>>
  BY DEF Submit, Reject, Restore, Tick, SetProduct, db
<1>4. QED  BY <1>1, <1>2, <1>3 DEF Next, Step, db

\* A bid that is accepted is on an open auction and tops the price by the increment.
LEMMA BidTops ==
    ASSUME IInv, Next, NEW k \in Keys, bids[k].status = "NONE", bids'[k].status # "NONE"
    PROVE  auction.status = "ACTIVE" /\ bids'[k].amount >= auction.price + MinBidIncrement
<1>1. PICK p \in Procs : BidCommit(p) \/ EndCommit(p)
  BY Writers DEF CreateInsert, StartCommit, ExpireCommit, CheckoutCommit, ArchiveCommit,
     ApproveCommit, Rollback, db
<1>2. CASE BidCommit(p)
  <2>1. bids[call[p].key].status = "NONE"
    BY <1>2 DEF BidCommit, Rollback, db
  <2>2. /\ call[p].key \in Keys /\ auction.status = "ACTIVE"
        /\ call[p].amount >= auction.price + MinBidIncrement
    BY <1>2, <2>1, BidEffect
  <2>3. \A l \in Keys \ {call[p].key} : bids[l].status = "NONE" => bids'[l].status = "NONE"
    BY <1>2, <2>1, BidEffect
  <2>4. k = call[p].key
    BY <2>3
  <2>5. bids'[k] = [bidder |-> call[p].user, amount |-> call[p].amount, status |-> "ACTIVE"]
    BY <1>2, <2>1, <2>4, BidEffect
  <2>6. QED  BY <2>2, <2>5
<1>3. CASE EndCommit(p)
  <2>1. "ended" \notin events
    BY <1>3 DEF EndCommit, Rollback, db
  <2>2. bids' = IF ActiveBids = {} THEN bids ELSE [bids EXCEPT ![HighestActive].status = "WON"]
    BY <1>3, <2>1, EndEffect
  <2>3. ActiveBids # {}
    BY <2>2
  <2>4. HighestActive \in Keys /\ bids[HighestActive].status = "ACTIVE"
    BY <2>3, HighestActiveLeads DEF IInv, LotInv
  <2>5. QED  BY <2>2, <2>3, <2>4 DEF IInv, TypeOK
<1>4. QED  BY <1>1, <1>2, <1>3

\* An order made for a lot, and who won it, are never replaced.
LEMMA CheckoutStays ==
    ASSUME IInv, Next, auction.order # None
    PROVE  auction'.order = auction.order /\ auction'.winner = auction.winner
<1>1. CASE UNCHANGED <<auction, bids>>
  BY <1>1
<1>2. ASSUME NEW p \in Procs,
             \/ CreateInsert(p) \/ StartCommit(p) \/ BidCommit(p) \/ EndCommit(p)
             \/ ExpireCommit(p) \/ CheckoutCommit(p) \/ ArchiveCommit(p) \/ ApproveCommit(p)
      PROVE  auction'.order = auction.order /\ auction'.winner = auction.winner
  <2>1. /\ LocksOfStep(p) /\ NextOfStep(p) /\ "ended" \in events
        /\ auction \in AuctionRow
    BY DEF IInv, HandlerInv, LotInv, EndedFirst, TypeOK
  <2>2. CASE CreateInsert(p)
    BY <2>1, <2>2 DEF CreateInsert, Rollback, db, AuctionRow
  <2>3. CASE StartCommit(p)
    BY <2>1, <2>3 DEF StartCommit, Rollback, db, AuctionRow, LocksOfStep, NextOfStep, Committed
  <2>4. CASE BidCommit(p)
    BY <2>1, <2>4 DEF BidCommit, Rollback, db, LocksOfStep, NextOfStep
  <2>5. CASE EndCommit(p)
    BY <2>1, <2>5 DEF EndCommit, Rollback, db
  <2>6. CASE ExpireCommit(p)
    BY <2>1, <2>6 DEF ExpireCommit, Rollback, db, LocksOfStep, NextOfStep
  <2>7. CASE CheckoutCommit(p)
    BY <2>1, <2>7 DEF CheckoutCommit, LocksOfStep, NextOfStep
  <2>8. CASE ArchiveCommit(p)
    BY <2>1, <2>8 DEF ArchiveCommit, AuctionRow, NextOfStep, Committed
  <2>9. CASE ApproveCommit(p)
    BY <2>1, <2>9 DEF ApproveCommit, AuctionRow, NextOfStep, Committed
  <2>10. QED
    BY <1>2, <2>2, <2>3, <2>4, <2>5, <2>6, <2>7, <2>8, <2>9
<1>3. QED  BY <1>1, <1>2, Writers

\* A bid is accepted only by an open auction and tops the price it finds there.
THEOREM BidsTop == Spec => BidsTopThePrice
<1>1. IInv /\ [Next]_vars =>
        [\A k \in Keys : bids[k].status = "NONE" /\ bids'[k].status # "NONE" =>
            /\ auction.status = "ACTIVE"
            /\ bids'[k].amount >= auction.price + MinBidIncrement]_vars
  BY BidTops
<1>2. QED  BY <1>1, Invariant, PTL DEF Spec, BidsTopThePrice

\* A lot that has been checked out keeps its order and its winner.
THEOREM CheckoutKept == Spec => CheckoutIsKept
<1>1. IInv /\ [Next]_vars =>
        [auction.order # None =>
            auction'.order = auction.order /\ auction'.winner = auction.winner]_vars
  BY CheckoutStays
<1>2. QED  BY <1>1, Invariant, PTL DEF Spec, CheckoutIsKept
-----------------------------------------------------------------------------
(* The lot implements its abstract specification *)

\* The choice from a singleton.
LEMMA OneLeads ==
    ASSUME NEW S, NEW k, S = {k}
    PROVE  (CHOOSE l \in S : TRUE) = k
BY Zenon

\* Whoever leads is the bidder of the one bid that leads.
LEMMA LeaderBid ==
    ASSUME IInv, NEW k \in Leading
    PROVE  Leading = {k} /\ Leader = bids[k].bidder /\ Leader # None
<1>1. k \in Placed /\ bids[k].status \in {"ACTIVE", "WON"}
  BY DEF Leading, Placed
<1>2. Leading = {k}
  BY <1>1 DEF Leading, Placed, IInv, LotInv, OnlyHighestBidLeads
<1>3. (CHOOSE l \in Leading : TRUE) = k
  BY <1>2, OneLeads
<1>4. Leader = bids[k].bidder
  BY <1>2, <1>3 DEF Leader
<1>5. QED  BY <1>1, <1>2, <1>4 DEF IInv, LotInv, EndedFirst

\* Steps that leave the rows of the lot alone, or change its status only.
LEMMA LotStutters ==
    ASSUME UNCHANGED <<auction, bids, orders, events>>
    PROVE  UNCHANGED Lot!lot
BY DEF Lot!lot, Leader, Leading, Sale

\* A step that writes only the status moves neither the price nor the lead.
LEMMA StatusOnly ==
    ASSUME IInv, NEW status, auction' = [auction EXCEPT !.status = status],
           UNCHANGED <<bids, orders>>, "ended" \in events' <=> "ended" \in events
    PROVE  /\ auction'.status = status
           /\ UNCHANGED <<auction.price, Leader, "ended" \in events, auction.winner, Sale>>
<1>1. /\ auction'.status = status /\ auction'.price = auction.price
      /\ auction'.winner = auction.winner /\ auction'.order = auction.order
  BY DEF IInv, TypeOK, AuctionRow
<1>2. Leader' = Leader /\ Sale' = Sale
  BY <1>1 DEF Leader, Leading, Sale
<1>3. QED  BY <1>1, <1>2

\* The insertion lists the lot.
LEMMA CreateInsertLists ==
    ASSUME IInv, NEW p \in Procs, CreateInsert(p) PROVE [Lot!Next]_Lot!lot
<1>1. CASE auction.status # "NONE"
  BY <1>1, LotStutters DEF CreateInsert, Rollback, db
<1>2. CASE auction.status = "NONE"
  BY <1>2, StatusOnly DEF CreateInsert, Lot!Next, Lot!List
<1>3. QED  BY <1>1, <1>2

\* The start opens it.
LEMMA StartCommitOpens ==
    ASSUME IInv, NEW p \in Procs, StartCommit(p) PROVE [Lot!Next]_Lot!lot
<1>1. CASE "started" \in events
  BY <1>1, LotStutters DEF StartCommit, Rollback, db
<1>2. CASE "started" \notin events
  <2>1. LocksOfStep(p) /\ NextOfStep(p) /\ SeenOfStep(p)
    BY DEF IInv, HandlerInv
  <2>2. auction' = [auction EXCEPT !.status = "ACTIVE"] /\ auction.status # "NONE"
    BY <1>2, <2>1 DEF StartCommit, Committed, LocksOfStep, NextOfStep, SeenOfStep
  <2>3. UNCHANGED <<bids, orders>> /\ ("ended" \in events' <=> "ended" \in events)
    BY <1>2 DEF StartCommit
  <2>4. QED  BY <2>2, <2>3, StatusOnly DEF Lot!Next, Lot!Open
<1>3. QED  BY <1>1, <1>2

\* Archiving cancels it.
LEMMA ArchiveCommitCancels ==
    ASSUME IInv, NEW p \in Procs, ArchiveCommit(p) PROVE [Lot!Next]_Lot!lot
<1>1. CASE "auction" \notin locks[p]
  BY <1>1, LotStutters DEF ArchiveCommit, Committed
<1>2. CASE "auction" \in locks[p]
  <2>1. NextOfStep(p)
    BY DEF IInv, HandlerInv
  <2>2. /\ auction.status \in {"DRAFT", "ACTIVE"}
        /\ auction' = [auction EXCEPT !.status = "CANCELLED"]
    BY <1>2, <2>1 DEF ArchiveCommit, Committed, NextOfStep
  <2>3. QED  BY <2>2, StatusOnly DEF ArchiveCommit, Lot!Next, Lot!Cancel
<1>3. QED  BY <1>1, <1>2

\* The approval may open it.
LEMMA ApproveCommitOpens ==
    ASSUME IInv, NEW p \in Procs, ApproveCommit(p) PROVE [Lot!Next]_Lot!lot
<1>1. CASE "auction" \notin locks[p]
  BY <1>1, LotStutters DEF ApproveCommit, Committed
<1>2. CASE "auction" \in locks[p]
  <2>1. NextOfStep(p)
    BY DEF IInv, HandlerInv
  <2>2. auction.status = "DRAFT" /\ auction' = [auction EXCEPT !.status = "ACTIVE"]
    BY <1>2, <2>1 DEF ApproveCommit, Committed, NextOfStep
  <2>3. QED  BY <2>2, StatusOnly DEF ApproveCommit, Lot!Next, Lot!Open
<1>3. QED  BY <1>1, <1>2

\* A bid's commit is a bid on the lot.
LEMMA BidCommitBids ==
    ASSUME IInv, NEW p \in Procs, BidCommit(p) PROVE [Lot!Next]_Lot!lot
<1>1. CASE bids[call[p].key].status # "NONE"
  BY <1>1, LotStutters DEF BidCommit, Rollback, db
<1>2. CASE bids[call[p].key].status = "NONE"
  <2> DEFINE r == call[p]
  <2>1. /\ UNCHANGED <<orders, events>>
        /\ auction.status = "ACTIVE" /\ "ended" \notin events
        /\ r \in [op : {"bid"}, user : Users, amount : Amounts, key : Keys]
        /\ r.amount >= auction.price + MinBidIncrement
        /\ auction' = [auction EXCEPT !.price = r.amount, !.version = @ + 1]
        /\ \A l \in Keys \ {r.key} :
              bids'[l].status = IF bids[l].status = "ACTIVE" THEN "OUTBID" ELSE bids[l].status
        /\ bids'[r.key] = [bidder |-> r.user, amount |-> r.amount, status |-> "ACTIVE"]
    BY <1>2, BidEffect
  <2> HIDE DEF r
  <2>2. r.key \in Keys /\ r.user \in Users /\ r.amount \in Amounts
    BY <2>1
  <2>3. /\ auction'.status = auction.status /\ auction'.price = r.amount
        /\ auction'.winner = auction.winner /\ auction'.order = auction.order
    BY <2>1 DEF IInv, TypeOK, AuctionRow
  <2>4. Sale' = Sale
    BY <2>1, <2>3 DEF Sale
  <2>5. \A l \in Keys : bids[l].status # "WON"
    BY <2>1, NotEnded
  <2>6. Leading' = {r.key}
    BY <2>1, <2>2, <2>5 DEF Leading
  <2>7. Leader' = r.user
    BY <2>1, <2>6, OneLeads DEF Leader
  <2>8. Lot!Bid(r.user, r.amount)
    BY <2>1, <2>3, <2>4, <2>7 DEF Lot!Bid
  <2>9. QED  BY <2>2, <2>8 DEF Lot!Next
<1>3. QED  BY <1>1, <1>2

\* The end's commit decides it.
LEMMA EndCommitDecides ==
    ASSUME IInv, NEW p \in Procs, EndCommit(p) PROVE [Lot!Next]_Lot!lot
<1>1. CASE "ended" \in events
  BY <1>1, LotStutters DEF EndCommit, Rollback, db
<1>2. CASE "ended" \notin events
  <2>1. /\ UNCHANGED orders /\ events' = events \cup {"ended"}
        /\ auction'.status = IF ActiveBids = {} THEN "EXPIRED" ELSE "SOLD"
        /\ auction'.winner = IF ActiveBids = {} THEN None ELSE bids[HighestActive].bidder
        /\ auction'.price = auction.price /\ auction'.order = auction.order
        /\ bids' = IF ActiveBids = {} THEN bids
                   ELSE [bids EXCEPT ![HighestActive].status = "WON"]
    BY <1>2, EndEffect
  <2>2. auction.status = "ACTIVE"
    BY <1>2 DEF EndCommit, IInv, HandlerInv, LocksOfStep, NextOfStep
  <2>3. Leading = ActiveBids
    BY <1>2, NotEnded DEF Leading, ActiveBids
  <2>4. Sale' = Sale
    BY <2>1 DEF Sale
  <2>5. Leader' = Leader /\ auction'.winner = Leader /\ (Leader = None <=> ActiveBids = {})
    <3>1. CASE ActiveBids = {}
      BY <2>1, <2>3, <3>1 DEF Leader, Leading
    <3>2. CASE ActiveBids # {}
      <4> DEFINE won == HighestActive
      <4>1. won \in Leading /\ won \in Keys /\ bids[won].status = "ACTIVE"
        BY <2>3, <3>2, HighestActiveLeads DEF IInv, LotInv
      <4>2. auction'.winner = bids[won].bidder /\ bids' = [bids EXCEPT ![won].status = "WON"]
        BY <2>1, <3>2
      <4> HIDE DEF won
      <4>3. Leading = {won} /\ Leader = bids[won].bidder /\ Leader # None
        BY <4>1, LeaderBid
      <4>4. Leading' = {won} /\ bids'[won].bidder = bids[won].bidder
        BY <4>1, <4>2, <4>3 DEF Leading, IInv, TypeOK, BidRow
      <4>5. Leader' = bids[won].bidder
        BY <4>4, OneLeads DEF Leader
      <4>6. QED  BY <3>2, <4>2, <4>3, <4>5
    <3>3. QED  BY <3>1, <3>2
  <2>6. QED  BY <1>2, <2>1, <2>2, <2>4, <2>5 DEF Lot!Next, Lot!Decide
<1>3. QED  BY <1>1, <1>2

\* The expiry's commit releases it.
LEMMA ExpireCommitReleases ==
    ASSUME IInv, NEW p \in Procs, ExpireCommit(p) PROVE [Lot!Next]_Lot!lot
<1>1. CASE "checkoutExpired" \in events
  BY <1>1, LotStutters DEF ExpireCommit, Rollback, db
<1>2. CASE "checkoutExpired" \notin events
  <2>1. /\ auction' = [auction EXCEPT !.status = "EXPIRED", !.winner = None,
                                      !.expiresAt = 0, !.version = @ + 1]
        /\ auction.status = "SOLD" /\ auction.order = None
        /\ events' = events \cup {"checkoutExpired"} /\ UNCHANGED <<bids, orders>>
    BY <1>2 DEF ExpireCommit, Committed, IInv, HandlerInv, LocksOfStep, NextOfStep
  <2>2. /\ auction'.status = "EXPIRED" /\ auction'.winner = None /\ auction'.order = None
        /\ auction'.price = auction.price
    BY <2>1 DEF IInv, TypeOK, AuctionRow
  <2>3. Leader' = Leader /\ Sale = NoOrder /\ Sale' = NoOrder
    BY <2>1, <2>2 DEF Leader, Leading, Sale
  <2>4. QED
    BY <2>1, <2>2, <2>3 DEF Lot!Next, Lot!Release, Lot!NoSale, NoOrder
<1>3. QED  BY <1>1, <1>2

\* The winner's checkout sells it.
LEMMA CheckoutCommitSells ==
    ASSUME IInv, NEW p \in Procs, CheckoutCommit(p) PROVE [Lot!Next]_Lot!lot
<1> DEFINE k == call[p].key
<1>1. /\ UNCHANGED <<bids, events>> /\ k \in Keys
      /\ auction.status = "SOLD" /\ auction.order = None
      /\ auction' = [auction EXCEPT !.order = k]
      /\ orders' = [orders EXCEPT ![k] = [user |-> auction.winner, amount |-> auction.price]]
  BY CheckoutEffect
<1> HIDE DEF k
<1>2. /\ auction'.status = auction.status /\ auction'.winner = auction.winner
      /\ auction'.order = k /\ auction'.price = auction.price
  BY <1>1 DEF IInv, TypeOK, AuctionRow
<1>3. orders'[k] = [user |-> auction.winner, amount |-> auction.price] /\ k # None
  BY <1>1, NoneAssumption DEF IInv, TypeOK
<1>4. Leader' = Leader /\ Sale = NoOrder
      /\ Sale' = [user |-> auction.winner, amount |-> auction.price]
  BY <1>1, <1>2, <1>3 DEF Leader, Leading, Sale
<1>5. QED  BY <1>1, <1>2, <1>4 DEF Lot!Next, Lot!CheckOut, Lot!NoSale, NoOrder

\* The lot begins unlisted.
LEMMA LotInit == ASSUME Init PROVE Lot!Init
<1>1. auction = NoAuction /\ events = {} /\ \A k \in Keys : bids[k].status = "NONE"
  BY DEF Init, NoBid
<1>2. Leading = {}
  BY <1>1 DEF Leading
<1>3. Leader = None /\ Sale = NoOrder
  BY <1>1, <1>2 DEF Leader, Sale, NoAuction
<1>4. QED  BY <1>1, <1>3 DEF Lot!Init, Lot!NoSale, NoOrder, NoAuction

\* The rows of a lot change as if its operations were atomic: the last accepted bid
\* leads and wins, and nothing is bid after the end.
THEOREM LotImplemented == Spec => ImplementsLot
<1>1. Init => Lot!Init
  BY LotInit
<1>2. IInv /\ [Next]_vars => [Lot!Next]_Lot!lot
  <2>1. UNCHANGED vars => UNCHANGED Lot!lot
    BY LotStutters DEF vars, db
  <2>2. IInv /\ Next => [Lot!Next]_Lot!lot
    BY Writers, LotStutters, CreateInsertLists, StartCommitOpens, BidCommitBids,
       EndCommitDecides, ExpireCommitReleases, CheckoutCommitSells, ArchiveCommitCancels,
       ApproveCommitOpens
  <2>3. QED  BY <2>1, <2>2
<1>3. QED  BY <1>1, <1>2, Invariant, PTL DEF Spec, ImplementsLot, Lot!Spec

-----------------------------------------------------------------------------
(* The lot with its schedules implements the lot of Auctions: queue workers,  *)
(* retries, crashes and leases never make it take a step that the handlers    *)
(* alone cannot take, so every safety theorem of Auctions holds of it.        *)

\* A worker that is about to call the service has the row of one of its operations.
CallInv ==
    /\ DOMAIN running = Workers
    /\ \A w \in Workers : outcome[w] = "call" => O!Handled(w) \in Schedules
    /\ DOMAIN outcome = Workers

\* No worker calls a handler at first.
LEMMA CallInvInit == JobsInit => CallInv
BY DEF JobsInit, CallInv, O!OutboxInit

\* Clients leave the workers alone, the dispatcher too.
LEMMA WorkersKeep ==
    ASSUME CallInv, UNCHANGED <<running, outcome>>
    PROVE  CallInv'
BY DEF CallInv, O!Handled

\* A worker that takes a scheduled event calls its handler.
LEMMA TakeStep ==
    ASSUME CallInv, NEW w \in Workers, NEW j \in Schedules, TakeSchedule(w, j)
    PROVE  CallInv'
<1>1. CASE O!Take(w, j) /\ Outcome(w, "call")
  <2>1. running' = [running EXCEPT ![w] = [event |-> j, tries |-> job[j].tries]]
    BY <1>1 DEF O!Take
  <2>2. QED  BY <1>1, <2>1 DEF CallInv, Outcome, O!Handled
<1>2. CASE O!Skip(w, j) /\ UNCHANGED outcome
  BY <1>2, WorkersKeep DEF O!Skip
<1>3. QED  BY <1>1, <1>2 DEF TakeSchedule

\* A worker that stops calling.
LEMMA OutcomeStep ==
    ASSUME CallInv, NEW w \in Workers, NEW o, o # "call", Outcome(w, o),
           \/ UNCHANGED running
           \/ running' = [running EXCEPT ![w] = O!AtRest]
    PROVE  CallInv'
BY DEF CallInv, Outcome, O!Handled

\* A worker that is done, or dies, is at rest.
LEMMA LeaveEffect ==
    ASSUME NEW w \in Workers,
           (\E s, a : O!Leave(w, s, a)) \/ O!Crash(w)
    PROVE  running' = [running EXCEPT ![w] = O!AtRest]
BY DEF O!Leave, O!Crash

\* A worker calls one handler, for the event it has taken.
LEMMA CallInvStep == ASSUME CallInv, [JobsNext]_jobVars PROVE CallInv'
<1>1. CASE UNCHANGED jobVars
  BY <1>1, WorkersKeep DEF jobVars, jobs
<1>2. CASE Client
  BY <1>2, WorkersKeep DEF Client
<1>3. ASSUME NEW j \in Schedules, Dispatch(j) PROVE CallInv'
  BY <1>3, WorkersKeep DEF Dispatch, O!Redeliver, O!Enqueue
<1>4. ASSUME NEW w \in Workers, NEW j \in Schedules, TakeSchedule(w, j) PROVE CallInv'
  BY <1>4, TakeStep
<1>5. ASSUME NEW w \in Workers, Call(w) PROVE CallInv'
  <2>1. PICK o \in {"retry", "done", "wait"} : Outcome(w, o)
    BY <1>5 DEF Call
  <2>2. UNCHANGED running
    BY <1>5 DEF Call
  <2>3. QED  BY <2>1, <2>2, OutcomeStep
<1>6. ASSUME NEW w \in Workers, Report(w) PROVE CallInv'
  <2>1. \E s, a : O!Leave(w, s, a)
    BY <1>6 DEF Report, O!Succeed, O!Postpone, O!Fail
  <2>2. Outcome(w, "rest") /\ "rest" # "call"
    BY <1>6 DEF Report
  <2>3. QED  BY <2>1, <2>2, LeaveEffect, OutcomeStep
<1>7. ASSUME NEW w \in Workers, Continue(w) PROVE CallInv'
  <2>1. PICK o \in {"retry", "error", "done", "wait"} : Outcome(w, o)
    BY <1>7 DEF Continue, CallEnds
  <2>2. UNCHANGED running
    BY <1>7 DEF Continue
  <2>3. QED  BY <2>1, <2>2, OutcomeStep
<1>8. ASSUME NEW w \in Workers, CallFails(w) PROVE CallInv'
  <2>1. Outcome(w, "error") /\ UNCHANGED running /\ "error" # "call"
    BY <1>8 DEF CallFails
  <2>2. QED  BY <2>1, OutcomeStep
<1>9. ASSUME NEW w \in Workers, WorkerDies(w) PROVE CallInv'
  <2>1. Outcome(w, "rest") /\ O!Crash(w) /\ "rest" # "call"
    BY <1>9 DEF WorkerDies
  <2>2. QED  BY <2>1, LeaveEffect, OutcomeStep
<1>10. QED  BY <1>1, <1>2, <1>3, <1>4, <1>5, <1>6, <1>7, <1>8, <1>9 DEF JobsNext, Work

\* Every step of the lot with its schedules is a step of the lot, or leaves it alone.
LEMMA StepImplements == ASSUME CallInv, [JobsNext]_jobVars PROVE [Next]_vars
<1>1. CASE UNCHANGED jobVars
  BY <1>1 DEF jobVars
<1>2. CASE Client
  BY <1>2 DEF Client, Next, ClientRequests
<1>3. ASSUME NEW j \in Schedules, Dispatch(j) PROVE UNCHANGED vars
  BY <1>3 DEF Dispatch
<1>4. ASSUME NEW w \in Workers, NEW j \in Schedules, TakeSchedule(w, j) PROVE UNCHANGED vars
  BY <1>4 DEF TakeSchedule
<1>5. ASSUME NEW w \in Workers, Call(w) PROVE [Next]_vars
  <2>1. [op |-> O!Handled(w)] \in Requests
    BY <1>5 DEF Call, CallInv, Schedules, Requests
  <2>2. QED  BY <1>5, <2>1, WorkersAssumption DEF Call, Next
<1>6. ASSUME NEW w \in Workers, Report(w) PROVE UNCHANGED vars
  BY <1>6 DEF Report
<1>7. ASSUME NEW w \in Workers, Continue(w) PROVE [Next]_vars
  BY <1>7, WorkersAssumption DEF Continue, CallStep, Step, Next
<1>8. ASSUME NEW w \in Workers, CallFails(w) PROVE [Next]_vars
  BY <1>8, WorkersAssumption DEF CallFails, Abort, Step, Next
<1>9. ASSUME NEW w \in Workers, WorkerDies(w) PROVE [Next]_vars
  BY <1>9, WorkersAssumption DEF WorkerDies, Abort, Step, Next
<1>10. QED  BY <1>1, <1>2, <1>3, <1>4, <1>5, <1>6, <1>7, <1>8, <1>9 DEF JobsNext, Work

\* The lot with its schedules implements the lot.
THEOREM JobsImplementAuctions == JobsSpec => Spec
<1>1. JobsInit => Init /\ CallInv
  BY CallInvInit DEF JobsInit
<1>2. CallInv /\ [JobsNext]_jobVars => CallInv'
  BY CallInvStep
<1>3. CallInv /\ [JobsNext]_jobVars => [Next]_vars
  BY StepImplements
<1>4. QED  BY <1>1, <1>2, <1>3, PTL DEF JobsSpec, Spec

\* With its workers, too, a lot has one order at most, of its winner.
THEOREM JobsOneOrder == JobsSpec => []OneOrderOfTheWinner
BY JobsImplementAuctions, OneOrder

\* With its workers, too, the price is the highest bid.
THEOREM JobsPriceCorrect == JobsSpec => []PriceIsHighestBid
BY JobsImplementAuctions, PriceCorrect
-----------------------------------------------------------------------------
\* The rows of the schedules are well typed when two of them, or one, is inserted.
LEMMA SchedulesTyped ==
    ASSUME row \in [Schedules -> [status : O!RowStatus, attempts : Nat]]
    PROVE  WithSchedules \in [Schedules -> [status : O!RowStatus, attempts : Nat]]
BY DEF WithSchedules, RowsFor, O!RowStatus

\* The three rows, their jobs and the workers are well typed after a job is taken.
LEMMA TakeTyped ==
    ASSUME JobsTypeOK, NEW w \in Workers, NEW j \in Schedules, TakeSchedule(w, j)
    PROVE  JobsTypeOK'
<1> USE DEF JobsTypeOK, O!OutboxTypeOK
<1>1. CASE O!Take(w, j) /\ Outcome(w, "call")
  BY <1>1 DEF O!Take, Outcome, O!RowStatus
<1>2. CASE O!Skip(w, j) /\ UNCHANGED outcome
  BY <1>2 DEF O!Skip, O!NoJob
<1>3. QED  BY <1>1, <1>2 DEF TakeSchedule

\* So are they after a worker leaves its row.
LEMMA LeaveTyped ==
    ASSUME JobsTypeOK, NEW w \in Workers, NEW status \in O!RowStatus,
           NEW after \in [at : {"absent", "waiting", "failed"} \cup Workers, tries : Nat],
           O!Leave(w, status, after), UNCHANGED failures, Outcome(w, "rest")
    PROVE  JobsTypeOK'
<1> USE DEF JobsTypeOK, O!OutboxTypeOK
<1>1. O!Handled(w) \in Schedules
  BY DEF O!Leave, O!Handled
<1>2. row' \in [Schedules -> [status : O!RowStatus, attempts : Nat]]
  BY <1>1 DEF O!Leave
<1>3. job' \in [Schedules -> [at : {"absent", "waiting", "failed"} \cup Workers, tries : Nat]]
  BY <1>1 DEF O!Leave
<1>4. running' \in [Workers -> [event : Schedules \cup {None}, tries : Nat]]
  BY DEF O!Leave, O!AtRest
<1>5. outcome' \in [Workers -> {"rest", "call", "wait", "done", "retry", "error"}]
  BY DEF Outcome
<1>6. QED  BY <1>2, <1>3, <1>4, <1>5

\* A worker reports its outcome to the queue.
LEMMA ReportTyped ==
    ASSUME JobsTypeOK, NEW w \in Workers, Report(w)
    PROVE  JobsTypeOK'
<1>1. /\ {"PROCESSED", "PENDING"} \subseteq O!RowStatus
      /\ O!NoJob \in [at : {"absent", "waiting", "failed"} \cup Workers, tries : Nat]
      /\ O!GivenUp \in [at : {"absent", "waiting", "failed"} \cup Workers, tries : Nat]
  BY DEF O!RowStatus, O!NoJob, O!GivenUp
<1>2. CASE O!Succeed(w) /\ Outcome(w, "rest")
  BY <1>1, <1>2, LeaveTyped DEF O!Succeed
<1>3. CASE O!Postpone(w) /\ Outcome(w, "rest")
  BY <1>1, <1>3, LeaveTyped DEF O!Postpone
<1>4. CASE O!Fail(w) /\ UNCHANGED failures /\ Outcome(w, "rest")
  <2> DEFINE made == running[w].tries + 1
             after == IF made < JobAttempts THEN [at |-> "waiting", tries |-> made] ELSE O!GivenUp
  <2>1. made \in Nat
    BY DEF JobsTypeOK, O!OutboxTypeOK
  <2>2. after \in [at : {"absent", "waiting", "failed"} \cup Workers, tries : Nat]
    BY <1>1, <2>1
  <2>3. O!Leave(w, "PENDING", after)
    BY <1>4 DEF O!Fail
  <2> HIDE DEF after
  <2>4. QED  BY <1>1, <1>4, <2>2, <2>3, LeaveTyped
<1>5. QED  BY <1>2, <1>3, <1>4 DEF Report

\* A worker dies.
LEMMA DeathTyped ==
    ASSUME JobsTypeOK, NEW w \in Workers, WorkerDies(w)
    PROVE  JobsTypeOK'
<1> USE DEF JobsTypeOK, O!OutboxTypeOK
<1>1. O!Crash(w) /\ Outcome(w, "rest")
  BY DEF WorkerDies
<1>2. outcome' \in [Workers -> {"rest", "call", "wait", "done", "retry", "error"}]
  BY <1>1 DEF Outcome
<1>3. failures' \in Nat
  BY <1>1 DEF O!Crash, O!CountFailure
<1>4. running' \in [Workers -> [event : Schedules \cup {None}, tries : Nat]]
  BY <1>1 DEF O!Crash, O!AtRest
<1>5. job' \in [Schedules -> [at : {"absent", "waiting", "failed"} \cup Workers, tries : Nat]]
  <2>1. running[w].event \in Schedules
    BY <1>1 DEF O!Crash, O!Handled
  <2>2. \/ job' = [job EXCEPT ![running[w].event].at = "waiting"]
        \/ job' = [job EXCEPT ![running[w].event] = O!GivenUp]
        \/ job' = job
    BY <1>1 DEF O!Crash, O!Handled
  <2>3. CASE job' = [job EXCEPT ![running[w].event].at = "waiting"]
    BY <2>1, <2>3
  <2>4. CASE job' = [job EXCEPT ![running[w].event] = O!GivenUp]
    <3>1. O!GivenUp \in [at : {"absent", "waiting", "failed"} \cup Workers, tries : Nat]
      BY DEF O!GivenUp, O!NoJob
    <3>2. QED  BY <2>1, <2>4, <3>1
  <2>5. QED  BY <2>2, <2>3, <2>4
<1>6. row' = row
  BY <1>1 DEF O!Crash, O!Handled
<1>7. QED  BY <1>2, <1>3, <1>4, <1>5, <1>6

\* Whatever the step, the jobs are well typed.
LEMMA TypedStep == ASSUME JobsTypeOK, [JobsNext]_jobVars PROVE JobsTypeOK'
<1> USE DEF JobsTypeOK, O!OutboxTypeOK
<1>1. CASE UNCHANGED jobVars
  BY <1>1 DEF jobVars, jobs
<1>2. CASE Client
  BY <1>2, SchedulesTyped DEF Client
<1>3. ASSUME NEW j \in Schedules, Dispatch(j) PROVE JobsTypeOK'
  <2>1. CASE O!Redeliver(j)
    BY <1>3, <2>1 DEF O!Redeliver, O!RowStatus, Dispatch
  <2>2. CASE O!Enqueue(j)
    BY <1>3, <2>2 DEF O!Enqueue, Dispatch
  <2>3. QED  BY <1>3, <2>1, <2>2 DEF Dispatch
<1>4. ASSUME NEW w \in Workers, NEW j \in Schedules, TakeSchedule(w, j) PROVE JobsTypeOK'
  BY <1>4, TakeTyped
<1>5. ASSUME NEW w \in Workers, Call(w) PROVE JobsTypeOK'
  <2>1. PICK o \in {"retry", "done", "wait"} : Outcome(w, o)
    BY <1>5 DEF Call
  <2>2. UNCHANGED <<row, job, running, failures>>
    BY <1>5 DEF Call
  <2>3. QED  BY <2>1, <2>2 DEF Outcome
<1>6. ASSUME NEW w \in Workers, Report(w) PROVE JobsTypeOK'
  BY <1>6, ReportTyped
<1>7. ASSUME NEW w \in Workers, Continue(w) PROVE JobsTypeOK'
  <2>1. PICK o \in {"retry", "done", "error", "wait"} : Outcome(w, o)
    BY <1>7 DEF Continue, CallEnds
  <2>2. row' = WithSchedules /\ UNCHANGED <<job, running, failures>>
    BY <1>7 DEF Continue
  <2>3. QED  BY <2>1, <2>2, SchedulesTyped DEF Outcome
<1>8. ASSUME NEW w \in Workers, CallFails(w) PROVE JobsTypeOK'
  <2>1. Outcome(w, "error") /\ UNCHANGED <<row, job, running>> /\ failures' = failures + 1
    BY <1>8 DEF CallFails, O!CountFailure
  <2>2. QED  BY <2>1 DEF Outcome
<1>9. ASSUME NEW w \in Workers, WorkerDies(w) PROVE JobsTypeOK'
  BY <1>9, DeathTyped
<1>10. QED  BY <1>1, <1>2, <1>3, <1>4, <1>5, <1>6, <1>7, <1>8, <1>9 DEF JobsNext, Work

\* The schedule rows, their jobs and the workers are well typed in every reachable
\* state, for every number of workers, claims and failures.
THEOREM JobsTypeCorrect == JobsSpec => []JobsTypeOK
<1>1. JobsInit => JobsTypeOK
  BY
     DEF JobsInit, JobsTypeOK, O!OutboxInit, O!OutboxTypeOK, O!NoRow, O!NoJob, O!AtRest,
         O!RowStatus
<1>2. JobsTypeOK /\ [JobsNext]_jobVars => JobsTypeOK'
  BY TypedStep
<1>3. QED  BY <1>1, <1>2, PTL DEF JobsSpec
=============================================================================
