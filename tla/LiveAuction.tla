---------------------------- MODULE LiveAuction ----------------------------
(***************************************************************************)
(* The page of a running auction (AuctionPage.tsx): it loads the auction,  *)
(* shows the user's bid before it is accepted and takes it back when it is *)
(* not, while others bid.                                                  *)
(***************************************************************************)
EXTENDS Sockets

CONSTANTS
    Loads,          \* requests of the page for the auction
    MaxPrice,       \* bound on the price
    MaxBids,        \* bound on the user's bids
    MaxLost         \* bound on requests that fail

ASSUME LiveAuctionAssumption == MaxPrice \in Nat \ {0} /\ MaxBids \in Nat /\ MaxLost \in Nat

VARIABLES
    price,      \* Auction.currentPrice
    prices,     \* the prices it has had
    shown,      \* the price on the page, 0 before the first load
    loading,    \* whether the page shows that it loads instead of the form
    load,       \* the page's requests for the auction
    bid,        \* the bid under way
    bids, lost  \* bids made, requests failed

auction == <<price, prices, shown, loading, load, bid, bids, lost>>

NoLoad == [at |-> "idle", price |-> 0]
NoBid == [at |-> "idle", amount |-> 0, previous |-> 0]

LiveAuctionTypeOK ==
    /\ price \in 1..MaxPrice /\ prices \subseteq 1..MaxPrice
    /\ shown \in 0..MaxPrice /\ loading \in BOOLEAN
    /\ load \in [Loads -> [at : {"idle", "asked", "read"}, price : 0..MaxPrice]]
    /\ bid \in [at : {"idle", "posted", "accepted", "refused"}, amount : 0..MaxPrice, previous : 0..MaxPrice]
    /\ bids \in 0..MaxBids /\ lost \in 0..MaxLost

LiveAuctionInit ==
    /\ price = 1 /\ prices = {1}
    /\ shown = 0 /\ loading = TRUE
    /\ load = [l \in Loads |-> IF l = OneOf(Loads) THEN [NoLoad EXCEPT !.at = "asked"] ELSE NoLoad]
    /\ bid = NoBid /\ bids = 0 /\ lost = 0

Lost == lost < MaxLost /\ lost' = lost + 1

IdleLoads == {l \in Loads : load[l] = NoLoad}

\* loadAuction
Reload(l) == load' = [load EXCEPT ![l].at = "asked"] /\ loading' = TRUE

ReadAuction(l) ==
    /\ load[l].at = "asked"
    /\ load' = [load EXCEPT ![l] = [at |-> "read", price |-> price]]
    /\ UNCHANGED <<sockets, price, prices, shown, loading, bid, bids, lost>>

ShowAuction(l) ==
    /\ load[l].at = "read"
    /\ load' = [load EXCEPT ![l] = NoLoad]
    /\ shown' = load[l].price /\ loading' = FALSE
    /\ UNCHANGED <<sockets, price, prices, bid, bids, lost>>

LoseAuction(l) ==
    /\ load[l].at # "idle" /\ Lost
    /\ load' = [load EXCEPT ![l] = NoLoad] /\ loading' = FALSE
    /\ UNCHANGED <<sockets, price, prices, shown, bid, bids>>

-----------------------------------------------------------------------------
(* Bids *)

\* claimAuctionVersion sets the price.
Raised(amount) ==
    /\ price' = amount /\ prices' = prices \cup {amount}
    /\ UNCHANGED sockets

\* emitBidUpdate to the room of the auction, some time after the commit of the bid: the
\* worker of its outbox row (Delivery).
EmitBid(amount) ==
    /\ amount \in prices \ {1}
    /\ Push(Bid(amount), auctionRoom)
    /\ UNCHANGED <<conn, connections, subscribing, seen, auction>>

\* Somebody else bids at least the price and the increment of 1.
Outbid(amount) ==
    /\ amount > price
    /\ Raised(amount)
    /\ UNCHANGED <<shown, loading, load, bid, bids, lost>>

\* placeBid shows the amount at once.
PlaceBid(amount) ==
    /\ bid.at = "idle" /\ ~loading /\ shown # 0 /\ bids < MaxBids
    /\ amount >= shown + 1
    /\ bids' = bids + 1
    /\ bid' = [at |-> "posted", amount |-> amount, previous |-> shown]
    /\ shown' = amount
    /\ UNCHANGED <<sockets, price, prices, loading, load, lost>>

Accept ==
    /\ bid.at = "posted" /\ bid.amount > price
    /\ Raised(bid.amount)
    /\ bid' = [bid EXCEPT !.at = "accepted"]
    /\ UNCHANGED <<shown, loading, load, bids, lost>>

Refuse ==
    /\ bid.at = "posted" /\ bid.amount =< price
    /\ bid' = [bid EXCEPT !.at = "refused"]
    /\ UNCHANGED <<sockets, price, prices, shown, loading, load, bids, lost>>

\* The request or its answer is lost: the page takes it for refused.
LoseBid ==
    /\ bid.at \in {"posted", "accepted"} /\ Lost
    /\ bid' = [bid EXCEPT !.at = "refused"]
    /\ UNCHANGED <<sockets, price, prices, shown, loading, load, bids>>

\* Mutant: nothing is taken back.
KeepsAmount == shown

\* The catch block: the price before, unless the page shows another by now.
RolledBack == IF shown = bid.amount THEN bid.previous ELSE shown

\* The answer of the bid; then the auction is loaded again.
FinishBid ==
    /\ bid.at \in {"accepted", "refused"}
    /\ shown' = IF bid.at = "refused" THEN RolledBack ELSE shown
    /\ bid' = NoBid
    /\ IdleLoads # {} /\ Reload(OneOf(IdleLoads))
    /\ UNCHANGED <<sockets, price, prices, bids, lost>>

-----------------------------------------------------------------------------

AuctionSteps ==
    \/ \E l \in Loads : ReadAuction(l) \/ ShowAuction(l) \/ LoseAuction(l)
    \/ \E amount \in 1..MaxPrice : Outbid(amount) \/ EmitBid(amount) \/ PlaceBid(amount)
    \/ Accept \/ Refuse \/ LoseBid \/ FinishBid

-----------------------------------------------------------------------------
(* Properties *)

\* Once a bid is answered the page shows a price the auction really has had, however
\* bids of others, lost answers and loads that were asked before overlap with it.
ShownPriceWasReal == bid.at = "idle" => shown \in prices \cup {0}
=============================================================================
