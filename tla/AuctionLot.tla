----------------------------- MODULE AuctionLot -----------------------------
(***************************************************************************)
(* What an auction lot promises, with every operation atomic: no handlers, *)
(* no row locks, no versions, no keys, no clock.  Auctions is shown to     *)
(* implement it.                                                           *)
(***************************************************************************)
EXTENDS Integers

CONSTANTS Users, Amounts, StartingPrice, MinBidIncrement, None

VARIABLES
    status,     \* of the auction
    price,      \* what the next bid must top
    leader,     \* who bid last
    decided,    \* whether the auction has been ended
    winner,     \* who may check out
    sale        \* the order of the lot

lot == <<status, price, leader, decided, winner, sale>>

NoSale == [user |-> None, amount |-> 0]

Init ==
    /\ status = "NONE"
    /\ price = StartingPrice
    /\ leader = None
    /\ decided = FALSE
    /\ winner = None
    /\ sale = NoSale

List ==
    /\ status = "NONE"
    /\ status' = "DRAFT"
    /\ UNCHANGED <<price, leader, decided, winner, sale>>

\* A start that comes late opens whatever it finds, but nobody can bid then.
Open ==
    /\ status # "NONE"
    /\ status' = "ACTIVE"
    /\ UNCHANGED <<price, leader, decided, winner, sale>>

Bid(u, a) ==
    /\ status = "ACTIVE" /\ ~decided
    /\ a >= price + MinBidIncrement
    /\ price' = a
    /\ leader' = u
    /\ UNCHANGED <<status, decided, winner, sale>>

\* The last bidder wins; without bids the lot expires.
Decide ==
    /\ status = "ACTIVE" /\ ~decided
    /\ status' = IF leader = None THEN "EXPIRED" ELSE "SOLD"
    /\ winner' = leader
    /\ decided' = TRUE
    /\ UNCHANGED <<price, leader, sale>>

\* The winner has not checked out in time.
Release ==
    /\ status = "SOLD" /\ sale = NoSale
    /\ status' = "EXPIRED"
    /\ winner' = None
    /\ UNCHANGED <<price, leader, decided, sale>>

CheckOut ==
    /\ status = "SOLD" /\ sale = NoSale
    /\ sale' = [user |-> winner, amount |-> price]
    /\ UNCHANGED <<status, price, leader, decided, winner>>

Cancel ==
    /\ status \in {"DRAFT", "ACTIVE"}
    /\ status' = "CANCELLED"
    /\ UNCHANGED <<price, leader, decided, winner, sale>>

Next ==
    \/ List
    \/ Open
    \/ \E u \in Users, a \in Amounts : Bid(u, a)
    \/ Decide
    \/ Release
    \/ CheckOut
    \/ Cancel

Spec == Init /\ [][Next]_lot
=============================================================================
