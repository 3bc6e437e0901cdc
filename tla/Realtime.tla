------------------------------ MODULE Realtime ------------------------------
(***************************************************************************)
(* The page of a signed-in user: its bell and the auction it shows share   *)
(* one socket, whose every connection makes both ask the server again.     *)
(***************************************************************************)
EXTENDS Notifications, LiveAuction

vars == <<sockets, notifications, auction>>

TypeOK == SocketsTypeOK /\ NotificationsTypeOK /\ LiveAuctionTypeOK

Init == SocketsInit /\ NotificationsInit /\ LiveAuctionInit

\* 'connect': the handlers of the socket, the bell and the page.
Connect ==
    /\ Connected
    /\ IdleLists # {} /\ Asked(OneOf(IdleLists))
    /\ IdleLoads # {} /\ Reload(OneOf(IdleLoads))
    /\ UNCHANGED <<queue, items, failures>>
    /\ UNCHANGED <<price, prices, shown, bid, bids, lost>>

SocketSteps ==
    \/ Connect
    \/ (Join \/ Disconnect \/ AskForRoom \/ Subscribe) /\ UNCHANGED <<notifications, auction>>

Next ==
    \/ SocketSteps
    \/ (QueueSteps \/ BellSteps) /\ UNCHANGED auction
    \/ AuctionSteps /\ UNCHANGED notifications

Spec == Init /\ [][Next]_vars

\* The dispatcher polls, workers take the jobs that wait, leases run out.
Fairness ==
    /\ \A e \in Events : WF_vars(Dispatch(e) /\ UNCHANGED auction)
    /\ \A e \in Events : WF_vars(Expire(e) /\ UNCHANGED auction)
    /\ \A w \in Workers : WF_vars(Work(w) /\ UNCHANGED auction)

FairSpec == Spec /\ Fairness

\* The types of the variables, and what a completed receipt promises.
IInv == TypeOK /\ CompletedMeansDelivered
=============================================================================
