----------------------------- MODULE MCRealtime -----------------------------
(* Instances of Realtime for TLC.  The queue needs no socket, and the bell and *)
(* the auction share nothing else, so a behaviour watches one of the three.    *)
EXTENDS Realtime, TLC

CONSTANT other

VARIABLE watched

MCEvents == 1..2

\* An event of a customer and a seller, and a later one that concerns nobody.
MCTargets == [e \in Events |-> IF e = 1 THEN {Me, other} ELSE {}]

MCInit == Init /\ watched \in {"queue", "bell", "auction"}

MCNext ==
    /\ \/ watched # "queue" /\ SocketSteps
       \/ watched = "queue" /\ QueueSteps /\ UNCHANGED auction
       \/ watched = "bell" /\ (QueueSteps \/ BellSteps) /\ UNCHANGED auction /\ failures' =< 1
          /\ committed' \subseteq {1}
       \/ watched = "auction" /\ AuctionSteps /\ UNCHANGED notifications
    /\ UNCHANGED watched

MCSpec == MCInit /\ [][MCNext]_<<vars, watched>> /\ Fairness
=============================================================================
