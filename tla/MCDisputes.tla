----------------------------- MODULE MCDisputes -----------------------------
(* Instances of Disputes and Sellers for TLC: an administrator's two lists.  They *)
(* share no state, so a behaviour watches one of them.                           *)
EXTENDS Disputes, Sellers, TLC

CONSTANTS s1, s2, i1, i2

VARIABLE watched

MCSubOf == (i1 :> s1) @@ (i2 :> s2)
MCQuantity == (i1 :> 2) @@ (i2 :> 1)
MCPrice == [i \in Items |-> 1]
Symmetry == Permutations(Disputes) \cup Permutations(Keys) \cup Permutations(Calls)
            \cup Permutations(Requests) \cup Permutations(Moderators)

MCInit ==
    /\ Init /\ SellersInit
    /\ \/ watched = "disputes" /\ sellers = {} /\ standing = [c \in Customers |-> "NONE"]
       \/ watched = "sellers" /\ status = [s \in SubOrders |-> "SHIPPED"]

MCNext ==
    /\ \/ watched = "disputes" /\ Next /\ UNCHANGED sellersVars
       \/ watched = "sellers" /\ SellersNext /\ UNCHANGED vars
    /\ UNCHANGED watched

MCSpec == MCInit /\ [][MCNext]_<<vars, sellersVars, watched>>
=============================================================================
