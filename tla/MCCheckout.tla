----------------------------- MODULE MCCheckout -----------------------------
(* An instance of Checkout for TLC: every product has a seller of its own. *)
EXTENDS Checkout, TLC

MCSeller == [x \in Products |-> x]
Symmetry == Permutations(Users) \cup Permutations(Keys) \cup Permutations(Procs)
=============================================================================
