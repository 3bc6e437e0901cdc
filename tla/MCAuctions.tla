----------------------------- MODULE MCAuctions -----------------------------
(* Model values and symmetry for the runs of Auctions. *)
EXTENDS Auctions, TLC

\* Handlers and keys are interchangeable, and so are bidders.
Symmetry == Permutations(Procs) \cup Permutations(Keys) \cup Permutations(Users)
=============================================================================
