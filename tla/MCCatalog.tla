----------------------------- MODULE MCCatalog -----------------------------
(* Instances of Catalog for TLC: the next writes of a product.  The keys and the *)
(* index share nothing but the product, so a behaviour watches one of them, and  *)
(* of the writes that are alike for the index it takes one.                      *)
EXTENDS Catalog

CONSTANT CacheWrites    \* writes in a behaviour that watches a key

VARIABLE watched

MCEvents == 1..3

MCInit ==
    /\ CatalogInit /\ status \in {"ABSENT", "ACTIVE"}
    /\ watched \in {"list", "search", "detail", "index"}

IndexWriting(e) ==
    \/ Create(e) \/ SubmitForApproval(e) \/ Moderate(e) \/ Update(e) \/ Remove(e) \/ RestoreArchived(e)
    \/ RefundItem(e) \/ SellLot(e)

KeySteps ==
    \/ \E e \in 1..CacheWrites : Writing(e)
    \/ \E e \in Writes : Invalidating(e)
    \/ \E r \in Readers :
          \/ watched = "list" /\ FindAll(r)
          \/ watched = "search" /\ Search(r)
          \/ watched = "detail" /\ FindOne(r)
          \/ Answer(r)
    \/ \E k \in Caches : Lapse(k)

MCNext ==
    /\ \/ watched # "index" /\ KeySteps
       \/ watched = "index" /\ (IndexSteps \/ \E e \in Writes : IndexWriting(e))
    /\ UNCHANGED watched

MCSpec == MCInit /\ [][MCNext]_<<catalogVars, watched>> /\ CacheFairness
=============================================================================
