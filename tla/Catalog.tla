------------------------------ MODULE Catalog ------------------------------
(***************************************************************************)
(* One product as its readers see it: the writes that change its row or    *)
(* what is shown with it, the Redis copies of lists, details and searches  *)
(* that some of them invalidate after the commit (products.service.ts,     *)
(* reviews.service.ts, orders.service.ts, bidding.service.ts,              *)
(* categories.service.ts), and the Meilisearch document that the workers   *)
(* of the search queue keep from the outbox (search.dispatcher.ts,         *)
(* search.processor.ts, search.service.ts).                                *)
(*                                                                         *)
(* Committed writes are numbered: write e leaves version e, and inserts    *)
(* outbox row e if the search queue hears of it.  The product's type is    *)
(* left out, as an edit may change it.                                     *)
(***************************************************************************)
EXTENDS Outbox, FiniteSets

CONSTANTS
    Caches,     \* key patterns: a subset of "list", "search", "detail"
    Readers     \* requests that read through a cache

ASSUME CatalogAssumption ==
    /\ IsFiniteSet(Events) /\ Events = 1..Cardinality(Events)
    /\ Caches \subseteq {"list", "search", "detail"}
    /\ "start" \notin Workers

VARIABLES
    status,     \* Product.status
    version,    \* the last committed write
    action,     \* what each write asks of the index
    writer,     \* how many of its steps the request behind each write has done
    lists,      \* the key patterns each write invalidates
    found,      \* keys a writer's SCAN has returned
    failed,     \* writes whose invalidation met a Redis error
    entry,      \* cached copies
    reader,     \* what each reader has read from the database
    step, held, \* what a worker does next, and the product it has read
    receipts,   \* rows with a receipt of product-search
    starting,   \* the reindex of the starting application
    document,   \* version of the search document
    sent,       \* rows whose job has called Meilisearch
    crossed,    \* callers since whose reading another has called
    overtaken   \* whether the document comes from such a caller, or was removed too late

productRow == <<status, version, action, lists>>
caches == <<writer, found, failed, entry, reader>>
working == <<step, held, receipts>>
search == <<starting, document, sent, crossed, overtaken>>
index == <<working, search>>
catalogVars == <<outbox, productRow, caches, index>>

Writes == Events
Status == {"ABSENT", "DRAFT", "PENDING_APPROVAL", "ACTIVE", "REJECTED", "SOLD", "ARCHIVED"}
Version == 0..Cardinality(Events)

\* No copy under a key, no document in the index.
Missing == -1

Callers == Workers \cup {"start"}

NoCopy == [version |-> Missing, overlapped |-> FALSE]
Copy == [version : Version, overlapped : BOOLEAN]
Resting == [key |-> "none", version |-> 0, overlapped |-> FALSE]

CatalogTypeOK ==
    /\ OutboxTypeOK
    /\ status \in Status /\ version \in Version
    /\ action \in [Writes -> {"nothing", "index", "delete"}]
    /\ writer \in [Writes -> 1..4]
    /\ lists \in [Writes -> SUBSET Caches] /\ found \in [Writes -> SUBSET Caches]
    /\ failed \subseteq Writes
    /\ entry \in [Caches -> Copy \cup {NoCopy}]
    /\ reader \in [Readers -> [key : Caches \cup {"none"}, version : Version, overlapped : BOOLEAN]]
    /\ step \in [Workers -> {"rest", "receipt", "read", "send", "mark", "record", "finish"}]
    /\ held \in [Workers -> Version]
    /\ receipts \subseteq Events
    /\ starting \in {"read", "send", "done"} \X Version
    /\ document \in Version \cup {Missing} /\ sent \subseteq Events
    /\ crossed \subseteq Callers /\ overtaken \in BOOLEAN

\* The application starts with a product in any status, or none yet, and with the index
\* as an earlier run has left it.
CatalogInit ==
    /\ OutboxInit
    /\ status \in Status /\ version = 0
    /\ action = [e \in Writes |-> "nothing"]
    /\ writer = [e \in Writes |-> 1]
    /\ lists = [e \in Writes |-> {}] /\ found = [e \in Writes |-> {}]
    /\ failed = {}
    /\ entry = [k \in Caches |-> NoCopy]
    /\ reader = [r \in Readers |-> Resting]
    /\ step = [w \in Workers |-> "rest"] /\ held = [w \in Workers |-> 0]
    /\ receipts = {} /\ starting = <<"read", 0>>
    /\ document = IF status \in {"ABSENT", "ARCHIVED"} THEN Missing ELSE 0
    /\ sent = {} /\ crossed = {} /\ overtaken = FALSE

-----------------------------------------------------------------------------
(* Writes *)

\* Mutant: the caches are emptied first.
SweepsFirst == <<"scan", "delete", "commit", "return">>

\* What a writing request does, in order.
Course == <<"commit", "scan", "delete", "return">>

At(e, what) == Course[writer[e]] = what
Proceed(e) == writer' = [writer EXCEPT ![e] = @ + 1]

\* A request that invalidates nothing returns after its commit.
Commit(e, new, patterns) ==
    /\ At(e, "commit") /\ e = version + 1
    /\ IF patterns = {} THEN writer' = [writer EXCEPT ![e] = 4] ELSE Proceed(e)
    /\ version' = e /\ status' = new
    /\ lists' = [lists EXCEPT ![e] = patterns]
    /\ UNCHANGED <<found, failed, entry, reader, index>>

\* A write with an outbox row of a Product or a Review, inserted in its transaction.
Reporting(e, new, asked, patterns) ==
    /\ Commit(e, new, patterns)
    /\ action' = [action EXCEPT ![e] = asked]
    /\ Insert(e)

\* A write the search queue never hears of.
Unreported(e, new, patterns) ==
    /\ Commit(e, new, patterns)
    /\ UNCHANGED <<outbox, action>>

Write(e, new, asked) == Reporting(e, new, asked, Caches)

Exists == status # "ABSENT"

Create(e) == ~Exists /\ Write(e, "DRAFT", "index")
SubmitForApproval(e) == status = "DRAFT" /\ Write(e, "PENDING_APPROVAL", "index")
Moderate(e) ==
    /\ status = "PENDING_APPROVAL"
    /\ \E verdict \in {"ACTIVE", "REJECTED"} : Write(e, verdict, "index")
Update(e) == Exists /\ status # "SOLD" /\ Write(e, status, "index")
Remove(e) == Exists /\ status # "ARCHIVED" /\ Write(e, "ARCHIVED", "delete")
RestoreArchived(e) == status = "ARCHIVED" /\ Write(e, "DRAFT", "index")

\* The checkout of a cart takes units.
Sell(e) == status = "ACTIVE" /\ Write(e, status, "index")

\* cancelOrder and cancelSellerOrder give them back, and so does cancelPayment, which
\* returns without invalidating a copy, and refundOrderItem, whose only outbox row is
\* the sub-order's.
CancelOrder(e) == Exists /\ Write(e, status, "index")
CancelPayment(e) == Exists /\ Reporting(e, status, "index", {})
RefundItem(e) == Exists /\ Unreported(e, status, Caches)

Review(e) == Exists /\ Write(e, status, "index")

\* Renaming the category empties the lists alone.
RenameCategory(e) == Exists /\ Unreported(e, status, Caches \cap {"list"})

\* Copies show the product's auction: its start is reported, its creation and its end
\* are not, and none of them invalidates a copy.
StartAuction(e) == status = "ACTIVE" /\ Reporting(e, status, "index", {})
CreateAuction(e) ==
    /\ status \in {"DRAFT", "PENDING_APPROVAL", "ACTIVE"}
    /\ Unreported(e, status, {})
EndAuction(e) == Exists /\ Unreported(e, status, {})

\* Neither does the checkout of the winner, which marks the product SOLD.
SellLot(e) == status = "ACTIVE" /\ Unreported(e, "SOLD", {})

\* delByPattern of the patterns at once: SCAN, then DEL of the keys found.
Scan(e) ==
    /\ At(e, "scan") /\ Proceed(e)
    /\ found' = [found EXCEPT ![e] = {k \in lists[e] : entry[k] # NoCopy}]
    /\ reader' = [r \in Readers |-> [reader[r] EXCEPT !.overlapped = @ \/ reader[r].key \in lists[e]]]
    /\ UNCHANGED <<outbox, productRow, failed, entry, index>>

Delete(e) ==
    /\ At(e, "delete") /\ Proceed(e)
    /\ entry' = [k \in Caches |-> IF k \in found[e] THEN NoCopy ELSE entry[k]]
    /\ UNCHANGED <<outbox, productRow, found, failed, reader, index>>

\* Redis fails, which is logged and swallowed, or the process dies after the commit.
LoseInvalidation(e) ==
    /\ At(e, "scan") \/ At(e, "delete")
    /\ CountFailure
    /\ writer' = [writer EXCEPT ![e] = 4]
    /\ failed' = failed \cup {e}
    /\ UNCHANGED <<row, job, running, productRow, found, entry, reader, index>>

-----------------------------------------------------------------------------
(* Reads through the cache *)

\* A copy that is there is the answer.  Otherwise the database is read.
Query(r, k) ==
    /\ reader[r] = Resting
    /\ k \in Caches /\ entry[k] = NoCopy
    /\ reader' = [reader EXCEPT ![r] = [key |-> k, version |-> version, overlapped |-> FALSE]]
    /\ UNCHANGED <<outbox, productRow, writer, found, failed, entry, index>>

FindAll(r) == Query(r, "list")

\* A product that is not on sale is not found, and not cached.
FindOne(r) == status = "ACTIVE" /\ Query(r, "detail")

\* The products on sale that match; their number and facets are left out.
Fallback(r) == Query(r, "search")

\* Meilisearch refuses the filter on auctionStatus, which is not a filterable attribute:
\* what is cached is the fallback's answer.
Search(r) == Fallback(r)

Store(r) ==
    /\ reader[r] # Resting
    /\ entry' = [entry EXCEPT ![reader[r].key] = [version |-> reader[r].version,
                                                   overlapped |-> reader[r].overlapped]]
    /\ reader' = [reader EXCEPT ![r] = Resting]
    /\ UNCHANGED <<outbox, productRow, writer, found, failed, index>>

\* Redis does not store it, or the process dies; the answer was right all the same.
StoreNothing(r) ==
    /\ reader[r] # Resting
    /\ reader' = [reader EXCEPT ![r] = Resting]
    /\ UNCHANGED <<outbox, productRow, writer, found, failed, entry, index>>

Answer(r) == Store(r) \/ StoreNothing(r)

\* Mutant: a SET without EX.
Endless(k) == FALSE

\* Every SET has an EX.
Timed(k) == entry[k] # NoCopy

Lapse(k) ==
    /\ Timed(k)
    /\ entry' = [entry EXCEPT ![k] = NoCopy]
    /\ UNCHANGED <<outbox, productRow, writer, found, failed, reader, index>>

-----------------------------------------------------------------------------
(* The search queue *)

Goto(w, s) == step' = [step EXCEPT ![w] = s]
Rest(w) == Goto(w, "rest") /\ held' = [held EXCEPT ![w] = 0]

Dispatch(e) == (Redeliver(e) \/ Enqueue(e)) /\ UNCHANGED <<productRow, caches, index>>
Drop(w, e) == Skip(w, e) /\ UNCHANGED <<productRow, caches, index>>

Claim(w, e) ==
    /\ Take(w, e)
    /\ Goto(w, "receipt")
    /\ UNCHANGED <<productRow, caches, held, receipts, search>>

Asked(w) == action[Handled(w)]

\* Mutant: the receipt is written before the document.
ReceiptFirst == [mark |-> "record", record |-> "read", read |-> "send", send |-> "finish",
                 receipt |-> "mark"]

\* The calls of a job in their order.
Following == [receipt |-> "read", read |-> "send", send |-> "mark", mark |-> "record",
              record |-> "finish"]

JobStep(w, s) == step[w] = s /\ Goto(w, Following[s])

FindReceipt(w) ==
    /\ step[w] = "receipt"
    /\ \/ Handled(w) \in receipts /\ Succeed(w) /\ Rest(w)
       \/ Handled(w) \notin receipts /\ Goto(w, Following["receipt"]) /\ UNCHANGED <<outbox, held>>
    /\ UNCHANGED <<productRow, caches, receipts, search>>

\* findForSearchIndex; a deletion reads nothing.
ReadProduct(w) ==
    /\ JobStep(w, "read")
    /\ held' = [held EXCEPT ![w] = IF Asked(w) = "index" THEN version ELSE 0]
    /\ crossed' = crossed \ {w}
    /\ UNCHANGED <<outbox, productRow, caches, receipts, starting, document, sent, overtaken>>

\* A call replaces the document or removes it, whatever has become of the product.
Post(new, late) ==
    /\ document' = new /\ overtaken' = late
    /\ crossed' = Callers

Send(w) ==
    /\ JobStep(w, "send")
    /\ \/ Asked(w) = "index" /\ Post(held[w], w \in crossed)
       \/ Asked(w) = "delete" /\ Post(Missing, \E e \in sent : e > Handled(w))
    /\ sent' = sent \cup {Handled(w)}
    /\ UNCHANGED <<outbox, productRow, caches, held, receipts, starting>>

\* The Redis key search:consumer:* is written and never read.
Mark(w) ==
    /\ JobStep(w, "mark")
    /\ UNCHANGED <<outbox, productRow, caches, held, receipts, search>>

\* A second receipt of the event is refused.
Record(w) ==
    /\ step[w] = "record"
    /\ \/ Handled(w) \in receipts /\ Fail(w) /\ Rest(w) /\ UNCHANGED <<failures, receipts>>
       \/ /\ Handled(w) \notin receipts
          /\ receipts' = receipts \cup {Handled(w)}
          /\ Goto(w, Following["record"])
          /\ UNCHANGED <<outbox, held>>
    /\ UNCHANGED <<productRow, caches, search>>

CompleteJob(w) ==
    /\ step[w] = "finish"
    /\ Succeed(w) /\ Rest(w)
    /\ UNCHANGED <<productRow, caches, receipts, search>>

\* An error of any of these calls, a crash, or a worker taken for dead.
Trouble(w) ==
    /\ \/ Error(w) /\ Rest(w)
       \/ Crash(w) /\ Rest(w)
       \/ Stall(w) /\ UNCHANGED <<step, held>>
    /\ UNCHANGED <<productRow, caches, receipts, search>>

\* reindexAllProducts of onModuleInit; nothing is sent when there is no product, and an
\* error is logged and swallowed.
ReindexRead ==
    /\ starting[1] = "read"
    /\ starting' = IF Exists THEN <<"send", version>> ELSE <<"done", 0>>
    /\ crossed' = crossed \ {"start"}
    /\ UNCHANGED <<outbox, productRow, caches, working, document, sent, overtaken>>

ReindexSend ==
    /\ starting[1] = "send"
    /\ starting' = <<"done", 0>>
    /\ Post(starting[2], "start" \in crossed)
    /\ UNCHANGED <<outbox, productRow, caches, working, sent>>

ReindexFail ==
    /\ starting[1] # "done" /\ CountFailure
    /\ starting' = <<"done", 0>>
    /\ UNCHANGED <<row, job, running, productRow, caches, working, document, sent, crossed, overtaken>>

-----------------------------------------------------------------------------

Writing(e) ==
    \/ Create(e) \/ SubmitForApproval(e) \/ Moderate(e) \/ Update(e) \/ Remove(e) \/ RestoreArchived(e)
    \/ Sell(e) \/ CancelOrder(e) \/ CancelPayment(e) \/ RefundItem(e) \/ Review(e) \/ RenameCategory(e)
    \/ CreateAuction(e) \/ StartAuction(e) \/ EndAuction(e) \/ SellLot(e)

Invalidating(e) == Scan(e) \/ Delete(e) \/ LoseInvalidation(e)

Reading(r) == FindAll(r) \/ FindOne(r) \/ Search(r) \/ Answer(r)

Work(w) ==
    \/ \E e \in Events : Claim(w, e) \/ Drop(w, e)
    \/ FindReceipt(w) \/ ReadProduct(w) \/ Send(w) \/ Mark(w) \/ Record(w) \/ CompleteJob(w)

CacheSteps ==
    \/ \E e \in Writes : Invalidating(e)
    \/ \E r \in Readers : Reading(r)
    \/ \E k \in Caches : Lapse(k)

IndexSteps ==
    \/ \E e \in Events : Dispatch(e)
    \/ \E w \in Workers : Work(w) \/ Trouble(w)
    \/ ReindexRead \/ ReindexSend \/ ReindexFail

CatalogNext ==
    \/ \E e \in Writes : Writing(e)
    \/ CacheSteps
    \/ IndexSteps

CatalogSpec == CatalogInit /\ [][CatalogNext]_catalogVars

\* Redis lets a copy expire, and a request that reads comes to its end.
CacheFairness ==
    /\ \A k \in Caches : WF_catalogVars(Lapse(k))
    /\ \A r \in Readers : WF_catalogVars(Answer(r))

-----------------------------------------------------------------------------
(* Properties *)

\* When a write that invalidates a key has returned, an older copy is left under the key
\* only if its reader was between its query and its SET while some write's SCAN went
\* over the key, or if Redis failed the write: the caches follow the commit, and the
\* DEL of keys that are no longer what SCAN saw does not matter.
StaleOnlyByOverlap ==
    \A k \in Caches, e \in Writes :
        At(e, "return") /\ e \notin failed /\ k \in lists[e] /\ entry[k] # NoCopy
            => entry[k].version >= e \/ entry[k].overlapped

\* Once the writes are over, every copy is in the end of the last of them: a copy that a
\* slow reader stores after the sweep, that a failed sweep leaves, or that a write
\* without a sweep (CancelPayment, SellLot, an auction's start or end) has made old.
CachesCatchUp == <>[](\A k \in Caches : entry[k] = NoCopy \/ entry[k].version = version)

Reported(e) == row[e].status # "ABSENT"

\* Everything reported so far has been heard.
Drained == \A e \in Events : Reported(e) => row[e].status = "PROCESSED"

\* However many workers there are, and however often they fail or die: once every row is
\* PROCESSED, the document is no older than the last reported write, or gone with a
\* product which that write has archived, unless the latest call to Meilisearch had read
\* the product before another call (two workers, or the reindex of the start) or was
\* the deletion of an archived product, repeated after the job of a later row.
IndexFollows ==
    Drained /\ ~overtaken =>
        \/ \A e \in Events : Reported(e) => document >= e
        \/ /\ document = Missing
           /\ \E e \in Events : /\ Reported(e) /\ action[e] = "delete"
                                /\ \A f \in Events : Reported(f) => f =< e

-----------------------------------------------------------------------------
(* The inductive invariant behind the properties *)

\* Write e has scanned, and Redis has not failed it: a reader that still holds an
\* older answer was there during a scan, and so is every copy the SCAN did not find,
\* or the DEL has left.
Scanned(e) == At(e, "delete") \/ At(e, "return")

CopiesInv(e) ==
    /\ ~At(e, "commit") => e =< version
    /\ Scanned(e) /\ e \notin failed =>
          /\ \A r \in Readers :
                reader[r].key \in lists[e] => reader[r].version >= e \/ reader[r].overlapped
          /\ \A k \in lists[e] :
                entry[k] # NoCopy /\ (At(e, "delete") => k \notin found[e])
                    => entry[k].version >= e \/ entry[k].overlapped

\* A row that is done has told Meilisearch, and only what is committed is told.
RowInv(e) ==
    /\ Reported(e) => e =< version /\ action[e] \in {"index", "delete"}
    /\ row[e].status = "PROCESSED" \/ e \in receipts => e \in sent
    /\ e \in sent => Reported(e)

\* What a worker has read is as new as its event, and as all that is sent, unless
\* another has called since.
JobInv(w) ==
    /\ step[w] # "rest" => Handled(w) \in Events
    /\ Handled(w) \in Events => Reported(Handled(w))
    /\ step[w] = "send" /\ Asked(w) = "index" =>
          /\ held[w] >= Handled(w)
          /\ w \notin crossed => \A e \in sent : held[w] >= e
    /\ step[w] \in {"mark", "record", "finish"} => Handled(w) \in sent

\* A call that is not overtaken leaves the index as of all that is sent.
DocumentInv ==
    /\ starting[1] = "send" /\ "start" \notin crossed => \A e \in sent : starting[2] >= e
    /\ ~overtaken =>
          \/ \A e \in sent : document >= e
          \/ /\ document = Missing
             /\ \E e \in sent : action[e] = "delete" /\ \A f \in sent : f =< e

CatalogInv ==
    /\ CatalogTypeOK
    /\ \A e \in Writes : CopiesInv(e)
    /\ StaleOnlyByOverlap
    /\ \A e \in Events : RowInv(e)
    /\ \A w \in Workers : JobInv(w)
    /\ DocumentInv
=============================================================================
