# Formal models of the multi-vendor marketplace

TLA+ modules, TLC configurations and TLAPS proofs for the back end in `backend/`
(NestJS, Prisma on PostgreSQL, Redis and BullMQ, Meilisearch) and for the parts of the
React client in `frontend/` that keep state of their own: its sessions, its socket, the
notification bell, the auction page and the administrator's lists of disputes and of
sellers' applications. File and
line numbers below are relative to `backend/src/` unless they say otherwise.

## 1. The system

### Components, their state and their operations

| Component | State it keeps | Operations that change it | Talks to |
|---|---|---|---|
| **Orders** (`orders/orders.service.ts`) | `Order.status`, `SellerOrder.status`, `Payment`, `Refund`, `LedgerEntry`, `Product.stock` | `payOrder`, `cancelPayment`, `cancelOrder`, `cancelSellerOrder`, `cancelCustomerSuborder`, `refundOrderItem`, `updateSellerOrderStatus` | outbox (same transaction), Redis cache (after commit), gateway |
| **Checkout** (`checkout`, same file; `cart/`) | cart items, `Product.stock`, the order it creates | `checkout`, `addItem`, `updateItem`, `removeItem`, `clearCart` | outbox, products |
| **Auctions** (`bidding/bidding.service.ts`) | `Auction.status`, `currentPrice`, `version`, `checkoutExpiresAt`, `Bid.status` | `createAuction`, `startAuction`, `placeBid`, `endAuction`, `expireWinnerCheckout`, `checkoutWinner` | outbox jobs with a delay, Orders, Products |
| **Outbox delivery** (`*.dispatcher.ts`, `*.processor.ts`) | `OutboxEvent.status/attempts`, BullMQ jobs, `EventConsumerReceipt`, Redis `SET NX` claims | dispatch, claim, deliver, complete, fail | Socket.IO, Meilisearch, notifications |
| **Products** (`products/products.service.ts`) | `Product.status`, moderation records, stock | create, update, submit, approve, reject, moderate, remove, restore | carts, auctions, search cache |
| **Disputes** (`disputes/disputes.service.ts`) | `Dispute`, `Refund`, ledger | `open`, `resolve` | Orders |
| **Authentication** (`auth/auth.service.ts`) | users, refresh tokens | register, login, Google login and registration, refresh, logout | cookies of the client |
| **Sellers, reviews, categories** | applications, reviews and ratings, names | apply, approve, reject; create; rename | users, products, cached lists |
| **Search** (`search/`) | the Meilisearch index | index, remove, reindex at the start, query with fallback | products, outbox |
| **Notifications** (`notifications/`) | `EventConsumerReceipt` with a lease, `Notification` rows | dispatch, notify, mark read | outbox, Socket.IO |
| **Gateways** (`bidding.gateway.ts`, `orders.geteway.ts`) | rooms | handshake, subscribe, emit | every worker |
| **Client** (`frontend/src`) | access token, refresh queue, user; socket subscriptions, remembered events, bell, auction page, dispute list | requests, renewals, synchronisation, reconnection, optimistic bid | REST, Socket.IO |

All of the back end's domain writes go through `UnitOfWork.run`
(`database/unit-of-work.ts:42-58`), an interactive Prisma transaction at PostgreSQL's
default isolation, READ COMMITTED: every statement reads what had committed when it
started, a written row stays locked to the end of the transaction, and a conditional
`updateMany` tests its condition again on the row it has waited for.

### What makes each part correct

* **Orders** — a key charges once; refunds stay within what was bought and what was charged;
  every unit of a cancelled sub-order is back in stock or refunded; statuses only move
  forward; the parent's status is the one its sub-orders give.
* **Checkout** — stock is never negative, units sold and in stock are those put up, a key
  makes one order, only what is on sale is ordered, the seller's part and the commission
  are the whole.
* **Auctions** — the price is the highest accepted bid and its bidder wins; bids top the
  price when they are accepted; one order of the winner at most; every lot is decided after
  its deadline and released when the winner does not pay.
* **Outbox delivery** — an event is shown at most once (and, the README says, at least
  once); a row is PROCESSED only with its receipt; no row is left behind.
* **Products** — a product is moderated once, what is archived is not sold; a write that has
  returned is not hidden behind an older cached copy.
* **Disputes** — the columns of a sub-order follow its refunds, units repaid beyond what was
  bought are owed to disputes, the payment is REFUNDED when all of it is.
* **Authentication** — a refresh token is exchanged once; one administrator; a request that
  waits for a renewal is woken.
* **Search** — the index ends up with what the database had at the last write that was
  reported to it. Refunds, the SOLD of an auction and the creation and end of an auction
  never are (section 5).
* **Sellers** — an application is decided once, and an approved seller stays approved.
* **Notifications** — a completed receipt means that every user has the row, every event gets
  there or is visibly given up, the bell shows an event once.
* **Client** — after a bid the page shows a price the auction has had.

### What is hard about it

* Handlers read, decide, and only then lock: what they decided on may be stale when
  they write. Some writes are conditional claims (`claimSellerOrderCancellation`,
  `claimAuctionVersion`), others are plain updates by id (`updatePayment`,
  `updateSellerOrderWithDetails`).
* Derived data (parent status, payment status) is computed from the transaction's own
  snapshot of rows that other transactions are changing.
* Idempotency rests on unique keys in the outbox, refund and ledger tables, and the
  keys differ in scope: per call, per order, per pair of statuses.
* Delivery is at-least-once with crashes between the steps of a worker.
* Transactions lock the same rows in different orders, so PostgreSQL may abort either.
* Receipts of notifications are leased for 30 s, and nothing checks that the holder of a
  lease still has it.
* The caches are emptied by SCAN and DEL after the commit while readers fill them.
* A page has several requests under way when its token expires, several pages share one
  cookie, and every renewal starts another one.
* The client merges pushes, lists, reconnections and its own optimistic values.

`PROJECT.json` lists each hazard at its line with the properties that cover it.

## 2. The plan

Ordered by what would hurt most if it went wrong.

| # | Modules | Composes / refines | State |
|---|---|---|---|
| 1 | `Orders`, `OrderPhases`, `OrdersProofs`, `OrdersClaims`, `MCOrders`, `MCOrderPhases` | on its own, starts where checkout commits; `OrderPhases` is the same handlers before and after the payment | done |
| 2 | `Auctions`, `AuctionsProofs`, `MCAuctions` | implements `AuctionLot` | done |
| 3 | `Outbox`, `Delivery`, `DeliveryProofs`; `AuctionJobs` (proofs in `AuctionsProofs`) | `Delivery` extends `Outbox`; `AuctionJobs` is `Auctions` + `Outbox`, and implements `Auctions` | done |
| 4 | `Checkout`, `ProductsProofs`, `MCCheckout` | on its own | done |
| 5 | `Disputes`, `DisputesProofs`, `MCDisputes` | `open`, `resolve` and `refundOrderItem` on the same rows, and the list they are decided from | done |
| 6 | `Tokens`, `Sessions`, `SessionsProofs`, `MCSessions` | `Sessions` is the browsers over the server's `Tokens` | done |
| 7 | `Catalog`, `MCCatalog` (proofs in `ProductsProofs`) | extends `Outbox`: one product, its cached copies, its search document | done |
| 8 | `Sockets`, `Notifications`, `LiveAuction`, `Realtime`, `RealtimeProofs`, `MCRealtime` | `Notifications` and `LiveAuction` extend `Sockets`, `Realtime` composes them | done |
| 9 | `SumTheorems` | lemmas about sums over finite sets, for `OrdersProofs`, `ProductsProofs`, `DisputesProofs` | done |
| 10 | `Sellers` (run by `MCDisputes`) | on its own | done |
| 11 | the commission of partial refunds as operators against a reference definition; the proof of `ApprovalStands` | on its own; of `Sellers` | open |

Abstract specifications: the atomic auction lot (`AuctionLot`, done); the auction without
a queue under the one with it (done); still worth stating are an order ledger in which a
charge and each refund are atomic, which `Orders` implements only for customers' requests
(the conditions are in section 5), and "an event is shown once", which `Delivery` implements.
Theorems worth proving next: that ledger refinement; that `Delivery` implements "an event is
shown once"; that `Notifications` keeps what `Outbox` promises of a row. Every safety
invariant and action property that a run checks is proved, but for `ApprovalStands`.
Runs are kept few: a run whose question a theorem answers has made room for another module.

## 3. The modules and the code

### Conventions

A handler is an element of `Procs` with a program counter `pc`, the request `call` it
serves and what its transaction has read. The steps of a handler end where another
transaction could see or change something: at a lock it must wait for and at a read that a
later write depends on. What a transaction writes is kept in the handler's variables and
appears in the database in its `...Commit` step, because nobody else sees it before
(READ COMMITTED). A step that needs a row another transaction has written is disabled
until that transaction ends. `Abort` may roll a handler back before any step: a crash, the
Prisma transaction timeout, a lost connection or PostgreSQL's choice of a deadlock victim
(so a cycle of waiting handlers never blocks the model, as it does not block the
database). A request that is refused without changing anything is no step at all; that is
why the configurations say `CHECK_DEADLOCK FALSE`: when every request is refused the
system rests.

Lines that only build payloads, log or count metrics are left out; those that drop cache
entries are modelled once, in `Catalog`.

### Orders

| TLA+ | code (`orders/orders.service.ts`) |
|---|---|
| `PayStart`, `PayPending`, `PayRead`, `PayOrders`, `PayWrite`, `PayCommit`, `PayReconcile*` | `payOrder` 271-486: a first transaction moves the order to PAYMENT_PENDING, 5 s later a second one charges |
| `CancelPayment*` | `cancelPayment` 488-642 |
| `CancelOrder*` | `cancelOrder` 644-857 |
| `CancelSellerOrder*` (two values of `op`) | `cancelSellerOrder`, `cancelCustomerSuborder` 859-1121 |
| `RefundStart`, `RefundLock`, `RefundCommit` | `refundOrderItem` 1123-1298 |
| `UpdateStatus*` | `updateSellerOrderStatus` 1338-1439 |
| `orderStatus`, `soStatus`, `payStatus`, `payFor` | `Order.status`, `SellerOrder.status`, `Payment.status`, `Payment.amount` (as the set of sub-orders it adds up) |
| `NewSellerOrders`, `UnpaidSellerOrders`, `ReadSellerOrders`, `RefundExists`, `Overdraws`, ... | the queries of `database/order.repository.ts` that a step decides on |
| `refunded`, `restocked`, `charged`, `usedKeys` | `Refund` rows, stock increments, `CUSTOMER_CHARGE` entries, unique keys of outbox, refund and ledger rows |

Abstractions: a sub-order has one line; the five seconds between the two payment
transactions and the transaction timeout are untimed, so more interleavings are possible
than the clock allows; consecutive row locks that no read separates are taken in one step;
the locks of product rows are left out (they delay, and aborts cover their deadlocks);
commission columns are left out; the mock provider always succeeds, as in the code.

`OrderPhases` lets a behaviour of these handlers begin before the payment, with what
customers ask for, or after it (`PaidInit`), with everything; it holds the properties that
are true of one of the two, with their invariants.

### Auctions, AuctionLot, AuctionJobs

`Auctions` has one action per step of `createAuction`, `startAuction`, `placeBid`,
`endAuction`, `expireWinnerCheckout` and `checkoutWinner` (`bidding/bidding.service.ts`),
and of `moderate` and `remove` (`products/products.service.ts`), with the conditional
updates of `database/auction.repository.ts` as operators (`BidClaims`, `EndClaim`,
`ExpiryClaims`, `CheckoutClaims`). `now` is the clock of back end and database; `Tick` may
come between any two steps, so a decision made before the deadline may commit after it.
A claim that does not match the committed row gives up without waiting, as an
`updateMany` does. `submitForApproval`, `reject` and `restore` are single claims and
therefore single steps.

`AuctionLot` is the same lot with atomic `List`, `Open`, `Bid`, `Decide`, `Release`,
`CheckOut` and `Cancel`, without handlers, locks, versions, keys or clock. The mapping
(`Leading`, `Leader`, `Sale` in `Auctions`) takes status, price and winner from the Auction
row, the last bidder from the bid that leads or has won, and the sale from the order. `Open`
is wider than one would wish since the code is: `activate` writes by id, so a late start job
reopens a lot that is sold, expired or cancelled. (Nobody can bid on it then: `Bid` needs an
undecided lot and a deadline that has not passed.)

`AuctionJobs` adds the three schedule rows, the dispatcher of `bidding/bidding.dispatcher.ts`
and the queue workers of `bidding/bidding.processor.ts`, which run the handlers of
`Auctions`, retry, postpone, fail and die. It forgets nothing of `Auctions`: its steps are
steps of `Auctions` or leave the lot alone.

### Outbox, Delivery

`Outbox` is what the dispatchers and processors share: `Insert`, `Redeliver` (a lease that
ran out), `Enqueue`, `Take`, `Skip`, `Succeed`, `Postpone`, `Fail`, and the troubles
`Error`, `Crash` (the process dies, BullMQ gives the job to another worker) and `Stall`
(BullMQ does so although the worker is still running). It is modelled from
`orders/orders.dispatcher.ts:30-106` and `orders/orders.processor.ts:99-222`; BullMQ itself
is external. Leases and delays are untimed: what may have run out by now, may. `Delivery`
fills in the worker: receipt, Redis `SET NX`, emit, receipt, PROCESSED, each a call to
another process. Stock events have the aggregate type `Product`, which the orders dispatcher
does not take, so the branch at `orders.processor.ts:142` is never reached and is not
modelled.

### Checkout

| TLA+ | code |
|---|---|
| `CheckoutStart`, `CheckoutTake`, `CheckoutCommit` | `checkout`, `orders/orders.service.ts:63-270`: key and cart are read, each line takes its units with `decrementStockForCheckout`, the order is inserted, the cart emptied |
| `AddStart`/`AddWrite`, `UpdateStart`/`UpdateWrite`, `RemoveItem`, `ClearCart` | `cart/cart.service.ts:39-114`, two statements without a transaction where there are two |
| `Edit`, `Submit`, `Approve`, `Reject`, `Archive`, `Restore` | `products/products.service.ts`, on products that are not auctions |
| `Cancel` | `incrementStock` of the cancellations (`Orders` has their steps) |
| `Commission`, `SellerEarnings`, `Tenth` | lines 177-186 and the `Decimal(12,2)` columns, which round half up |

`taken` are the product rows the transaction has decremented: they are locked, and their
committed stock is still the old one. `supply` is a history variable, the units a seller
has put up. Abstractions: `addItem` reads the product and its cart row in one step; cart
rows are identified by their product; the outbox and ledger keys that begin with the
Idempotency-Key clash exactly when the payment key does, so one check at the commit stands
for all of them; the type of a product does not change.

### Disputes

| TLA+ | code |
|---|---|
| `OpenLook`, `OpenInsert` | `open`, `disputes/disputes.service.ts:33-97`: the active dispute is looked for, then the row inserted; no index forbids a second one |
| `ResolveRead`, `Measure`, `Draft`, `Increment`, `Sum`, `Decide` | `resolve`, 120-248: an unlocked read, per item the units still to repay and the `Refund` row, the increment of `refundedAmount`, the sum that decides the payment's status, the dispute with its outbox row; a verdict that refunds nothing goes straight to its commit, the step `close` |
| `RefundRead`, `RefundLock`, `RefundCheck`, `RefundSum`, `RefundSettle` | `refundOrderItem`, `orders/orders.service.ts:1123-1298` |
| `board`, `Load` | `frontend/src/pages/AdminPage/DisputesPage/DisputesPage.tsx`: the list is loaded when the page opens and after a successful decision, and not after a failed one |

The row lock of the sub-order has three modes here: inserting a refund takes FOR KEY SHARE
through the foreign key, the increment FOR NO KEY UPDATE, `refundOrderItem` FOR UPDATE; that
is what decides which of two refunds sees the other. Money is units times price.

### Tokens, Sessions

`Tokens` is `auth/auth.service.ts` and the cookie handling of `auth/auth.controller.ts`. A
call is a record `server[c]` that names the next statement (`look`, `count`, `create`,
`revoke`, `find`, `delete`, `insert`, `forget`, ...), because none of these calls but the
first registration is one transaction: an error or the death of the process may come
between any two. `Serializes` is the Serializable isolation of that registration.

`Sessions` adds the browsers. A task is an asynchronous function in progress.

| TLA+ | code (`frontend/src/`) |
|---|---|
| `Request`, `Send`, `Unauthorized`, `Enqueue`, `Renew`, `Renewed`, `RenewFailed`, `Repeat` | the interceptors of `services/api.ts`: `isRefreshing` and `failedQueue` |
| `StartInit`, `StartSync`, `Focus`, `Loaded`, `SignsOut` | `context/AuthContext/AuthContext.tsx`; `due` are the handlers an event has called |
| `Swapped` | `services/authService.ts:27-38`, the refresh that `syncUser` and `initAuth` make past the queue |
| `Submit`, `LogOut`, `Posted`, `LoggedOut` | the login, registration and Google forms (`FormsOfLogin`, `FormsElsewhere`: which page has which), logout |
| `jar`, `access` | the cookie and `localStorage`, one per browser, shared by its tabs |
| `header`, `Bearer` | the default `Authorization` header that a renewal leaves in its page (`api.ts:101`): what a request without a stored token carries |

`Expire` lets an access token run out at any time; `Disconnect` loses an answer, whatever
the server has done. `KeepCookie` is what the controller does: an answer that ends a session
clears a cookie without the path it was set with, so the old one stays.

### Sellers

`standing` is the status of a `SellerProfile`, `sellers` the users whose role is SELLER,
`listed` what each open `ApprovalsPage` shows. `Apply` and `Submit` are the read and the
unconditional upsert of `apply` (`sellers/sellers.service.ts:20-53`), `Moderate` the read of
`approve` or `reject`, `Approve` and `Reject` the conditional update `claimPending`, the first
with the role in its transaction, `Decided` the answer the page takes its item off for. The
role comes from the access token, so a customer who has become a seller may still apply until
the token is renewed. `late` is a history variable: an approval has come between the check of an
application and its upsert.

### Catalog

One product whose committed writes are numbered: write `e` leaves version `e`. The writes
differ in two things, and each does what its code does: `Reporting` inserts the outbox row the
search queue hears, and the set of key patterns it invalidates after the commit may be all
(`Caches`), the lists alone, or none.

| writes | code | reported | invalidates |
|---|---|---|---|
| `Create`, `Update`, `SubmitForApproval`, `Moderate`, `Remove`, `RestoreArchived` | `products/products.service.ts` | yes | all |
| `Sell`, `CancelOrder` | `orders/orders.service.ts:117-139` with 243-247; 744-757 with 851-855 and 975-991 with 1087-1091 | yes | all |
| `Review` | `reviews/reviews.service.ts:25-103` | yes | all |
| `CancelPayment`, `StartAuction` | `orders.service.ts:488-642`, `bidding/bidding.service.ts:137-179` | yes | none |
| `RefundItem` | `orders.service.ts:1227-1282`; its outbox row is the sub-order's | no | all |
| `RenameCategory` | `categories/categories.service.ts:42-53` | no | lists |
| `CreateAuction`, `EndAuction`, `SellLot` | `bidding.service.ts:45-122`, `336-428`, `501-504` | no | none |

`Course` is what a request does in its order: commit, SCAN, DEL, return
(`redis/redis.service.ts`, `delByPattern`); `LoseInvalidation` is a Redis error, which is
swallowed. `Query` and `Store` are the two halves of a read through a cache (`FindAll`,
`FindOne`, `Search`, which is always the fallback, see section 5), and `Lapse` is the EX of
every SET. The queue of the search index is `Outbox` with the worker of
`search/search.processor.ts`: receipt, read of the product, call to Meilisearch, Redis key,
receipt, PROCESSED; `ReindexRead` and `ReindexSend` are `onModuleInit`. `overlapped`, `crossed`
and `overtaken` are history variables: whether a SCAN went over a key between its reader's
query and SET; which callers another call has come between the reading and the calling of;
whether the document comes from such a caller, or from a deletion repeated after a later row.
The product's type, which an edit may change, is left out.

### Sockets, Notifications, LiveAuction, Realtime

| TLA+ | code |
|---|---|
| `Connected`, `Join`, `Disconnect`, `AskForRoom`, `Subscribe` | `frontend/src/services/socketClient.ts` and the handshakes of both gateways. The client may emit between the connection and the join |
| `Push`, `Receive`, `Remember` | emit to a room (nobody there: nothing is sent), delivery in order, `realtimeStore.ts` |
| `Dispatch`, `Take`, `Look`, `Upsert`, `Lease`, `InsertRow`, `PushNotice`, `Complete`, `Error` | `notifications/notifications.dispatcher.ts:25-73`, `notifications.processor.ts:28-170`, one action per call to the database or the socket |
| `Matching`, `Older`, `Window` | `notifications.dispatcher.ts:26-43`: the query takes the 50 oldest rows that match, and a row whose job has failed for good goes on matching |
| `Crash`, `Stall`, `Expire` | BullMQ's stalled jobs (handed out again, or failed beyond the limit), the lease of 30 s, which may run out while its holder works |
| `AskList`, `ReadList`, `ShowList`, `LoseList`, `ShowNotice` | `components/NotificationBell/NotificationBell.tsx` |
| `ReadAuction`, `ShowAuction`, `PlaceBid`, `Accept`, `Refuse`, `LoseBid`, `FinishBid` | `pages/AuctionPage/AuctionPage.tsx` with `placeBid` and `findAuction` of the bidding service |
| `EmitBid` | `bidding.gateway.ts:126-138`, from the outbox worker, some time after the bid has committed |

`Realtime` composes the three: `Connect` is the handlers of the socket, the bell and the page
for one 'connect', and `Next` interleaves the rest. Requests are not cancelled by the code,
so each has a state of its own and they are answered in any order. Requests that find every
element of `Lists` or `Loads` under way wait: a bound.

## 4. The runs

Every passing run explores the whole state graph of its instance.

| Run | Instance | Checks |
|---|---|---|
| `orders` | 2 sub-orders of 2 units, 2 handlers, 2 keys. A behaviour begins before the payment, with every request of customers and the sellers' cancellations, or after it, with cancellations, refunds of 1 or 2 units and status updates (`MCOrderPhases`; 715 504 states) | refunds within the quantity and only of what was charged; a key charges once, for something alive; a paid order's stock is returned at most once, its REFUNDED means repaid, COMPLETED is final |
| `orders_mixed` | 2 sub-orders of 2 units, 2 handlers, 2 keys, all endpoints, each with a few arguments; one seller may start before the payment | the inductive invariant of the proofs (with it `RefundsWereCharged`: no refund without charge); no unit of a cancelled sub-order is lost |
| `auctions` | 2 handlers, 2 bidders, 3 keys, 3 amounts, a clock of 4 past start, deadline and checkout window | the invariants of the lot, the refinement of `AuctionLot`, a checkout is kept (725 731 states) |
| `auction_jobs` | 1 client, 1 worker, 1 bidder, 2 failures, rows of 3 claims, jobs of 2 tries | liveness: a running auction ends, an unclaimed lot is released, an approved auction opens |
| `delivery` | 2 events, 2 workers, 3 failures, one event that its processor marks FAILED and one that it does not | an event is emitted once at most, every row is settled in the end |
| `checkout` | 2 customers, 2 handlers, 2 keys, 2 products of one unit, one edited, archived and moderated by its seller, up to 2 units put up | stock never negative, units accounted for, orders only of what is on sale, one order per key, the split is whole to a cent (1.3 million states) |
| `disputes` | 2 sub-orders, an item of 2 units and one of 1, 2 disputes, 2 keys, 2 transactions, 5 calls, one administrator's list; or one customer who applies, 2 administrators' pages, 3 requests | columns follow the refunds, over-refund is bounded by the disputes decided, the payment follows the refunds; an approval stands unless an application was checked before it (68 018 states) |
| `sessions` | 2 tabs of one browser, 3 tasks, 2 accounts, 4 tokens, 2 moves of the users, 1 fault or expiry | the queue of 401s has a renewal, a token is exchanged once, one administrator, every task ends (304 719 states) |
| `catalog` | a product in any status; 2 writes, one key and 2 readers; or 3 writes, 1 worker with 1 failure and the reindex | only a reader overlapped by a SCAN leaves an old copy behind a write that invalidates it; when the writes are over every copy is in the end the last one; a drained outbox means the document of the last reported write (2.1 million states) |
| `realtime` | 2 connections; an event for 2 users and a later one for nobody, a window of 1, 2 workers, 2 tries, 2 failures; 2 lists; 2 bids, 4 prices, 3 loads, 1 lost request | a completed receipt means delivered rows, the bell shows an event once, real prices, every event is notified of in the end unless it is given up or failed jobs fill the window (699 879 states) |
| `claim_*` | small instances, one property each | counterexamples, see section 5 |

*Why the bounds are enough.* Every property is about one row or about two that conflict: two
handlers make each pair of handlers interleave, two sub-orders make derived data differ
from its parts, two keys tell a retry from a second call. Quantities of two separate
"some" from "all". The one-unit products of `checkout` make the last unit contested at
once and the supply of two lets a stale edit put a unit back. Three bid amounts allow an
outbid leader and a third bid; the clock ends one tick after the last thing that can expire.
`MaxFailures` is below what `MaxAttempts` can absorb in `auction_jobs`, so that its
liveness holds, and not in `delivery` and `realtime`, whose properties allow for used-up
attempts. In `disputes` both decisions of one dispute, two disputes of one sub-order and a
refund beside each fit into five calls. In `sessions` two tasks of a tab are one that
renews and one that waits in its queue, and the third is the other tab with the same cookie;
four tokens let a renewal be followed by a login or by another renewal. The caches take
two writes of all kinds, which is one that leaves a copy old and one that sweeps; the index takes
three, which let a removal and a restore follow another write, and one of each kind that is
alike for it (`MCCatalog`). `Window = 1` in `realtime` stands for the 50 of the code: one failed
job fills it, as fifty do there, and an older row whose job has not failed holds a later one
up. One search worker is what the deployment has (one
backend process, BullMQ's concurrency of 1), and the theorems about `Catalog` are about any
number. In the behaviours of `disputes` that watch `Sellers` three requests are an application beside a decision and a
second decision. What is proved does not depend on these bounds at all.

*Watching one part.* In `disputes` the disputes and the applications share nothing, in `realtime` the queue, the bell and the auction page share only the
socket, and in `catalog` the caches and the index only the product, so `MCDisputes`,
`MCRealtime` and `MCCatalog` let a behaviour take the steps of one of them and of what it depends on (the
socket, for the bell also the queue that pushes to it with one failure; the writes). The safety
theorems of `RealtimeProofs` are about the whole of `Realtime`, without this division.

*Symmetry* is used only in runs whose temporal properties are action properties, or none.
`None` and the keys are model values.

*Fairness.* `AuctionJobs` and `Delivery` assume weak fairness of the dispatchers (a
`setInterval` that polls each second), of the workers' steps (BullMQ hands waiting jobs to
idle workers, and a handler that can go on does), and of the clock. The step of a worker's
call that waits for a row is strongly fair: PostgreSQL queues those who wait for a lock, so
others cannot overtake it for ever. A client's request that has begun goes on (weak fairness
of its steps); that clients send requests is not assumed, nor that anything fails, and
failures are bounded by `MaxFailures`. `Sessions` assumes weak fairness of each task: a call
that has begun goes on, or it fails, and JavaScript runs a callback that is due; nothing is
assumed of users, faults or expiries. `Realtime` assumes it of the dispatcher's poll, of the
workers' steps and of leases running out, which is time passing; not of sockets, lists or bids.
Its dispatcher is fair to a row only while the row is among the oldest that match, as the query
is: `EventuallyNotified` therefore excepts the events that `Blocked` keeps out of the window.
`Catalog` assumes that copies expire, which Redis does, and that a request which has read the
database comes to its end; nothing of writes, sweeps or the queue.

What a theorem states for all constants and a run no longer needs to repeat is only proved:
the inductive invariants of `Auctions`, `Delivery` and `Checkout`, `PhaseInv` of `OrderPhases`
(TLC has also checked it on the instance of `orders`), `CatalogInv`, `JobsTypeOK`,
`BidsTopThePrice`, and `ProcessedHasReceipt`.

Each property of a passing run has a mutant in `PROJECT.json`, a plausible mistake in the
code under which the same run fails. The mutated forms stand beside the definitions.

## 5. What the runs found

Two claim runs end in counterexamples to what the repository says of itself.

* `claim_stale_payment` — README:115-117 says that a cancelled sub-order is compensated, and
  README:96 lists "cancel / partial refund" among what one transaction keeps consistent.
  `cancelOrder` decides whether to refund from the payment it read
  before it claimed the sub-orders. If the payment commits in between, the order is
  charged, cancelled, not refunded, and its PAID payment becomes CANCELLED.
* `claim_live_bid` — `subscribe` of `bidding.gateway.ts:84` decorates its first parameter
  only, so Nest passes nothing for `payload`, and every subscription is answered
  `{subscribed: false}`: nobody ever is in the room of an auction, and live bids (`README`
  line 142) reach no page. The page lives on its own loads.

Further counterexamples that runs of these modules end in, kept as prose:

* `payOrder` reads the payment without a lock (`orders.service.ts:345`) and updates it by id:
  two calls with different keys both charge (line 370).
* `updateSellerOrderStatus` checks the transition on a read (`orders.service.ts:1362`) and
  writes by id: a sub-order that was cancelled meanwhile becomes SHIPPED (1507-1509 and
  README:137-139 say otherwise).
* A product approved after the deadline opens an auction whose end job has already been
  PROCESSED: it stays ACTIVE (`database/auction.repository.ts:94`, README:133-134).
* A worker that dies between the Redis key and the emit loses the event
  (`orders.processor.ts:164`), against "at least once" in README:110.
* A refresh that found its token before a login deletes all of them inserts a new one after
  it: a session survives the login that ends all others (`auth.service.ts:293`).

*Conditions.* Some properties of `Orders` hold only while the revived sub-order and
the double charge above stay out of the way, and the two phases of `orders` leave those out
on purpose.
With a seller's status update (NEW to PROCESSING) in flight while the order is being paid or
its payment cancelled, a sub-order that was cancelled is revived. Then `NeverOverRestocked`
fails (it is cancelled and restocked a second time), `FirstChargeLeavesLiveOrder` fails,
`RefundsMatchCharges` fails (units that were never charged for are refunded) and
`CompletedIsFinal` fails (the old update overwrites COMPLETED, its outbox key still being
free). `RefundedMeansRepaid` fails when a second `payOrder` (the double charge) enlarges the
amount of a payment whose refund is committing. Before the payment `orders` therefore has
no status updates, and `PaidNeverOverRestocked` and `PaidRefundedMeansRepaid` are about orders
that begin paid; `orders_mixed` has everything, and the properties that hold there, and are
proved, need no condition.

Other disagreements and facts met on the way, each reached by the modules.

* **Orders.** The parent status is derived from a snapshot taken before the parent is locked,
  so two sellers who cancel at once leave an order PROCESSING with every sub-order cancelled
  (README:139, "Parent status is derived"); `cancelPayment` overwrites a payment that was PAID
  meanwhile (`orders.service.ts:539`); the outbox key of a status change names only the two
  statuses, so an order that goes to SHIPPED twice fails the second time (1421); two refunds
  of different sub-orders may both miss the other's rows and leave PARTIALLY_REFUNDED
  (1236); a checkout empties the cart of lines that were added after it was read, and orders
  one cart twice under two keys.
* **Auctions.** A winner's checkout writes SOLD over an archived product.
* **Disputes.** A dispute decided for the customer beside a refund of the same item repays
  the units twice, by at most the line per dispute; such a refund is taken neither from the
  commission nor from the seller's earnings (`disputes.service.ts:195-198`); two disputes of
  one sub-order may be active; the same verdict twice fails on its outbox key, two different
  verdicts both commit and the later one stays; UNDER_REVIEW and CLOSED are never written.
* **Sessions.** refresh deletes a token and then inserts one, so a death in between signs the
  browser out; two tabs, or `syncUser` beside the interceptor, present one cookie twice and
  the loser signs its tab out; 'auth:refreshed', fired by every renewal, starts another one.
* **Catalog, caches.** README:128-130 says that the Redis caches are invalidated on writes.
  `cancelPayment` gives stock back and returns without (`orders.service.ts:630`), and so do
  the creation, the start and the end of an auction and the winner's checkout, which marks the
  product SOLD (`bidding.service.ts:501-504`): their readers see the old copy until it expires.
  A renamed category empties only the lists, not the cached details and searches.
  `StaleOnlyByOverlap` is about the keys a write does sweep, and `CachesCatchUp` says what is left
  for the others: the copy's time to live.
* **Catalog, index.** README:68-69 and 103-106 say that the index follows the outbox. A refund
  returns units with only the sub-order's outbox row (`orders.service.ts:1261-1274`); SOLD, the
  creation and the end of an auction have none. Meilisearch then keeps the old stock, status
  or auction until another write of the product is reported, or the back end starts.
  `IndexFollows` is therefore about reported writes only. The filter `auctionStatus` of `search`
  is not among the filterable attributes, so Meilisearch refuses every query and PostgreSQL
  answers; the Redis key of the search consumer is written and never read; a late DELETE may
  remove a product that was restored.
* **Sellers.** `apply` upserts without a condition (`sellers/sellers.service.ts:33`): an approval
  that commits after its check is undone, the profile is PENDING again while the user's role
  stays SELLER, and may then be rejected. A decision names a profile and no version of it, so a
  page opened earlier decides an application that has replaced the one it shows.
* **Notifications.** A job that has failed five times keeps its id, so the event is never
  queued again, and its row stays among those the dispatcher's query matches
  (`notifications.dispatcher.ts:42-43`, `take: 50`): with fifty of them no later event is
  dispatched any more; rows whose own consumer has used up its attempts are never notified of; a list
  read before a row was inserted replaces the pushed item, whose redelivery is then dropped as
  seen until the next connection; a pushed item carries the event's id in place of the row's,
  so marking it as read matches nothing; what is emitted between the connection and the join
  is lost.

## 6. What is proved

TLAPS checks these for every value of the constants that satisfies the `ASSUME`s beside
them. Those say what ids, prices and quantities are, that rows are finitely many (`Products`,
`Items`, `SellerOrders`, `Events`, whose sums and cardinalities occur in properties), and that
the keys a client sends are not those a dispute makes for its refunds, which carry the prefix
`dispute:`.

* **`OrdersProofs`, of `Orders`**: `TypeCorrect`, `RefundsBounded`, `RefundsFollowCharge`,
  `CancelledAccounted` (invariants), `OneChargePerKey` (action property). From: lines have
  positive quantities and prices, requests are well formed, sub-orders are finitely many.
  `IInv` adds what the property alone does not carry: a handler's steps are those of its
  request (`CallInv`); a sub-order's row has one holder, only the holder is inserting
  refunds for it, and those fit with the committed ones (`LockInv`); a cancellation under
  way puts back what is not refunded (`RestockInv`); a paid payment, or a snapshot of one,
  means a charge (`ChargeInv`). The bound on refunds fails without the first-read-under-lock
  order that `LockInv` records.
* **`OrdersProofs`, of `OrderPhases`**: `RefundsMatch`, `StockRestoredOnce`,
  `RefundedIsRepaid`, `FirstChargeLive`, `CompletedStays`, from `PhaseInv`. *Before the payment*
  `CANCELLED` is final as no status update writes over it, so the sub-orders a transaction has
  found payable cover those that are still alive when it commits (`UnpaidCall`), every charge is
  for all of these, and what is refunded was charged for (`UnpaidOrder`). *After it* a unit goes
  back to stock in the transaction of its refund, hence `restocked =< refunded` and with
  `IInv` at most once; `REFUNDED` is written by the refund that brings every line to its
  quantity (a sum of lines that reaches the sum of their quantities is tight in each line:
  `SumTight`); and a sub-order leaves `SHIPPED` or `COMPLETED` only by an update whose outbox
  key was used when it got there (`Shipped`).
* **`AuctionsProofs`**: `TypeCorrect`, `PriceCorrect`, `LeaderCorrect`, `WinnerCorrect`,
  `OneOrder`, `BidsTop`, `CheckoutKept` and `LotImplemented` (`Spec => ImplementsLot`). The
  invariant says what each transaction that holds the Auction row is going to write relative
  to the committed row (`NextOfStep`), and what is still true of the row it read before
  (`SeenOfStep`: versions only grow, an ended auction has a version no bidder has seen). The
  refinement takes each commit to one operation of `AuctionLot` and every other step to a
  stutter. Of `AuctionJobs`: `JobsTypeCorrect`; `JobsImplementAuctions`, hence `JobsOneOrder`
  and `JobsPriceCorrect` with the workers' retries and failures.
* **`DeliveryProofs`**: `TypeCorrect`, `AtMostOnce`, `ReceiptFirst`, for any number of
  events, workers and failures: one worker at most is about to emit an event, and only after
  the key was set (`MarkInv`).
* **`ProductsProofs`, of `Checkout`**: `TypeCorrect`, `StockNeverNegative`, `OnlyOnSale`,
  `KeyMakesOneOrder`, `StockAccounted`, `SplitCorrect`. What a checkout has taken it holds:
  `TakenInv` says that its rows still have the units and are on sale, and `LocksAreExclusive`
  that nobody else has them. For `StockAccounted` each commit moves one order's units between
  the two sides of the sum, which stays a sum over finitely many live orders (`Accounted`).
  `SplitCorrect` is the arithmetic of two roundings (`SplitOfAnyAmount`) on a subtotal, which is
  a number as the sum of finitely many.
* **`ProductsProofs`, of `Catalog`**: `CatalogInvariant`, `CopiesFollowWrites`
  (`StaleOnlyByOverlap`) and `IndexFollowsWrites` (`IndexFollows`), for all sixteen writes with
  what each reports and sweeps, and any number of writes, readers, workers, attempts and failures.
  *Caches* (`CopiesInv`): from the SCAN of a write on, a reader that holds an older answer under
  a key this write sweeps was there during a SCAN, and a copy under such a key is newer, or was
  overlapped, or is on the list for DEL; a reader that starts later reads the new version,
  since the SCAN comes after the commit. Nothing is claimed of the keys a write does not sweep.
  *Index* (`RowInv`, `JobInv`, `DocumentInv`): a row with a receipt has told Meilisearch
  (`sent`); a product read for it is as new as the row, and as all that is sent unless another
  caller has called since (`crossed`); so a call that is not overtaken leaves the index as of all
  that is sent, and when every reported row is PROCESSED, as of all that is reported.
* **`DisputesProofs`**: `Invariant`, `TypeCorrect`, `ColumnsCorrect`, `OverRefunds`,
  `PaymentStatusCorrect`, for any items, disputes, keys, administrators and calls. The invariant
  has three layers. *Locks*: row locks exclude each other by mode (`Compatible`), and no two
  transactions, and no committed row, have one key (`Apart`, `Fresh`). *Calls*: what a
  transaction under way has read, measured and drafted still holds when it commits
  (`ResolveInv`, `RefundInv`, `RowsInv`), and the sum it goes by is not too much, and exact when
  the order has refunds of its sub-order alone (`SumInv`). *Rows* (`RowsAgree`): the three
  properties themselves, each of which needs the others' layers. A decided dispute adds a line
  once at most, hence the bound on what is repaid.
* **`SessionsProofs`**: `QueueIsWoken`, `TokensRotateOnce`, `OneAdministrator`, for any
  browsers, tabs, tasks, accounts, tokens and faults. The invariant `SInv` says of the server
  that a token which is alive or not issued yet was never exchanged (`TokenInv`: the exchange is
  the deletion of its row, which one call only can make), that two administrators are one
  account (`AdminInv`) and which calls have an account (`CallsInv`); of the browsers that a task
  renews or waits only under the flag of its page, that a flag has a task which renews, and that
  it is the only one (`QueueInv`).
* **`RealtimeProofs`**: `ReceiptsArePromises`, `BellShowsOnce`, `PageShowsRealPrices`, for
  any events, users, workers, lists, loads, prices and failures, of the whole composition.
  `QueueInv` says that in a worker's loop every user it no longer has to notify has the row
  (`LoopInv`), whatever other workers do: rows are only added, and the promise of a receipt
  follows from the loop's end and not from the lease. `PriceInv` says that every price on the
  page or on its way to it is one the auction has had, but for the amount of the bid under way.

*Sums.* The properties of orders, stock and disputes add up functions over sets, and
`SumFunctionOnSet` is a fold: what it computes is known by induction over the set, and the
library's induction theorems take a predicate as a parameter, which the provers cannot
instantiate. `SumTheorems` goes around them. A non-empty family of subsets of a finite set has
a smallest member (`SmallestSet`, from the well-foundedness of strict inclusion), so each fact
is proved from a smallest set for which it would fail. The fold's recursive function is a
`CHOOSE`n table of partial sums, shown to exist and to be the only one (`TableExists`,
`TablesAgree`). From there: `SumAdd`, `SumRemove`, `SumDisjoint`, `SumNat`, `SumMonotone`, `SumSame`,
`SumOrdered`, `SumTight`, cited by three proof modules.

*Only model-checked.* Liveness: `RunningAuctionEnds`, `UnclaimedLotIsReleased`,
`ApprovedAuctionStarts`, `EventuallySettled`, `TasksEnd`, `EventuallyNotified` rest on fairness,
whose `ENABLED` the prover does not reason about. The claims of section 5 are counterexamples.

## 7. What is not modelled

* **The rounding of partial refunds**: commission is `amount * rate` rounded to two decimals
  for each of them. In the plan; `Disputes` has the sum of commission and earnings.
* **Parts of modelled components**: that a notification is read (one column), stock and order
  status pushes (a value replaced by the one pushed), rooms of sellers, orders and
  administrators (they work like a user's), product edits of a lot by its seller, the creation
  and deletion of categories, image files on disk, the unique index that allows one review of
  an item, the delayed jobs of the orders queue without a row.
* **Passwords, hashes, signatures and Google's answers** are data the model chooses.
* **Analytics, users, logs, metrics**: read queries, CRUD without shared state machines, I/O.
* **The other pages of the frontend, and the deployment files**: presentation and
  infrastructure. `CatalogPage` shows whichever of its answers comes last, a race that ends
  with the next request.

`PROJECT.json` lists every component with its status and every hazard with the properties
that cover it or the reason why none does.
