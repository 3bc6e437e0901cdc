------------------------------ MODULE Checkout ------------------------------
(***************************************************************************)
(* Carts, the stock of fixed price products and the orders made of them:   *)
(* checkout of orders.service.ts, the operations of cart.service.ts, and   *)
(* those of products.service.ts and of the order cancellations that change *)
(* the same rows.                                                          *)
(*                                                                         *)
(* checkout is one transaction: it reads the cart, takes the units of one  *)
(* product after the other with a conditional update that locks the row,   *)
(* inserts the order and empties the cart.  addItem and updateItem are two *)
(* statements without a transaction.  The other operations change what they*)
(* change at once, when the product rows are free.                         *)
(***************************************************************************)
EXTENDS Integers, FiniteSets, Functions

CONSTANTS
    Users, Products, Keys,
    Procs,              \* request handlers that run concurrently
    Seller,             \* the seller of each product
    Prices,             \* in cents, what sellers ask
    Quantities,         \* what customers ask for
    Stocks,             \* what sellers enter as stock
    Managed,            \* bound: products that sellers edit and archive
    MaxSupply,          \* bound: units a seller puts up of a product
    None                \* null

ASSUME NoneAssumption == None \notin Users
ASSUME NumbersAssumption ==
    /\ Prices \subseteq Nat \ {0} /\ Quantities \subseteq Nat \ {0}
    /\ Stocks \subseteq Nat /\ MaxSupply \in Nat
ASSUME ProductsAssumption == Managed \subseteq Products /\ IsFiniteSet(Products)

ProductStatus == {"DRAFT", "PENDING_APPROVAL", "ACTIVE", "REJECTED", "ARCHIVED"}

CheckoutRequests == [op : {"checkout"}, user : Users, key : Keys]
CartRequests ==
    [op : {"add", "update"}, user : Users, product : Products, quantity : Quantities]
Requests == CheckoutRequests \cup CartRequests

VARIABLES
    product,    \* the Product rows
    supply,     \* history: units the seller has put up, by the edits of the stock
    cart,       \* quantity of each user's CartItem row of a product; 0 is no row
    orders,     \* the orders, by the key of their payment
    pc,         \* the step each handler takes next
    call,       \* the request it serves
    items,      \* the cart its checkout has read, or the row its addItem has read
    asked,      \* the prices it has read
    taken       \* products its checkout has taken units of; their rows are locked

db == <<product, supply, cart, orders>>
tx == <<pc, call, items, asked, taken>>
vars == <<db, tx>>

ProductRow == [stock : Int, price : Nat, status : ProductStatus]
OrderRow ==
    [user : Users \cup {None}, lines : [Products -> Nat], prices : [Products -> Nat],
     live : BOOLEAN]

NoItems == [x \in Products |-> 0]
NoOrder == [user |-> None, lines |-> NoItems, prices |-> NoItems, live |-> FALSE]
NoCall == [op |-> "none"]

TypeOK ==
    /\ product \in [Products -> ProductRow]
    /\ supply \in [Products -> Int]
    /\ cart \in [Users -> [Products -> Nat]]
    /\ orders \in [Keys -> OrderRow]
    /\ pc \in [Procs -> {"idle", "take", "addWrite", "updateWrite"}]
    /\ call \in [Procs -> Requests \cup {NoCall}]
    /\ items \in [Procs -> [Products -> Nat]]
    /\ asked \in [Procs -> [Products -> Nat]]
    /\ taken \in [Procs -> SUBSET Products]

-----------------------------------------------------------------------------
\* Products that are on sale, with empty carts.
Init ==
    /\ product \in [Products -> [stock : Stocks, price : Prices, status : {"ACTIVE"}]]
    /\ supply = [x \in Products |-> product[x].stock]
    /\ cart = [u \in Users |-> NoItems]
    /\ orders = [k \in Keys |-> NoOrder]
    /\ pc = [p \in Procs |-> "idle"]
    /\ call = [p \in Procs |-> NoCall]
    /\ items = [p \in Procs |-> NoItems]
    /\ asked = [p \in Procs |-> NoItems]
    /\ taken = [p \in Procs |-> {}]

Free(p, x) == \A q \in Procs \ {p} : x \notin taken[q]
Unlocked(X) == \A q \in Procs : X \cap taken[q] = {}

\* A handler starts, with what it reads.
Begin(p, r, step, read) ==
    /\ pc[p] = "idle"
    /\ pc' = [pc EXCEPT ![p] = step]
    /\ call' = [call EXCEPT ![p] = r]
    /\ items' = [items EXCEPT ![p] = read]
    /\ asked' = [asked EXCEPT ![p] = [x \in Products |-> IF read[x] > 0 THEN product[x].price ELSE 0]]
    /\ UNCHANGED <<db, taken>>

Finish(p) ==
    /\ pc' = [pc EXCEPT ![p] = "idle"]
    /\ call' = [call EXCEPT ![p] = NoCall]
    /\ items' = [items EXCEPT ![p] = NoItems]
    /\ asked' = [asked EXCEPT ![p] = NoItems]
    /\ taken' = [taken EXCEPT ![p] = {}]

Rollback(p) == Finish(p) /\ UNCHANGED db

-----------------------------------------------------------------------------
(* checkout *)

\* A key that has been used gives back its order, to its user.
CheckoutStart(p, r) ==
    /\ r.op = "checkout"
    /\ orders[r.key] = NoOrder
    /\ cart[r.user] # NoItems
    /\ Begin(p, r, "take", cart[r.user])

Lines(p) == {x \in Products : items[p][x] > 0}

\* Mutants: the stock, or whether the product is on sale, was checked by the cart.
OnSaleAnyStock(x, n) == product[x].status = "ACTIVE"
InStockAnyStatus(x, n) == product[x].stock >= n

\* decrementStockForCheckout
Takeable(x, n) == product[x].stock >= n /\ product[x].status = "ACTIVE"

\* Units of a product are taken, or the checkout fails; no row is waited for when
\* the committed one does not do.
CheckoutTake(p) ==
    \E x \in Lines(p) \ taken[p] :
        /\ pc[p] = "take"
        /\ \/ ~Takeable(x, items[p][x]) /\ Rollback(p)
           \/ /\ Takeable(x, items[p][x])
              /\ Free(p, x)
              /\ taken' = [taken EXCEPT ![p] = @ \cup {x}]
              /\ UNCHANGED <<db, pc, call, items, asked>>

\* Mutant: no unique key on the payment.
KeyNotUnique(k) == FALSE

KeyUsed(k) == orders[k] # NoOrder

\* Mutant: one unit is taken of each line.
OneUnitTaken(p) ==
    [x \in Products |-> IF items[p][x] > 0 THEN [product[x] EXCEPT !.stock = @ - 1]
                        ELSE product[x]]

\* The order and its payment, at the prices that were read with the cart.
OrderOf(p) ==
    [user |-> call[p].user, lines |-> items[p], prices |-> asked[p], live |-> TRUE]
UnitsTaken(p) == [x \in Products |-> [product[x] EXCEPT !.stock = @ - items[p][x]]]

\* The cart is emptied of whatever it holds by now.
CheckoutCommit(p) ==
    /\ pc[p] = "take" /\ taken[p] = Lines(p)
    /\ \/ KeyUsed(call[p].key) /\ Rollback(p)
       \/ /\ ~KeyUsed(call[p].key)
          /\ orders' = [orders EXCEPT ![call[p].key] = OrderOf(p)]
          /\ product' = UnitsTaken(p)
          /\ cart' = [cart EXCEPT ![call[p].user] = NoItems]
          /\ Finish(p)
          /\ UNCHANGED supply

-----------------------------------------------------------------------------
(* Cart *)

\* The row of a product in a user's cart.
InCart(u, x) == cart[u][x] > 0

SetItem(u, x, n) ==
    /\ cart' = [cart EXCEPT ![u][x] = n]
    /\ UNCHANGED <<product, supply, orders>>

AddStart(p, r) ==
    /\ r.op = "add"
    /\ product[r.product].status = "ACTIVE"
    /\ cart[r.user][r.product] + r.quantity =< product[r.product].stock
    /\ Begin(p, r, "addWrite", [NoItems EXCEPT ![r.product] = cart[r.user][r.product]])

\* The row is written with the sum of what was read and what is added: it must
\* still be there, or still be missing.
AddWrite(p) ==
    LET u == call[p].user
        x == call[p].product
    IN  /\ pc[p] = "addWrite"
        /\ \/ /\ items[p][x] > 0 <=> InCart(u, x)
              /\ SetItem(u, x, items[p][x] + call[p].quantity)
           \/ /\ ~(items[p][x] > 0 <=> InCart(u, x))
              /\ UNCHANGED db
        /\ Finish(p)

UpdateStart(p, r) ==
    /\ r.op = "update"
    /\ InCart(r.user, r.product)
    /\ product[r.product].status = "ACTIVE"
    /\ r.quantity =< product[r.product].stock
    /\ Begin(p, r, "updateWrite", NoItems)

UpdateWrite(p) ==
    LET u == call[p].user
        x == call[p].product
    IN  /\ pc[p] = "updateWrite"
        /\ \/ InCart(u, x) /\ SetItem(u, x, call[p].quantity)
           \/ ~InCart(u, x) /\ UNCHANGED db
        /\ Finish(p)

RemoveItem(u, x) ==
    /\ InCart(u, x)
    /\ SetItem(u, x, 0)
    /\ UNCHANGED tx

ClearCart(u) ==
    /\ cart[u] # NoItems
    /\ cart' = [cart EXCEPT ![u] = NoItems]
    /\ UNCHANGED <<product, supply, orders, tx>>

-----------------------------------------------------------------------------
(* products.service.ts *)

\* update writes the price and the stock that the seller has entered, whatever
\* has been sold since.
Edit(x, price, stock) ==
    LET more == stock - product[x].stock
    IN  /\ Unlocked({x})
        /\ supply[x] + more =< MaxSupply
        /\ product' = [product EXCEPT ![x].price = price, ![x].stock = stock]
        /\ supply' = [supply EXCEPT ![x] = @ + more]
        /\ UNCHANGED <<cart, orders, tx>>

SetStatus(x, from, to) ==
    /\ product[x].status \in from
    /\ Unlocked({x})
    /\ product' = [product EXCEPT ![x].status = to]
    /\ UNCHANGED <<supply, orders, tx>>

Submit(x) == SetStatus(x, {"DRAFT"}, "PENDING_APPROVAL") /\ UNCHANGED cart
Approve(x) == SetStatus(x, {"PENDING_APPROVAL"}, "ACTIVE") /\ UNCHANGED cart
Reject(x) == SetStatus(x, {"PENDING_APPROVAL"}, "REJECTED") /\ UNCHANGED cart
Restore(x) == SetStatus(x, {"ARCHIVED"}, "DRAFT") /\ UNCHANGED cart

\* remove also takes the product out of every cart.
Archive(x) ==
    /\ SetStatus(x, ProductStatus \ {"ARCHIVED"}, "ARCHIVED")
    /\ cart' = [u \in Users |-> [cart[u] EXCEPT ![x] = 0]]

-----------------------------------------------------------------------------
\* The order is cancelled before it is paid and its units go back (Orders has the
\* cancellations in full).
Cancel(k) ==
    /\ orders[k].live
    /\ Unlocked({x \in Products : orders[k].lines[x] > 0})
    /\ orders' = [orders EXCEPT ![k].live = FALSE]
    /\ product' = [x \in Products |-> [product[x] EXCEPT !.stock = @ + orders[k].lines[x]]]
    /\ UNCHANGED <<supply, cart, tx>>

\* A handler in flight fails: a crash, a timeout, or two checkouts that hold what
\* the other one wants.
Abort(p) == pc[p] # "idle" /\ Rollback(p)

Start(p, r) == CheckoutStart(p, r) \/ AddStart(p, r) \/ UpdateStart(p, r)
Step(p) == CheckoutTake(p) \/ CheckoutCommit(p) \/ AddWrite(p) \/ UpdateWrite(p) \/ Abort(p)

Next ==
    \/ \E p \in Procs : (\E r \in Requests : Start(p, r)) \/ Step(p)
    \/ \E u \in Users, x \in Products : RemoveItem(u, x)
    \/ \E u \in Users : ClearCart(u)
    \/ \E x \in Managed, price \in Prices :
          \E stock \in Stocks \cup {product[x].stock} : Edit(x, price, stock)
    \/ \E x \in Managed : Submit(x) \/ Approve(x) \/ Reject(x) \/ Restore(x) \/ Archive(x)
    \/ \E k \in Keys : Cancel(k)

Spec == Init /\ [][Next]_vars

-----------------------------------------------------------------------------
(* Commission *)

\* Mutant: what is below a cent is cut off.
TenthCut(n) == n \div 10

\* Amounts are computed exactly; the column rounds them to cents, half up.
Tenth(n) == (n + 5) \div 10

Commission(subtotal) == Tenth(subtotal)
SellerEarnings(subtotal) == Tenth(9 * subtotal)

LineTotal(k) == [x \in Products |-> orders[k].lines[x] * orders[k].prices[x]]
Subtotal(k, s) == SumFunctionOnSet(LineTotal(k), {x \in Products : Seller[x] = s})

-----------------------------------------------------------------------------
(* Properties *)

Live == {k \in Keys : orders[k].live}
Units(x) == [k \in Keys |-> orders[k].lines[x]]

\* However checkouts, edits and cancellations interleave, the units in stock and in
\* the orders that are not cancelled are those the seller has put up.
UnitsAccounted ==
    \A x \in Products : product[x].stock + SumFunctionOnSet(Units(x), Live) = supply[x]

\* "Winners never exceed stock": the conditional update of a row that another
\* checkout holds is tested again when that checkout has ended.
NeverOversold == \A x \in Products : product[x].stock >= 0

\* What is ordered is on sale when the order commits, though it was put in the
\* cart long before: archival and moderation wait for the checkout or defeat it.
OrderedFromSale ==
    [][\A k \in Keys : orders[k] = NoOrder /\ orders'[k] # NoOrder =>
          \A x \in Products : orders'[k].lines[x] > 0 => product[x].status = "ACTIVE"]_vars

\* An Idempotency-Key makes one order, of the user who sent it first.
OneOrderPerKey ==
    [][\A k \in Keys : orders[k] # NoOrder =>
          orders'[k] \in {orders[k], [orders[k] EXCEPT !.live = FALSE]}]_vars

\* The split of a sub-order between the platform and the seller loses nothing, and
\* gives away one cent at most (both parts are rounded up at five tenths).
SplitIsWhole ==
    \A k \in Keys, s \in {Seller[x] : x \in Products} :
        LET n == Subtotal(k, s)
        IN  Commission(n) + SellerEarnings(n) \in {n, n + 1}

-----------------------------------------------------------------------------
(* The inductive invariant behind the properties *)

\* What a checkout has taken it holds: the row still has the units and is on sale.
TakenInv(p) ==
    /\ pc[p] = "take" => call[p] \in CheckoutRequests
    /\ pc[p] \in {"addWrite", "updateWrite"} => call[p] \in CartRequests
    /\ pc[p] # "take" => taken[p] = {}
    /\ \A x \in taken[p] : Takeable(x, items[p][x])

LocksAreExclusive == \A p, q \in Procs : p # q => taken[p] \cap taken[q] = {}

IInv ==
    /\ TypeOK
    /\ LocksAreExclusive
    /\ \A p \in Procs : TakenInv(p)
    /\ NeverOversold

\* Beside IInv: the orders that hold units are finitely many.
Accounted == IsFiniteSet(Live) /\ UnitsAccounted
=============================================================================
