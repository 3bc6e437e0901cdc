--------------------------- MODULE ProductsProofs ---------------------------
(* Theorems about products: about Checkout, for every number of users,        *)
(* products, keys and handlers, all prices and quantities; and about Catalog, *)
(* for every number of writes, readers, workers, attempts and failures.       *)
EXTENDS Checkout, Catalog, SumTheorems

-----------------------------------------------------------------------------
(* Checkout *)

\* Rows that no other checkout holds may change: nobody else's taken rows do.
LEMMA OthersKeep ==
    ASSUME IInv, NEW q \in Procs,
           pc'[q] = pc[q], call'[q] = call[q], items'[q] = items[q], taken'[q] = taken[q],
           \A x \in taken[q] : /\ product'[x].stock = product[x].stock
                               /\ product'[x].status = product[x].status
    PROVE  TakenInv(q)'
BY DEF IInv, TakenInv, Takeable

\* A step that changes no handler and only product rows that nobody holds.
LEMMA RowStep ==
    ASSUME IInv, TypeOK', NeverOversold', UNCHANGED tx,
           \A q \in Procs : \A x \in taken[q] :
               /\ product'[x].stock = product[x].stock
               /\ product'[x].status = product[x].status
    PROVE  IInv'
<1>1. \A q \in Procs : TakenInv(q)'
  BY OthersKeep DEF tx
<1>2. LocksAreExclusive'
  BY DEF IInv, LocksAreExclusive, tx
<1>3. QED  BY <1>1, <1>2 DEF IInv

\* A request begins with the cart it has read.
LEMMA BeginStep ==
    ASSUME IInv, NEW p \in Procs, NEW r \in Requests,
           NEW stage \in {"take", "addWrite", "updateWrite"},
           NEW read \in [Products -> Nat],
           stage = "take" => r \in CheckoutRequests, stage # "take" => r \in CartRequests,
           Begin(p, r, stage, read)
    PROVE  IInv'
<1>1. /\ pc[p] = "idle" /\ pc' = [pc EXCEPT ![p] = stage] /\ call' = [call EXCEPT ![p] = r]
      /\ items' = [items EXCEPT ![p] = read]
      /\ asked' = [asked EXCEPT ![p] = [x \in Products |-> IF read[x] > 0 THEN product[x].price ELSE 0]]
      /\ UNCHANGED <<db, taken>>
  BY DEF Begin
<1>2. [x \in Products |-> IF read[x] > 0 THEN product[x].price ELSE 0] \in [Products -> Nat]
  BY DEF IInv, TypeOK, ProductRow
<1>3. TypeOK'
  BY <1>1, <1>2 DEF IInv, TypeOK, db
<1>4. taken[p] = {}
  BY <1>1 DEF IInv, TakenInv
<1>5. TakenInv(p)'
  BY <1>1, <1>4 DEF TakenInv, IInv, TypeOK
<1>6. \A q \in Procs \ {p} : TakenInv(q)'
  BY <1>1, OthersKeep DEF IInv, TypeOK, db
<1>7. LocksAreExclusive' /\ NeverOversold'
  BY <1>1 DEF IInv, LocksAreExclusive, NeverOversold, db
<1>8. QED  BY <1>3, <1>5, <1>6, <1>7 DEF IInv

\* A request that ends holds no row.
LEMMA FinishEffect ==
    ASSUME IInv, NEW p \in Procs, Finish(p)
    PROVE  /\ pc' \in [Procs -> {"idle", "take", "addWrite", "updateWrite"}]
           /\ call' \in [Procs -> Requests \cup {NoCall}]
           /\ items' \in [Procs -> [Products -> Nat]] /\ asked' \in [Procs -> [Products -> Nat]]
           /\ taken' \in [Procs -> SUBSET Products]
           /\ pc'[p] = "idle" /\ taken'[p] = {} /\ LocksAreExclusive'
           /\ \A q \in Procs \ {p} : /\ pc'[q] = pc[q] /\ call'[q] = call[q]
                                     /\ items'[q] = items[q] /\ taken'[q] = taken[q]
<1>1. NoItems \in [Products -> Nat]
  BY DEF NoItems
<1>2. LocksAreExclusive'
  BY DEF Finish, IInv, TypeOK, LocksAreExclusive
<1>3. QED  BY <1>1, <1>2 DEF Finish, IInv, TypeOK

\* The end of a handler that changes only rows it holds.
LEMMA EndStep ==
    ASSUME IInv, NEW p \in Procs, Finish(p), NeverOversold',
           product' \in [Products -> ProductRow], supply' \in [Products -> Int],
           cart' \in [Users -> [Products -> Nat]], orders' \in [Keys -> OrderRow],
           \A x \in Products \ taken[p] : product'[x] = product[x]
    PROVE  IInv'
<1>1. TypeOK'
  BY FinishEffect DEF IInv, TypeOK
<1>2. TakenInv(p)'
  BY FinishEffect DEF TakenInv
<1>3. ASSUME NEW q \in Procs \ {p} PROVE TakenInv(q)'
  <2>1. taken[q] \cap taken[p] = {} /\ taken[q] \subseteq Products
    BY DEF IInv, LocksAreExclusive, TypeOK
  <2>2. QED  BY <2>1, FinishEffect, OthersKeep
<1>4. QED  BY <1>1, <1>2, <1>3, FinishEffect DEF IInv

\* A request that fails changes nothing.
LEMMA RollbackStep == ASSUME IInv, NEW p \in Procs, Rollback(p) PROVE IInv'
<1>1. NeverOversold'
  BY DEF Rollback, db, IInv, NeverOversold
<1>2. QED  BY <1>1, EndStep DEF Rollback, db, IInv, TypeOK

-----------------------------------------------------------------------------
\* The first step of a checkout or of a cart request.
LEMMA StartStep == ASSUME IInv, NEW p \in Procs, NEW r \in Requests, Start(p, r) PROVE IInv'
<1>1. CASE CheckoutStart(p, r)
  <2>1. r \in CheckoutRequests
    BY <1>1 DEF CheckoutStart, Requests, CheckoutRequests, CartRequests
  <2>2. cart[r.user] \in [Products -> Nat]
    BY <2>1 DEF IInv, TypeOK, CheckoutRequests
  <2>3. Begin(p, r, "take", cart[r.user])
    BY <1>1 DEF CheckoutStart
  <2>4. QED  BY <2>1, <2>2, <2>3, BeginStep
<1>2. CASE AddStart(p, r)
  <2>1. r \in CartRequests /\ r.user \in Users /\ r.product \in Products
    BY <1>2 DEF AddStart, Requests, CheckoutRequests, CartRequests
  <2>2. [NoItems EXCEPT ![r.product] = cart[r.user][r.product]] \in [Products -> Nat]
    BY <2>1 DEF IInv, TypeOK, NoItems
  <2>3. Begin(p, r, "addWrite", [NoItems EXCEPT ![r.product] = cart[r.user][r.product]])
    BY <1>2 DEF AddStart
  <2>4. QED  BY <2>1, <2>2, <2>3, BeginStep
<1>3. CASE UpdateStart(p, r)
  <2>1. NoItems \in [Products -> Nat] /\ r \in CartRequests
    BY <1>3 DEF NoItems, UpdateStart, Requests, CheckoutRequests, CartRequests
  <2>2. Begin(p, r, "updateWrite", NoItems)
    BY <1>3 DEF UpdateStart
  <2>3. QED  BY <2>1, <2>2, BeginStep
<1>4. QED  BY <1>1, <1>2, <1>3 DEF Start

\* The checkout locks a product that has the units it asks for.
LEMMA TakeStep == ASSUME IInv, NEW p \in Procs, CheckoutTake(p) PROVE IInv'
<1>1. PICK x \in Lines(p) \ taken[p] :
          /\ pc[p] = "take"
          /\ \/ ~Takeable(x, items[p][x]) /\ Rollback(p)
             \/ /\ Takeable(x, items[p][x])
                /\ Free(p, x)
                /\ taken' = [taken EXCEPT ![p] = @ \cup {x}]
                /\ UNCHANGED <<db, pc, call, items, asked>>
  BY DEF CheckoutTake
<1>2. CASE Rollback(p)
  BY <1>2, RollbackStep
<1>3. CASE /\ Takeable(x, items[p][x]) /\ Free(p, x)
           /\ taken' = [taken EXCEPT ![p] = @ \cup {x}]
           /\ UNCHANGED <<db, pc, call, items, asked>>
  <2>1. x \in Products
    BY DEF Lines
  <2>2. TypeOK'
    BY <1>3, <2>1 DEF IInv, TypeOK, db
  <2>3. TakenInv(p)'
    BY <1>1, <1>3 DEF IInv, TypeOK, TakenInv, Takeable, db
  <2>4. \A q \in Procs \ {p} : TakenInv(q)'
    BY <1>3, OthersKeep DEF IInv, TypeOK, db
  <2>5. LocksAreExclusive'
    BY <1>3 DEF IInv, TypeOK, LocksAreExclusive, Free
  <2>6. NeverOversold'
    BY <1>3 DEF IInv, NeverOversold, db
  <2>7. QED  BY <2>2, <2>3, <2>4, <2>5, <2>6 DEF IInv
<1>4. QED  BY <1>1, <1>2, <1>3

\* What a checkout that commits does, and on which rows.
LEMMA CommitEffect ==
    ASSUME IInv, NEW p \in Procs, CheckoutCommit(p), ~KeyUsed(call[p].key)
    PROVE  /\ call[p].key \in Keys /\ call[p].user \in Users
           /\ orders' = [orders EXCEPT ![call[p].key] = OrderOf(p)]
           /\ OrderOf(p) \in OrderRow
           /\ \A x \in Products : items[p][x] > 0 => Takeable(x, items[p][x])
           /\ product' = UnitsTaken(p) /\ UnitsTaken(p) \in [Products -> ProductRow]
           /\ \A x \in Products : items[p][x] \in Nat /\ product[x].stock \in Int
           /\ \A x \in Products :
                 product'[x] = [product[x] EXCEPT !.stock = product[x].stock - items[p][x]]
           /\ \A x \in Products \ taken[p] : product'[x] = product[x]
<1>1. /\ pc[p] = "take" /\ taken[p] = Lines(p) /\ product' = UnitsTaken(p)
      /\ orders' = [orders EXCEPT ![call[p].key] = OrderOf(p)]
  BY DEF CheckoutCommit
<1>2. call[p].key \in Keys /\ call[p].user \in Users
  BY <1>1 DEF IInv, TakenInv, CheckoutRequests
<1>3. items[p] \in [Products -> Nat] /\ asked[p] \in [Products -> Nat]
  BY DEF IInv, TypeOK
<1>4. OrderOf(p) \in OrderRow
  BY <1>2, <1>3 DEF OrderOf, OrderRow
<1>5. \A x \in Products : items[p][x] > 0 => Takeable(x, items[p][x])
  BY <1>1 DEF IInv, TakenInv, Lines
<1>6. \A x \in Products : items[p][x] \in Nat /\ product[x].stock \in Int
  BY <1>3 DEF IInv, TypeOK, ProductRow
<1>7. ASSUME NEW x \in Products
      PROVE  [product[x] EXCEPT !.stock = product[x].stock - items[p][x]] \in ProductRow
  <2>1. product[x] \in ProductRow /\ product[x].stock - items[p][x] \in Int
    BY <1>6 DEF IInv, TypeOK
  <2>2. QED  BY <2>1 DEF ProductRow
<1>8. UnitsTaken(p) \in [Products -> ProductRow]
  BY <1>7 DEF UnitsTaken
<1>9. \A x \in Products :
          product'[x] = [product[x] EXCEPT !.stock = product[x].stock - items[p][x]]
  BY <1>1 DEF UnitsTaken
<1>10. ASSUME NEW x \in Products \ taken[p] PROVE product'[x] = product[x]
  <2>1. items[p][x] = 0 /\ product[x].stock - items[p][x] = product[x].stock
    BY <1>1, <1>6 DEF Lines
  <2>2. product[x] \in ProductRow /\ product'[x] = [product[x] EXCEPT !.stock = product[x].stock]
    BY <1>9, <2>1 DEF IInv, TypeOK
  <2>3. QED  BY <2>2 DEF ProductRow
<1>11. QED  BY <1>1, <1>2, <1>4, <1>5, <1>6, <1>8, <1>9, <1>10

\* The checkout commits: what it has taken becomes an order.
LEMMA CommitStep == ASSUME IInv, NEW p \in Procs, CheckoutCommit(p) PROVE IInv'
<1>1. CASE KeyUsed(call[p].key)
  BY <1>1, RollbackStep DEF CheckoutCommit
<1>2. CASE ~KeyUsed(call[p].key)
  <2>1. /\ Finish(p) /\ UNCHANGED supply
        /\ cart' = [cart EXCEPT ![call[p].user] = NoItems]
    BY <1>2 DEF CheckoutCommit
  <2>2. cart' \in [Users -> [Products -> Nat]]
    BY <2>1 DEF IInv, TypeOK, NoItems
  <2>3. orders' \in [Keys -> OrderRow] /\ product' \in [Products -> ProductRow]
    BY <1>2, CommitEffect DEF IInv, TypeOK
  <2>4. NeverOversold'
    <3>1. SUFFICES ASSUME NEW x \in Products PROVE product'[x].stock >= 0
      BY DEF NeverOversold
    <3>2. product'[x] = [product[x] EXCEPT !.stock = product[x].stock - items[p][x]]
      BY <1>2, CommitEffect
    <3>3. product'[x].stock = product[x].stock - items[p][x]
      BY <3>2 DEF IInv, TypeOK, ProductRow
    <3>4. /\ items[p][x] \in Nat /\ product[x].stock \in Int /\ product[x].stock >= 0
          /\ items[p][x] > 0 => product[x].stock >= items[p][x]
      BY <1>2, CommitEffect DEF Takeable, IInv, NeverOversold
    <3>5. QED  BY <3>3, <3>4
  <2>5. \A x \in Products \ taken[p] : product'[x] = product[x]
    BY <1>2, CommitEffect
  <2>6. QED  BY <2>1, <2>2, <2>3, <2>4, <2>5, EndStep DEF IInv, TypeOK
<1>3. QED  BY <1>1, <1>2

\* A write of the cart by addItem or updateItem.
LEMMA CartWriteStep ==
    ASSUME IInv, NEW p \in Procs, Finish(p), UNCHANGED <<product, supply, orders>>,
           cart' \in [Users -> [Products -> Nat]]
    PROVE  IInv'
<1>1. NeverOversold'
  BY DEF IInv, NeverOversold
<1>2. QED  BY <1>1, EndStep DEF IInv, TypeOK

\* A cart with another quantity of a product is a cart.
LEMMA ItemType ==
    ASSUME IInv, NEW u, NEW x, NEW n \in Nat, cart' = [cart EXCEPT ![u][x] = n]
    PROVE  cart' \in [Users -> [Products -> Nat]]
BY DEF IInv, TypeOK

\* The quantity read before is written, increased.
LEMMA AddWriteStep == ASSUME IInv, NEW p \in Procs, AddWrite(p) PROVE IInv'
<1>1. CASE UNCHANGED db
  BY <1>1, CartWriteStep DEF AddWrite, db, IInv, TypeOK
<1>2. CASE SetItem(call[p].user, call[p].product, items[p][call[p].product] + call[p].quantity)
  <2>1. call[p] \in CartRequests /\ items[p] \in [Products -> Nat]
    BY DEF AddWrite, IInv, TakenInv, TypeOK
  <2>2. items[p][call[p].product] + call[p].quantity \in Nat
    <3>1. call[p].product \in Products /\ call[p].quantity \in Nat
      BY <2>1, NumbersAssumption DEF CartRequests
    <3>2. items[p][call[p].product] \in Nat
      BY <2>1, <3>1
    <3>3. QED  BY <3>1, <3>2
  <2>3. cart' \in [Users -> [Products -> Nat]]
    BY <1>2, <2>2, ItemType DEF SetItem
  <2>4. QED  BY <1>2, <2>3, CartWriteStep DEF AddWrite, SetItem
<1>3. QED  BY <1>1, <1>2 DEF AddWrite

\* The quantity asked for is written.
LEMMA UpdateWriteStep == ASSUME IInv, NEW p \in Procs, UpdateWrite(p) PROVE IInv'
<1>1. CASE UNCHANGED db
  BY <1>1, CartWriteStep DEF UpdateWrite, db, IInv, TypeOK
<1>2. CASE SetItem(call[p].user, call[p].product, call[p].quantity)
  <2>1. call[p] \in CartRequests
    BY DEF UpdateWrite, IInv, TakenInv
  <2>2. call[p].quantity \in Nat
    BY <2>1, NumbersAssumption DEF CartRequests
  <2>3. cart' \in [Users -> [Products -> Nat]]
    BY <1>2, <2>2, ItemType DEF SetItem
  <2>4. QED  BY <1>2, <2>3, CartWriteStep DEF UpdateWrite, SetItem
<1>3. QED  BY <1>1, <1>2 DEF UpdateWrite

-----------------------------------------------------------------------------
\* A cart alone changes.
LEMMA CartStep ==
    ASSUME IInv, UNCHANGED <<product, supply, orders, tx>>,
           cart' \in [Users -> [Products -> Nat]]
    PROVE  IInv'
<1>1. TypeOK' /\ NeverOversold'
  BY DEF IInv, TypeOK, NeverOversold, tx
<1>2. QED  BY <1>1, RowStep DEF IInv, TypeOK

\* An item leaves a cart.
LEMMA RemoveItemStep ==
    ASSUME IInv, NEW u \in Users, NEW x \in Products, RemoveItem(u, x) PROVE IInv'
BY ItemType, CartStep DEF RemoveItem, SetItem

\* A cart is emptied.
LEMMA ClearCartStep == ASSUME IInv, NEW u \in Users, ClearCart(u) PROVE IInv'
<1>1. cart' \in [Users -> [Products -> Nat]]
  BY DEF ClearCart, IInv, TypeOK, NoItems
<1>2. QED  BY <1>1, CartStep DEF ClearCart

\* A product row is rewritten while nobody holds it.
LEMMA ProductStep ==
    ASSUME IInv, NEW x \in Products, Unlocked({x}), UNCHANGED <<orders, tx>>,
           NEW written \in ProductRow, written.stock >= 0, product' = [product EXCEPT ![x] = written],
           supply' \in [Products -> Int], cart' \in [Users -> [Products -> Nat]]
    PROVE  IInv'
<1>1. TypeOK'
  BY DEF IInv, TypeOK, tx
<1>2. NeverOversold'
  BY DEF IInv, TypeOK, NeverOversold
<1>3. ASSUME NEW q \in Procs, NEW y \in taken[q]
      PROVE  product'[y].stock = product[y].stock /\ product'[y].status = product[y].status
  <2>1. y # x /\ y \in Products
    BY DEF Unlocked, IInv, TypeOK
  <2>2. product'[y] = product[y]
    BY <2>1 DEF IInv, TypeOK
  <2>3. QED  BY <2>2
<1>4. QED  BY <1>1, <1>2, <1>3, RowStep

\* A row with another stock is a product's row.
LEMMA StockWritten ==
    ASSUME NEW written \in ProductRow, NEW n \in Nat
    PROVE  [written EXCEPT !.stock = n] \in ProductRow /\ [written EXCEPT !.stock = n].stock = n
BY DEF ProductRow

\* A seller's edit writes price and stock, and supplies what it adds.
LEMMA EditStep ==
    ASSUME IInv, NEW x \in Products, NEW price \in Prices,
           NEW stock \in Stocks \cup {product[x].stock}, Edit(x, price, stock)
    PROVE  IInv'
<1> DEFINE written == [product[x] EXCEPT !.price = price, !.stock = stock]
<1>1. product[x] \in ProductRow /\ product[x].stock \in Int /\ product[x].stock >= 0
  BY DEF IInv, TypeOK, NeverOversold, ProductRow
<1>2. price \in Nat /\ stock \in Nat
  <2> HIDE DEF written
  <2>1. Prices \subseteq Nat /\ Stocks \subseteq Nat
    BY NumbersAssumption
  <2>2. product[x].stock \in Nat
    BY <1>1
  <2>3. QED  BY <2>1, <2>2
<1>3. written \in ProductRow /\ written.stock >= 0
  <2> DEFINE priced == [product[x] EXCEPT !.price = price]
  <2>1. priced \in ProductRow
    BY <1>1, <1>2 DEF ProductRow
  <2>2. written = [priced EXCEPT !.stock = stock]
    BY <1>1
  <2> HIDE DEF priced, written
  <2>3. QED  BY <1>2, <2>1, <2>2, StockWritten
<1>4. product' = [product EXCEPT ![x] = written]
  BY <1>1 DEF Edit, IInv, TypeOK
<1>5. supply' \in [Products -> Int]
  BY <1>1, <1>2 DEF Edit, IInv, TypeOK
<1>6. /\ Unlocked({x}) /\ UNCHANGED <<orders, tx>>
      /\ cart' \in [Users -> [Products -> Nat]]
  BY DEF Edit, IInv, TypeOK
<1> HIDE DEF written
<1>7. QED  BY <1>3, <1>4, <1>5, <1>6, ProductStep

\* A change of status only touches the status.
LEMMA StatusStep ==
    ASSUME IInv, NEW x \in Products, NEW from, NEW to \in ProductStatus,
           SetStatus(x, from, to), cart' \in [Users -> [Products -> Nat]]
    PROVE  IInv'
<1> DEFINE written == [product[x] EXCEPT !.status = to]
<1>1. product[x] \in ProductRow /\ product[x].stock >= 0
  BY DEF IInv, TypeOK, NeverOversold
<1>2. written \in ProductRow /\ written.stock >= 0
  BY <1>1 DEF ProductRow
<1>3. product' = [product EXCEPT ![x] = written]
  BY <1>1 DEF SetStatus, IInv, TypeOK
<1>4. Unlocked({x}) /\ UNCHANGED <<supply, orders, tx>>
  BY DEF SetStatus
<1>5. supply' \in [Products -> Int]
  BY <1>4 DEF IInv, TypeOK
<1> HIDE DEF written
<1>6. QED  BY <1>2, <1>3, <1>4, <1>5, ProductStep

\* Submission, approval, rejection, restoring and archiving.
LEMMA ModerationStep ==
    ASSUME IInv, NEW x \in Products,
           Submit(x) \/ Approve(x) \/ Reject(x) \/ Restore(x) \/ Archive(x)
    PROVE  IInv'
<1>1. cart \in [Users -> [Products -> Nat]]
  BY DEF IInv, TypeOK
<1>2. CASE Archive(x)
  <2>1. cart' \in [Users -> [Products -> Nat]]
    BY <1>1, <1>2 DEF Archive
  <2>2. QED  BY <1>2, <2>1, StatusStep DEF Archive, ProductStatus
<1>3. CASE Submit(x) \/ Approve(x) \/ Reject(x) \/ Restore(x)
  BY <1>1, <1>3, StatusStep DEF Submit, Approve, Reject, Restore, ProductStatus
<1>4. QED  BY <1>2, <1>3

\* A cancelled order puts its units back, once.
LEMMA CancelStep == ASSUME IInv, NEW k \in Keys, Cancel(k) PROVE IInv'
<1>1. /\ \A x \in Products : product'[x] = [product[x] EXCEPT !.stock = product[x].stock + orders[k].lines[x]]
      /\ product' = [x \in Products |-> product'[x]]
  BY DEF Cancel
<1>2. \A x \in Products : /\ product[x] \in ProductRow /\ orders[k].lines[x] \in Nat
                          /\ product[x].stock \in Int /\ product[x].stock >= 0
  BY DEF IInv, TypeOK, OrderRow, NeverOversold, ProductRow
<1>3. \A x \in Products : product'[x] \in ProductRow /\ product'[x].stock >= 0
  BY <1>1, <1>2 DEF ProductRow
<1>4. orders' \in [Keys -> OrderRow]
  BY DEF Cancel, IInv, TypeOK, OrderRow
<1>5. TypeOK'
  BY <1>1, <1>3, <1>4 DEF Cancel, IInv, TypeOK, tx
<1>6. NeverOversold'
  BY <1>3 DEF NeverOversold
<1>7. ASSUME NEW q \in Procs, NEW x \in taken[q]
      PROVE  product'[x].stock = product[x].stock /\ product'[x].status = product[x].status
  <2>1. x \in Products /\ orders[k].lines[x] = 0
    BY <1>2 DEF Cancel, Unlocked, IInv, TypeOK
  <2>2. QED  BY <1>1, <1>2, <2>1 DEF ProductRow
<1>8. QED  BY <1>5, <1>6, <1>7, RowStep DEF Cancel

-----------------------------------------------------------------------------
\* Every step preserves the invariant.
LEMMA StepInv == ASSUME IInv, Next PROVE IInv'
<1>1. CASE \E p \in Procs : \E r \in Requests : Start(p, r)
  BY <1>1, StartStep
<1>2. CASE \E p \in Procs : Step(p)
  BY <1>2, TakeStep, CommitStep, AddWriteStep, UpdateWriteStep, RollbackStep DEF Step, Abort
<1>3. CASE \E u \in Users, x \in Products : RemoveItem(u, x)
  BY <1>3, RemoveItemStep
<1>4. CASE \E u \in Users : ClearCart(u)
  BY <1>4, ClearCartStep
<1>5. CASE \E x \in Managed, price \in Prices :
              \E stock \in Stocks \cup {product[x].stock} : Edit(x, price, stock)
  BY <1>5, EditStep, ProductsAssumption
<1>6. CASE \E x \in Managed : Submit(x) \/ Approve(x) \/ Reject(x) \/ Restore(x) \/ Archive(x)
  BY <1>6, ModerationStep, ProductsAssumption
<1>7. CASE \E k \in Keys : Cancel(k)
  BY <1>7, CancelStep
<1>8. QED  BY <1>1, <1>2, <1>3, <1>4, <1>5, <1>6, <1>7 DEF Next

\* So does a step that changes nothing.
LEMMA StutterInv == ASSUME IInv, UNCHANGED vars PROVE IInv'
<1>1. UNCHANGED <<product, supply, cart, orders, tx>> /\ TypeOK' /\ NeverOversold'
  BY DEF vars, db, tx, IInv, TypeOK, NeverOversold
<1>2. QED  BY <1>1, RowStep

\* The catalogue at rest, no order yet.
LEMMA InitInv == Init => IInv
<1> SUFFICES ASSUME Init PROVE IInv
  OBVIOUS
<1>1. product \in [Products -> ProductRow] /\ \A x \in Products : product[x].stock \in Nat
  <2> DEFINE offered == [stock : Stocks, price : Prices, status : {"ACTIVE"}]
  <2>1. product \in [Products -> offered]
    BY DEF Init
  <2>2. ASSUME NEW written \in offered PROVE written \in ProductRow /\ written.stock \in Nat
    <3>1. /\ written = [stock |-> written.stock, price |-> written.price, status |-> "ACTIVE"]
          /\ written.stock \in Stocks /\ written.price \in Prices
      OBVIOUS
    <3>2. written.stock \in Nat /\ written.price \in Nat
      BY <3>1, NumbersAssumption
    <3>3. QED  BY <3>1, <3>2 DEF ProductRow, ProductStatus
  <2> HIDE DEF offered
  <2>3. QED  BY <2>1, <2>2
<1>2. supply \in [Products -> Int]
  BY <1>1 DEF Init
<1>3. NoItems \in [Products -> Nat] /\ NoOrder \in OrderRow
  BY DEF NoItems, NoOrder, OrderRow
<1>4. TypeOK
  BY <1>1, <1>2, <1>3 DEF Init, TypeOK
<1>5. NeverOversold
  BY <1>1 DEF NeverOversold
<1>6. LocksAreExclusive /\ \A p \in Procs : TakenInv(p)
  BY DEF Init, LocksAreExclusive, TakenInv
<1>7. QED  BY <1>4, <1>5, <1>6 DEF IInv

\* Every step of a customer, a seller or a moderator keeps the invariant.
THEOREM Invariant == Spec => []IInv
<1>1. IInv /\ [Next]_vars => IInv'
  BY StepInv, StutterInv
<1>2. QED  BY <1>1, InitInv, PTL DEF Spec

\* The rows, the carts, the orders and the handlers keep their types.
THEOREM TypeCorrect == Spec => []TypeOK
<1>1. IInv => TypeOK
  BY DEF IInv
<1>2. QED  BY <1>1, Invariant, PTL

\* No checkout takes units that are not there, however many of them race for a
\* product and whatever its seller does meanwhile.
THEOREM StockNeverNegative == Spec => []NeverOversold
<1>1. IInv => NeverOversold
  BY DEF IInv
<1>2. QED  BY <1>1, Invariant, PTL

-----------------------------------------------------------------------------
\* What can happen to an order in a step: it is made by a checkout that holds the
\* rows of its lines, or it is cancelled, or nothing.
LEMMA OrderEffect ==
    ASSUME IInv, Next, NEW k \in Keys
    PROVE  \/ orders'[k] = orders[k]
           \/ orders'[k] = [orders[k] EXCEPT !.live = FALSE] /\ orders[k].live
           \/ /\ orders[k] = NoOrder
              /\ \A x \in Products : orders'[k].lines[x] > 0 => product[x].status = "ACTIVE"
<1>1. CASE orders' = orders
  BY <1>1
<1>2. CASE \E j \in Keys : Cancel(j)
  BY <1>2 DEF Cancel, IInv, TypeOK
<1>3. ASSUME NEW p \in Procs, CheckoutCommit(p), ~KeyUsed(call[p].key)
      PROVE  \/ orders'[k] = orders[k]
             \/ /\ orders[k] = NoOrder
                /\ \A x \in Products : orders'[k].lines[x] > 0 => product[x].status = "ACTIVE"
  <2>1. CASE k # call[p].key
    BY <1>3, <2>1, CommitEffect DEF IInv, TypeOK
  <2>2. CASE k = call[p].key
    <3>1. orders'[k] = OrderOf(p) /\ orders[k] = NoOrder
      BY <1>3, <2>2, CommitEffect DEF IInv, TypeOK, KeyUsed
    <3>2. orders'[k].lines = items[p]
      BY <3>1 DEF OrderOf
    <3>3. \A x \in Products : items[p][x] > 0 => product[x].status = "ACTIVE"
      BY <1>3, CommitEffect DEF Takeable
    <3>4. QED  BY <3>1, <3>2, <3>3
  <2>3. QED  BY <2>1, <2>2
<1>4. ASSUME NEW p \in Procs, Step(p)
      PROVE  orders' = orders \/ (CheckoutCommit(p) /\ ~KeyUsed(call[p].key))
  BY <1>4
     DEF Step, CheckoutTake, CheckoutCommit, AddWrite, UpdateWrite, Abort, Rollback, db,
         SetItem
<1>5. CASE \E p \in Procs : \E r \in Requests : Start(p, r)
  BY <1>1, <1>5 DEF Start, CheckoutStart, AddStart, UpdateStart, Begin, db
<1>6. CASE \E p \in Procs : Step(p)
  BY <1>1, <1>3, <1>4, <1>6
<1>7. CASE orders' = orders \/ \E j \in Keys : Cancel(j)
  BY <1>1, <1>2, <1>7
<1>8. \/ \E p \in Procs : \E r \in Requests : Start(p, r)
      \/ \E p \in Procs : Step(p)
      \/ orders' = orders
      \/ \E j \in Keys : Cancel(j)
  BY
     DEF Next, RemoveItem, SetItem, ClearCart, Edit, Submit, Approve, Reject, Restore,
         Archive, SetStatus
<1>9. QED  BY <1>5, <1>6, <1>7, <1>8

\* Only what is on sale is ordered.
THEOREM OnlyOnSale == Spec => OrderedFromSale
<1>1. ASSUME IInv, [Next]_vars
      PROVE  [\A k \in Keys : orders[k] = NoOrder /\ orders'[k] # NoOrder =>
                 \A x \in Products : orders'[k].lines[x] > 0 => product[x].status = "ACTIVE"]_vars
  <2>1. CASE UNCHANGED vars
    BY <2>1
  <2>2. CASE Next
    <3>1. ~NoOrder.live
      BY DEF NoOrder
    <3>2. QED  BY <1>1, <2>2, <3>1, OrderEffect
  <2>3. QED  BY <1>1, <2>1, <2>2
<1>2. QED  BY <1>1, Invariant, PTL DEF Spec, OrderedFromSale

\* A key makes one order, whoever retries and whatever was rolled back.
THEOREM KeyMakesOneOrder == Spec => OneOrderPerKey
<1>1. ASSUME IInv, [Next]_vars
      PROVE  [\A k \in Keys : orders[k] # NoOrder =>
                 orders'[k] \in {orders[k], [orders[k] EXCEPT !.live = FALSE]}]_vars
  <2>1. CASE UNCHANGED vars
    BY <2>1
  <2>2. CASE Next
    BY <1>1, <2>2, OrderEffect
  <2>3. QED  BY <1>1, <2>1, <2>2
<1>2. QED  BY <1>1, Invariant, PTL DEF Spec, OneOrderPerKey

-----------------------------------------------------------------------------
\* The split of any amount loses nothing and gives away one cent at most.
THEOREM SplitOfAnyAmount ==
    ASSUME NEW n \in Nat
    PROVE  Commission(n) + SellerEarnings(n) \in {n, n + 1}
BY SMTT(30) DEF Commission, SellerEarnings, Tenth

\* The split of every sub-order loses nothing: its subtotal is an amount.
THEOREM SplitCorrect == Spec => []SplitIsWhole
<1>1. ASSUME TypeOK, NEW k \in Keys, NEW s PROVE Subtotal(k, s) \in Nat
  <2> DEFINE xs == {x \in Products : Seller[x] = s}
             f == LineTotal(k)
  <2>1. IsFiniteSet(xs)
    BY ProductsAssumption, FS_Subset
  <2>2. \A x \in xs : f[x] \in Nat
    <3>1. ASSUME NEW x \in Products PROVE f[x] \in Nat
      <4>1. orders[k].lines[x] \in Nat /\ orders[k].prices[x] \in Nat
        BY <1>1 DEF TypeOK, OrderRow
      <4>2. \A m, n \in Nat : m * n \in Nat
        OBVIOUS
      <4>3. QED  BY <4>1, <4>2 DEF LineTotal
    <3>2. QED  BY <3>1
  <2> HIDE DEF xs, f
  <2>3. SumFunctionOnSet(f, xs) \in Nat
    BY <2>1, <2>2, SumNat
  <2>4. QED  BY <2>3 DEF Subtotal, f, xs
<1>2. TypeOK => SplitIsWhole
  BY <1>1, SplitOfAnyAmount DEF SplitIsWhole
<1>3. QED  BY <1>2, TypeCorrect, PTL

-----------------------------------------------------------------------------
(* Units in stock and in orders *)

\* The units of a product in orders are numbers, and their sum is one.
LEMMA UnitsType ==
    ASSUME IInv, NEW x \in Products
    PROVE  \A k \in Keys : Units(x)[k] = orders[k].lines[x] /\ Units(x)[k] \in Nat
BY DEF IInv, TypeOK, OrderRow, Units

\* Nothing is made or lost when no order changes and stock and supply change alike.
LEMMA AccountKept ==
    ASSUME IInv, Accounted, orders' = orders,
           \A x \in Products : /\ product'[x].stock \in Int /\ supply'[x] \in Int
                               /\ product'[x].stock - product[x].stock = supply'[x] - supply[x]
    PROVE  Accounted'
<1>1. Live' = Live /\ \A x \in Products : Units(x)' = Units(x)
  BY DEF Live, Units
<1>2. ASSUME NEW x \in Products
      PROVE  product'[x].stock + SumFunctionOnSet(Units(x), Live) = supply'[x]
  <2> DEFINE sum == SumFunctionOnSet(Units(x), Live)
  <2>1. sum \in Nat
    <3>1. \A k \in Live : Units(x)[k] \in Nat
      BY UnitsType DEF Live
    <3>2. QED  BY <3>1, SumNat DEF Accounted
  <2>2. product[x].stock + sum = supply[x]
    BY DEF Accounted, UnitsAccounted
  <2>3. product[x].stock \in Int /\ supply[x] \in Int
    BY DEF IInv, TypeOK, ProductRow
  <2> HIDE DEF sum
  <2>4. product'[x].stock + sum = supply'[x]
    BY <2>1, <2>2, <2>3
  <2>5. QED  BY <2>4 DEF sum
<1>3. QED  BY <1>1, <1>2 DEF Accounted, UnitsAccounted

\* A checkout that commits moves the units of its lines from stock to its order.
LEMMA CommitAccounts ==
    ASSUME IInv, IInv', Accounted, NEW p \in Procs, CheckoutCommit(p), ~KeyUsed(call[p].key)
    PROVE  Accounted'
<1> DEFINE key == call[p].key
<1>1. /\ key \in Keys /\ orders' = [orders EXCEPT ![key] = OrderOf(p)]
      /\ orders[key] = NoOrder /\ supply' = supply
  BY CommitEffect DEF KeyUsed, CheckoutCommit
<1>2. orders'[key] = OrderOf(p) /\ \A k \in Keys \ {key} : orders'[k] = orders[k]
  BY <1>1 DEF IInv, TypeOK
<1>3. Live' = Live \cup {key} /\ key \notin Live
  BY <1>1, <1>2 DEF Live, OrderOf, NoOrder
<1>4. IsFiniteSet(Live) /\ IsFiniteSet(Live')
  BY <1>3, FS_AddElement DEF Accounted
<1>5. ASSUME NEW x \in Products
      PROVE  product'[x].stock + SumFunctionOnSet(Units(x)', Live') = supply'[x]
  <2> DEFINE f == Units(x)
             g == Units(x)'
             sum == SumFunctionOnSet(f, Live)
  <2>1. \A k \in Keys : f[k] \in Nat
    BY UnitsType
  <2>2. \A k \in Keys : g[k] = orders'[k].lines[x]
    BY DEF Units
  <2>3. g[key] = items[p][x] /\ items[p][x] \in Nat
    BY <1>1, <1>2, <2>2, CommitEffect DEF OrderOf
  <2>4. \A k \in Live : g[k] = f[k]
    BY <1>2, <1>3, <2>2 DEF Live, Units
  <2>5. \A k \in Live \cup {key} : g[k] \in Int
    BY <2>1, <2>3, <2>4 DEF Live
  <2>6. \A k \in Live : f[k] \in Nat
    BY <2>1 DEF Live
  <2>7. product[x].stock + sum = supply[x]
    BY DEF Accounted, UnitsAccounted
  <2> HIDE DEF f, g, key
  <2>8. SumFunctionOnSet(g, Live \cup {key}) = SumFunctionOnSet(g, Live) + g[key]
    BY <1>3, <1>4, <2>5, SumAdd
  <2>9. SumFunctionOnSet(g, Live) = sum
    BY <1>4, <2>4, SumSame
  <2>10. sum \in Nat
    BY <1>4, <2>6, SumNat
  <2>11. product'[x].stock = product[x].stock - items[p][x] /\ product[x].stock \in Int
    <3>1. product'[x] = [product[x] EXCEPT !.stock = product[x].stock - items[p][x]]
      BY CommitEffect
    <3>2. QED  BY <3>1 DEF IInv, TypeOK, ProductRow
  <2>12. SumFunctionOnSet(g, Live') = sum + items[p][x]
    BY <1>3, <2>3, <2>8, <2>9, Zenon
  <2>13. supply'[x] = supply[x] /\ supply[x] \in Int
    BY <1>1 DEF IInv, TypeOK
  <2> HIDE DEF sum
  <2>14. product'[x].stock + SumFunctionOnSet(g, Live') = supply'[x]
    BY <2>3, <2>7, <2>10, <2>11, <2>12, <2>13
  <2>15. QED  BY <2>14 DEF g
<1>6. QED  BY <1>4, <1>5 DEF Accounted, UnitsAccounted

\* A cancellation moves them back.
LEMMA CancelAccounts ==
    ASSUME IInv, Accounted, NEW k \in Keys, Cancel(k)
    PROVE  Accounted'
<1>1. /\ orders[k].live /\ orders' = [orders EXCEPT ![k].live = FALSE] /\ supply' = supply
      /\ product' = [x \in Products |->
                        [product[x] EXCEPT !.stock = product[x].stock + orders[k].lines[x]]]
  BY DEF Cancel
<1>2. /\ ~orders'[k].live /\ orders'[k].lines = orders[k].lines
      /\ \A j \in Keys \ {k} : orders'[j] = orders[j]
  BY <1>1 DEF IInv, TypeOK, OrderRow
<1>3. Live' = Live \ {k} /\ k \in Live
  BY <1>1, <1>2 DEF Live
<1>4. IsFiniteSet(Live) /\ IsFiniteSet(Live')
  BY <1>3, FS_RemoveElement DEF Accounted
<1>5. ASSUME NEW x \in Products
      PROVE  product'[x].stock + SumFunctionOnSet(Units(x)', Live') = supply'[x]
  <2> DEFINE f == Units(x)
             g == Units(x)'
             sum == SumFunctionOnSet(f, Live)
             less == SumFunctionOnSet(f, Live \ {k})
  <2>1. \A j \in Keys : f[j] = orders[j].lines[x] /\ f[j] \in Nat
    BY UnitsType
  <2>2. \A j \in Keys : g[j] = f[j]
    BY <1>2 DEF Units
  <2>3. product[x].stock + sum = supply[x]
    BY DEF Accounted, UnitsAccounted
  <2>4. \A j \in Live : f[j] \in Int /\ f[j] \in Nat
    BY <2>1 DEF Live
  <2>5. \A j \in Live' : g[j] = f[j]
    BY <1>3, <2>2 DEF Live
  <2>6. product[x].stock \in Int /\ supply[x] \in Int /\ product[x] \in ProductRow
    BY DEF IInv, TypeOK, ProductRow
  <2>7. product'[x].stock = product[x].stock + f[k]
    <3>1. product'[x] = [product[x] EXCEPT !.stock = product[x].stock + f[k]]
      BY <1>1, <2>1
    <3> HIDE DEF f
    <3>2. QED  BY <2>6, <3>1 DEF ProductRow
  <2> HIDE DEF f, g
  <2>8. sum = f[k] + less
    BY <1>3, <1>4, <2>4, SumRemove
  <2>9. SumFunctionOnSet(g, Live') = less
    <3>1. SumFunctionOnSet(g, Live') = SumFunctionOnSet(f, Live')
      BY <1>4, <2>5, SumSame
    <3>2. QED  BY <1>3, <3>1
  <2>10. sum \in Nat /\ f[k] \in Nat
    BY <1>4, <2>1, <2>4, SumNat
  <2>11. less \in Nat
    <3>1. IsFiniteSet(Live \ {k}) /\ \A j \in Live \ {k} : f[j] \in Nat
      BY <1>3, <1>4, <2>4
    <3>2. QED  BY <3>1, SumNat
  <2>12. supply'[x] = supply[x]
    BY <1>1
  <2> HIDE DEF sum, less
  <2>13. product'[x].stock + SumFunctionOnSet(g, Live') = supply'[x]
    BY <2>3, <2>6, <2>7, <2>8, <2>9, <2>10, <2>11, <2>12
  <2>14. QED  BY <2>13 DEF g
<1>6. QED  BY <1>4, <1>5 DEF Accounted, UnitsAccounted

\* Any other step but an edit leaves stock, supply and orders alone.
LEMMA StockSame ==
    ASSUME IInv, \/ \E p \in Procs, r \in Requests : Start(p, r)
                 \/ \E p \in Procs : Step(p) /\ ~(CheckoutCommit(p) /\ ~KeyUsed(call[p].key))
                 \/ \E u \in Users, x \in Products : RemoveItem(u, x)
                 \/ \E u \in Users : ClearCart(u)
                 \/ \E x \in Managed :
                       Submit(x) \/ Approve(x) \/ Reject(x) \/ Restore(x) \/ Archive(x)
                 \/ UNCHANGED vars
    PROVE  /\ orders' = orders /\ supply' = supply
           /\ \A x \in Products : product'[x].stock = product[x].stock
<1>1. ASSUME NEW x, NEW from, NEW to, SetStatus(x, from, to)
      PROVE  \A y \in Products : product'[y].stock = product[y].stock
  BY <1>1 DEF SetStatus, IInv, TypeOK, ProductRow
<1>2. CASE \E x \in Managed : Submit(x) \/ Approve(x) \/ Reject(x) \/ Restore(x) \/ Archive(x)
  BY <1>1, <1>2 DEF Submit, Approve, Reject, Restore, Archive, SetStatus
<1>3. CASE \E p \in Procs, r \in Requests : Start(p, r)
  BY <1>3 DEF Start, CheckoutStart, AddStart, UpdateStart, Begin, db
<1>4. CASE \E p \in Procs : Step(p) /\ ~(CheckoutCommit(p) /\ ~KeyUsed(call[p].key))
  BY <1>4
     DEF Step, CheckoutTake, CheckoutCommit, AddWrite, UpdateWrite, Abort, Rollback, db,
         SetItem
<1>5. CASE \/ \E u \in Users, x \in Products : RemoveItem(u, x)
           \/ \E u \in Users : ClearCart(u)
           \/ UNCHANGED vars
  BY <1>5 DEF RemoveItem, SetItem, ClearCart, vars, db
<1>6. QED  BY <1>2, <1>3, <1>4, <1>5

\* Units are never made or lost by a step.
LEMMA AccountStep == ASSUME IInv, IInv', Accounted, [Next]_vars PROVE Accounted'
<1>1. \A x \in Products : /\ product[x].stock \in Int /\ supply[x] \in Int
                          /\ product'[x].stock \in Int /\ supply'[x] \in Int
  BY DEF IInv, TypeOK, ProductRow
<1>2. CASE \E p \in Procs : CheckoutCommit(p) /\ ~KeyUsed(call[p].key)
  BY <1>2, CommitAccounts
<1>3. CASE \E k \in Keys : Cancel(k)
  BY <1>3, CancelAccounts
<1>4. ASSUME NEW x \in Managed, NEW price \in Prices,
             NEW stock \in Stocks \cup {product[x].stock}, Edit(x, price, stock)
      PROVE  Accounted'
  <2>1. /\ product' = [product EXCEPT ![x].price = price, ![x].stock = stock]
        /\ supply' = [supply EXCEPT ![x] = supply[x] + (stock - product[x].stock)]
        /\ orders' = orders /\ x \in Products
    BY <1>4, ProductsAssumption DEF Edit
  <2>2. product'[x].stock = stock /\ supply'[x] = supply[x] + (stock - product[x].stock)
    BY <2>1 DEF IInv, TypeOK, ProductRow
  <2>3. \A y \in Products \ {x} : product'[y] = product[y] /\ supply'[y] = supply[y]
    BY <2>1 DEF IInv, TypeOK
  <2>4. stock \in Int
    BY <1>1, <2>1, <2>2
  <2>5. ASSUME NEW y \in Products
        PROVE  product'[y].stock - product[y].stock = supply'[y] - supply[y]
    <3>1. CASE y = x
      BY <1>1, <2>2, <2>4, <3>1
    <3>2. CASE y # x
      BY <1>1, <2>3, <3>2
    <3>3. QED  BY <3>1, <3>2
  <2>6. QED  BY <1>1, <2>1, <2>5, AccountKept
<1>5. CASE /\ orders' = orders /\ supply' = supply
           /\ \A x \in Products : product'[x].stock = product[x].stock
  BY <1>1, <1>5, AccountKept
<1>6. QED  BY <1>2, <1>3, <1>4, <1>5, StockSame DEF Next

\* Nothing is in an order, or finitely many orders hold what was put up.
LEMMA InitAccounted == Init /\ IInv => Accounted
<1> SUFFICES ASSUME Init, IInv PROVE Accounted
  OBVIOUS
<1>1. Live = {}
  BY DEF Init, Live, NoOrder
<1>2. ASSUME NEW x \in Products
      PROVE  product[x].stock + SumFunctionOnSet(Units(x), Live) = supply[x]
  <2>1. SumFunctionOnSet(Units(x), Live) = 0
    BY <1>1, SumEmpty
  <2>2. product[x].stock = supply[x] /\ supply[x] \in Int
    BY DEF Init, IInv, TypeOK
  <2>3. QED  BY <2>1, <2>2
<1>3. QED  BY <1>1, <1>2, FS_EmptySet DEF Accounted, UnitsAccounted

\* Units in stock and in orders that are not cancelled are those the seller put up.
THEOREM StockAccounted == Spec => []UnitsAccounted
<1>1. IInv /\ IInv' /\ Accounted /\ [Next]_vars => Accounted'
  BY AccountStep
<1>2. Spec => []Accounted
  BY <1>1, InitAccounted, InitInv, Invariant, PTL DEF Spec
<1>3. Accounted => UnitsAccounted
  BY DEF Accounted
<1>4. QED  BY <1>2, <1>3, PTL

-----------------------------------------------------------------------------
(* Catalog: its rows, jobs and documents *)

\* Writes are numbered from 1, versions from 0.
LEMMA Numbers ==
    /\ Cardinality(Events) \in Nat /\ Version = 0..Cardinality(Events)
    /\ \A e \in Events : e \in Nat /\ e >= 1 /\ e \in Version
<1>1. Cardinality(Events) \in Nat
  BY CatalogAssumption, FS_CardinalityType
<1>2. QED  BY <1>1, CatalogAssumption DEF Version

\* A reported write stays reported, and no other row is done.
LEMMA InsertEffect ==
    ASSUME OutboxTypeOK, NEW e \in Events, Insert(e)
    PROVE  /\ OutboxTypeOK' /\ running' = running /\ ~Reported(e) /\ Reported(e)'
           /\ row'[e].status = "PENDING"
           /\ \A f \in Events \ {e} : row'[f] = row[f]
BY DEF OutboxTypeOK, Insert, Inserted, Reported, RowStatus

\* What dispatching, claiming and dropping a row and failing leave alone.
LEMMA QueueEffect ==
    ASSUME OutboxTypeOK, NEW e \in Events, NEW w \in Workers,
           Redeliver(e) \/ Enqueue(e) \/ Take(w, e) \/ Skip(w, e) \/ Crash(w) \/ Stall(w)
    PROVE  /\ OutboxTypeOK'
           /\ \A f \in Events : /\ Reported(f)' = Reported(f)
                                /\ row'[f].status = "PROCESSED" => row[f].status = "PROCESSED"
<1> USE DEF OutboxTypeOK, Handled
<1>1. CASE Redeliver(e)
  BY <1>1 DEF Redeliver, LeaseExpired, RowStatus, Reported
<1>2. CASE Enqueue(e)
  BY <1>2 DEF Enqueue, Reported
<1>3. CASE Take(w, e)
  BY <1>3 DEF Take, Claimable, RowStatus, Reported
<1>4. CASE Skip(w, e)
  BY <1>4 DEF Skip, NoJob, Reported
<1>5. CASE Stall(w)
  BY <1>5 DEF Stall, CountFailure, Reported
<1>6. CASE Crash(w)
  <2>1. failures' \in Nat /\ row' = row
    BY <1>6 DEF Crash, CountFailure
  <2>2. running' \in [Workers -> [event : Events \cup {Nothing}, tries : Nat]]
    BY <1>6 DEF Crash, AtRest
  <2>3. job' \in [Events -> [at : {"absent", "waiting", "failed"} \cup Workers, tries : Nat]]
    <3>1. running[w].event \in Events
      BY <1>6 DEF Crash
    <3>2. \/ job' = [job EXCEPT ![running[w].event].at = "waiting"]
          \/ job' = [job EXCEPT ![running[w].event] = GivenUp]
          \/ job' = job
      BY <1>6 DEF Crash
    <3>3. GivenUp \in [at : {"absent", "waiting", "failed"} \cup Workers, tries : Nat]
      BY DEF GivenUp, NoJob
    <3>4. CASE job' = [job EXCEPT ![running[w].event] = GivenUp]
      BY <3>1, <3>3, <3>4
    <3>5. CASE job' = [job EXCEPT ![running[w].event].at = "waiting"] \/ job' = job
      BY <3>1, <3>5
    <3>6. QED  BY <3>2, <3>4, <3>5
  <2>4. QED  BY <2>1, <2>2, <2>3 DEF Reported
<1>7. QED  BY <1>1, <1>2, <1>3, <1>4, <1>5, <1>6

\* A worker leaves its row.
LEMMA LeaveEffect ==
    ASSUME OutboxTypeOK, NEW w \in Workers, NEW s \in RowStatus \ {"ABSENT"},
           Reported(Handled(w)), failures' \in Nat,
           NEW after \in [at : {"absent", "waiting", "failed"} \cup Workers, tries : Nat],
           Leave(w, s, after)
    PROVE  /\ OutboxTypeOK' /\ running' = [running EXCEPT ![w] = AtRest]
           /\ \A f \in Events :
                 /\ Reported(f)' = Reported(f)
                 /\ row'[f].status = "PROCESSED" =>
                       row[f].status = "PROCESSED" \/ (s = "PROCESSED" /\ f = Handled(w))
<1>1. Handled(w) \in Events
  BY DEF OutboxTypeOK, Leave, Handled
<1>2. row' = [row EXCEPT ![Handled(w)].status = s]
  BY DEF Leave
<1>3. job' \in [Events -> [at : {"absent", "waiting", "failed"} \cup Workers, tries : Nat]]
  BY <1>1 DEF Leave, OutboxTypeOK
<1>4. running' = [running EXCEPT ![w] = AtRest]
  BY DEF Leave
<1>5. OutboxTypeOK'
  BY <1>1, <1>2, <1>3, <1>4 DEF OutboxTypeOK, AtRest
<1>6. QED  BY <1>1, <1>2, <1>4, <1>5 DEF OutboxTypeOK, Reported

\* A worker that succeeds marks its row PROCESSED, and no other.
LEMMA SucceedEffect ==
    ASSUME OutboxTypeOK, NEW w \in Workers, Reported(Handled(w)), Succeed(w)
    PROVE  /\ OutboxTypeOK' /\ running' = [running EXCEPT ![w] = AtRest]
           /\ \A f \in Events :
                 /\ Reported(f)' = Reported(f)
                 /\ row'[f].status = "PROCESSED" =>
                       row[f].status = "PROCESSED" \/ f = Handled(w)
<1>1. NoJob \in [at : {"absent", "waiting", "failed"} \cup Workers, tries : Nat]
  BY DEF NoJob
<1>2. Leave(w, "PROCESSED", NoJob) /\ failures' \in Nat /\ "PROCESSED" \in RowStatus \ {"ABSENT"}
  BY DEF Succeed, OutboxTypeOK, RowStatus
<1>3. QED  BY <1>1, <1>2, LeaveEffect

\* A worker that fails marks none.
LEMMA FailEffect ==
    ASSUME OutboxTypeOK, NEW w \in Workers, Reported(Handled(w)), Fail(w), failures' \in Nat
    PROVE  /\ OutboxTypeOK' /\ running' = [running EXCEPT ![w] = AtRest]
           /\ \A f \in Events :
                 /\ Reported(f)' = Reported(f)
                 /\ row'[f].status = "PROCESSED" => row[f].status = "PROCESSED"
<1> DEFINE made == running[w].tries + 1
           s == IF Handled(w) \in MarksFailed /\ made >= JobAttempts THEN "FAILED"
                ELSE "PENDING"
           after == IF made < JobAttempts THEN [at |-> "waiting", tries |-> made] ELSE GivenUp
<1>1. made \in Nat
  BY DEF OutboxTypeOK
<1>2. after \in [at : {"absent", "waiting", "failed"} \cup Workers, tries : Nat]
  BY <1>1 DEF GivenUp, NoJob
<1>3. s \in RowStatus \ {"ABSENT"} /\ s # "PROCESSED"
  BY DEF RowStatus
<1>4. Leave(w, s, after)
  BY DEF Fail
<1> HIDE DEF made, s, after
<1>5. QED  BY <1>2, <1>3, <1>4, LeaveEffect

-----------------------------------------------------------------------------
(* The search index *)

\* What the steps of the queue have in common for the caches: nothing.
LEMMA CachesAlone ==
    ASSUME CatalogInv, OutboxTypeOK', UNCHANGED <<productRow, caches>>,
           step' \in [Workers -> {"rest", "receipt", "read", "send", "mark", "record", "finish"}],
           held' \in [Workers -> Version], receipts' \subseteq Events,
           starting' \in {"read", "send", "done"} \X Version,
           document' \in Version \cup {Missing}, sent' \subseteq Events,
           crossed' \subseteq Callers, overtaken' \in BOOLEAN
    PROVE  CatalogTypeOK' /\ (\A e \in Writes : CopiesInv(e)') /\ StaleOnlyByOverlap'
<1>1. CatalogTypeOK'
  BY DEF CatalogInv, CatalogTypeOK, productRow, caches
<1>2. QED  BY <1>1 DEF CatalogInv, CopiesInv, StaleOnlyByOverlap, productRow, caches, At, Scanned

\* A worker that does nothing is as before, unless another calls Meilisearch: then it
\* has been crossed.
LEMMA JobStays ==
    ASSUME CatalogInv, NEW v \in Workers, UNCHANGED productRow, sent \subseteq sent',
           step'[v] = step[v], held'[v] = held[v], running'[v] = running[v],
           v \notin crossed' => v \notin crossed /\ sent' = sent,
           \A f \in Events : Reported(f)' = Reported(f)
    PROVE  JobInv(v)'
<1>1. Handled(v)' = Handled(v) /\ Asked(v)' = Asked(v)
  BY DEF Handled, Asked, productRow
<1>2. JobInv(v)
  BY DEF CatalogInv
<1>3. QED  BY <1>1, <1>2 DEF JobInv

\* A step of one worker keeps the invariant of rows and jobs.
LEMMA WorkerKeeps ==
    ASSUME CatalogInv, NEW w \in Workers, UNCHANGED productRow, sent \subseteq sent',
           \A v \in Workers \ {w} :
               /\ step'[v] = step[v] /\ held'[v] = held[v] /\ running'[v] = running[v]
               /\ v \notin crossed' => v \notin crossed /\ sent' = sent,
           \A f \in Events : /\ Reported(f)' = Reported(f)
                             /\ row'[f].status = "PROCESSED" \/ f \in receipts' => f \in sent'
                             /\ f \in sent' => Reported(f),
           JobInv(w)'
    PROVE  (\A e \in Events : RowInv(e)') /\ (\A v \in Workers : JobInv(v)')
<1>1. ASSUME NEW e \in Events PROVE RowInv(e)'
  BY DEF CatalogInv, RowInv, productRow
<1>2. ASSUME NEW v \in Workers \ {w} PROVE JobInv(v)'
  BY JobStays
<1>3. QED  BY <1>1, <1>2

\* Meilisearch is not called, and the starting application has not read.
LEMMA DocumentKeeps ==
    ASSUME CatalogInv, UNCHANGED <<productRow, starting, document, sent, overtaken>>,
           "start" \notin crossed' => "start" \notin crossed
    PROVE  DocumentInv'
BY DEF CatalogInv, DocumentInv, productRow

\* A worker leaves its row, PROCESSED only if Meilisearch has been told of it.
LEMMA LeavingKeeps ==
    ASSUME CatalogInv, NEW w \in Workers, Rest(w), OutboxTypeOK',
           running' = [running EXCEPT ![w] = AtRest],
           UNCHANGED <<productRow, caches, receipts, search>>,
           \A f \in Events :
               /\ Reported(f)' = Reported(f)
               /\ row'[f].status = "PROCESSED" => row[f].status = "PROCESSED" \/ f \in sent
    PROVE  CatalogInv'
<1>1. /\ step' = [step EXCEPT ![w] = "rest"] /\ held' = [held EXCEPT ![w] = 0]
      /\ UNCHANGED <<starting, document, sent, crossed, overtaken>>
  BY DEF Rest, Goto, search
<1>2. /\ step'[w] = "rest"
      /\ \A v \in Workers \ {w} :
            step'[v] = step[v] /\ held'[v] = held[v] /\ running'[v] = running[v]
  BY <1>1 DEF CatalogInv, CatalogTypeOK, OutboxTypeOK
<1>3. CatalogTypeOK' /\ (\A e \in Writes : CopiesInv(e)') /\ StaleOnlyByOverlap'
  <2>1. 0 \in Version
    BY Numbers
  <2>2. QED  BY <1>1, <2>1, CachesAlone DEF CatalogInv, CatalogTypeOK
<1>4. JobInv(w)'
  <2>1. Handled(w)' = Nothing
    BY DEF CatalogInv, CatalogTypeOK, OutboxTypeOK, Handled, AtRest
  <2>2. QED  BY <1>2, <2>1, NothingAssumption DEF JobInv
<1>5. \A f \in Events : /\ row'[f].status = "PROCESSED" \/ f \in receipts' => f \in sent'
                        /\ f \in sent' => Reported(f)
  BY <1>1 DEF CatalogInv, RowInv
<1>6. (\A e \in Events : RowInv(e)') /\ (\A v \in Workers : JobInv(v)')
  BY <1>1, <1>2, <1>4, <1>5, WorkerKeeps
<1>7. DocumentInv'
  BY <1>1, DocumentKeeps
<1>8. QED  BY <1>3, <1>6, <1>7 DEF CatalogInv

\* A worker goes on with its row, without a call to Meilisearch.
LEMMA GoingKeeps ==
    ASSUME CatalogInv, NEW w \in Workers, OutboxTypeOK',
           NEW s \in {"receipt", "read", "send", "mark", "record", "finish"}, Goto(w, s),
           \A v \in Workers \ {w} : running'[v] = running[v],
           held' = held \/ \E n \in Version : held' = [held EXCEPT ![w] = n],
           UNCHANGED <<productRow, caches, starting, document, sent, overtaken>>,
           crossed' = crossed \/ crossed' = crossed \ {w},
           receipts' \subseteq Events,
           \A f \in Events :
               /\ Reported(f)' = Reported(f)
               /\ row'[f].status = "PROCESSED" => row[f].status = "PROCESSED"
               /\ f \in receipts' => f \in receipts \/ f \in sent,
           JobInv(w)'
    PROVE  CatalogInv'
<1>1. step' = [step EXCEPT ![w] = s]
  BY DEF Goto
<1>2. \A v \in Workers \ {w} :
          /\ step'[v] = step[v] /\ held'[v] = held[v] /\ running'[v] = running[v]
          /\ v \notin crossed' => v \notin crossed /\ sent' = sent
  BY <1>1 DEF CatalogInv, CatalogTypeOK
<1>3. held' \in [Workers -> Version] /\ crossed' \subseteq Callers
  BY DEF CatalogInv, CatalogTypeOK
<1>4. CatalogTypeOK' /\ (\A e \in Writes : CopiesInv(e)') /\ StaleOnlyByOverlap'
  BY <1>1, <1>3, CachesAlone DEF CatalogInv, CatalogTypeOK
<1>5. \A f \in Events : /\ row'[f].status = "PROCESSED" \/ f \in receipts' => f \in sent'
                        /\ f \in sent' => Reported(f)
  BY DEF CatalogInv, RowInv
<1>6. (\A e \in Events : RowInv(e)') /\ (\A v \in Workers : JobInv(v)')
  BY <1>2, <1>5, WorkerKeeps
<1>7. DocumentInv'
  BY CatalogAssumption, DocumentKeeps
<1>8. QED  BY <1>4, <1>6, <1>7 DEF CatalogInv

\* A row is claimed.
LEMMA ClaimStep ==
    ASSUME CatalogInv, NEW w \in Workers, NEW e \in Events, Claim(w, e) PROVE CatalogInv'
<1>1. /\ Take(w, e) /\ Goto(w, "receipt")
      /\ UNCHANGED <<productRow, caches, held, receipts, starting, document, sent, crossed, overtaken>>
  BY DEF Claim, search
<1>2. OutboxTypeOK /\ receipts \subseteq Events
  BY DEF CatalogInv, CatalogTypeOK
<1>3. /\ OutboxTypeOK'
      /\ \A f \in Events : /\ Reported(f)' = Reported(f)
                           /\ row'[f].status = "PROCESSED" => row[f].status = "PROCESSED"
  BY <1>1, <1>2, QueueEffect
<1>4. /\ running' = [running EXCEPT ![w] = [event |-> e, tries |-> job[e].tries]]
      /\ step' = [step EXCEPT ![w] = "receipt"] /\ Reported(e)
  BY <1>1 DEF Take, Claimable, Reported, Goto
<1>5. /\ Handled(w)' = e /\ step'[w] = "receipt"
      /\ \A v \in Workers \ {w} : running'[v] = running[v]
  BY <1>2, <1>4 DEF CatalogInv, CatalogTypeOK, OutboxTypeOK, Handled
<1>6. JobInv(w)'
  BY <1>3, <1>4, <1>5 DEF JobInv
<1>7. QED  BY <1>1, <1>2, <1>3, <1>5, <1>6, GoingKeeps

\* Steps that leave the workers where they are.
LEMMA WorkersStay ==
    ASSUME CatalogInv, OutboxTypeOK',
           \A f \in Events : /\ Reported(f)' = Reported(f)
                             /\ row'[f].status = "PROCESSED" => row[f].status = "PROCESSED",
           UNCHANGED <<running, productRow, caches, index>>
    PROVE  CatalogInv'
<1>1. UNCHANGED <<step, held, receipts, starting, document, sent, crossed, overtaken>>
  BY DEF index, working, search
<1>2. CatalogTypeOK' /\ (\A e \in Writes : CopiesInv(e)') /\ StaleOnlyByOverlap'
  BY <1>1, CachesAlone DEF CatalogInv, CatalogTypeOK
<1>3. ASSUME NEW e \in Events PROVE RowInv(e)'
  BY <1>1 DEF CatalogInv, RowInv, productRow
<1>4. ASSUME NEW w \in Workers PROVE JobInv(w)'
  BY <1>1, JobStays
<1>5. DocumentInv'
  BY <1>1, DocumentKeeps
<1>6. QED  BY <1>2, <1>3, <1>4, <1>5 DEF CatalogInv

\* A job whose receipt is there is done; the others go on.
LEMMA FindReceiptStep ==
    ASSUME CatalogInv, NEW w \in Workers, FindReceipt(w) PROVE CatalogInv'
<1>1. /\ step[w] = "receipt"
      /\ UNCHANGED <<productRow, caches, receipts, search>>
      /\ UNCHANGED <<starting, document, sent, crossed, overtaken>>
  BY DEF FindReceipt, search
<1>2. Handled(w) \in Events /\ Reported(Handled(w)) /\ OutboxTypeOK
  BY <1>1 DEF CatalogInv, CatalogTypeOK, JobInv
<1>3. CASE Handled(w) \in receipts
  <2>1. Succeed(w) /\ Rest(w)
    BY <1>3 DEF FindReceipt
  <2>2. Handled(w) \in sent
    BY <1>2, <1>3 DEF CatalogInv, RowInv
  <2>3. QED  BY <1>1, <1>2, <2>1, <2>2, SucceedEffect, LeavingKeeps
<1>4. CASE Handled(w) \notin receipts
  <2>1. Goto(w, "read") /\ UNCHANGED <<outbox, held>>
    BY <1>4 DEF FindReceipt, Following
  <2>2. /\ UNCHANGED <<row, running>> /\ step' = [step EXCEPT ![w] = "read"]
        /\ OutboxTypeOK'
    BY <1>2, <2>1 DEF outbox, Goto, OutboxTypeOK
  <2>3. step'[w] = "read" /\ \A f \in Events : Reported(f)' = Reported(f)
    BY <2>2 DEF CatalogInv, CatalogTypeOK, Reported
  <2>4. JobInv(w)'
    BY <1>1, <1>2, <2>2, <2>3 DEF JobInv, Handled
  <2>5. receipts' \subseteq Events
    BY <1>1 DEF CatalogInv, CatalogTypeOK
  <2>6. QED  BY <1>1, <2>1, <2>2, <2>3, <2>4, <2>5, GoingKeeps
<1>5. QED  BY <1>3, <1>4

\* What the calls of a job that leave the outbox alone have in common.
LEMMA CallEffect ==
    ASSUME CatalogInv, NEW w \in Workers, NEW s \in {"read", "send", "mark"}, JobStep(w, s),
           UNCHANGED <<outbox, productRow>>
    PROVE  /\ Goto(w, Following[s]) /\ step'[w] = Following[s] /\ Following[s] \in {"send", "mark", "record"}
           /\ s = "read" => Following[s] = "send"
           /\ s = "send" => Following[s] = "mark"
           /\ s = "mark" => Following[s] = "record"
           /\ OutboxTypeOK' /\ UNCHANGED <<row, running>>
           /\ Handled(w) \in Events /\ Reported(Handled(w))
           /\ Handled(w)' = Handled(w) /\ Asked(w)' = Asked(w)
           /\ \A f \in Events : Reported(f)' = Reported(f)
<1>1. Following["read"] = "send" /\ Following["send"] = "mark" /\ Following["mark"] = "record"
  BY DEF Following
<1>2. step[w] = s /\ Goto(w, Following[s]) /\ step' = [step EXCEPT ![w] = Following[s]]
  BY DEF JobStep, Goto
<1>3. UNCHANGED <<row, running, action>> /\ OutboxTypeOK'
  BY DEF outbox, productRow, CatalogInv, CatalogTypeOK, OutboxTypeOK
<1>4. Handled(w) \in Events /\ Reported(Handled(w))
  BY <1>2 DEF CatalogInv, JobInv
<1>5. step'[w] = Following[s]
  BY <1>2 DEF CatalogInv, CatalogTypeOK
<1>6. /\ Handled(w)' = Handled(w) /\ Asked(w)' = Asked(w)
      /\ \A f \in Events : Reported(f)' = Reported(f)
  BY <1>3 DEF Handled, Asked, Reported
<1>7. QED  BY <1>1, <1>2, <1>3, <1>4, <1>5, <1>6

\* What is sent was committed, and is no newer than what is read.
LEMMA SentIsCommitted ==
    ASSUME CatalogInv
    PROVE  \A e \in sent : e \in Events /\ Reported(e) /\ e \in Nat /\ version \in Nat /\ version >= e
BY Numbers DEF CatalogInv, CatalogTypeOK, RowInv

\* The product that is read is at least as new as the event, which was committed with
\* it, and as all that has been sent.
LEMMA ReadStep == ASSUME CatalogInv, NEW w \in Workers, ReadProduct(w) PROVE CatalogInv'
<1>1. /\ JobStep(w, "read") /\ crossed' = crossed \ {w}
      /\ UNCHANGED <<outbox, productRow, caches, receipts, starting, document, sent, overtaken>>
  BY DEF ReadProduct
<1>2. version \in Version /\ version \in Nat /\ 0 \in Version /\ receipts' \subseteq Events
  BY <1>1, Numbers DEF CatalogInv, CatalogTypeOK
<1>3. /\ held' = [held EXCEPT ![w] = IF Asked(w) = "index" THEN version ELSE 0]
      /\ held'[w] = IF Asked(w) = "index" THEN version ELSE 0
  BY DEF ReadProduct, CatalogInv, CatalogTypeOK
<1>4. Handled(w) =< version
  BY <1>1, CallEffect DEF CatalogInv, RowInv
<1>5. /\ Goto(w, "send") /\ step'[w] = "send" /\ OutboxTypeOK' /\ UNCHANGED <<row, running>>
      /\ Handled(w)' = Handled(w) /\ Asked(w)' = Asked(w)
      /\ Handled(w) \in Events /\ Reported(Handled(w))
      /\ \A f \in Events : Reported(f)' = Reported(f)
  BY <1>1, CallEffect
<1>6. JobInv(w)'
  <2>1. Asked(w) = "index" => held'[w] >= Handled(w) /\ \A e \in sent : held'[w] >= e
    BY <1>2, <1>3, <1>4, <1>5, Numbers, SentIsCommitted
  <2>2. QED  BY <1>1, <1>5, <2>1 DEF JobInv
<1>7. QED  BY <1>1, <1>2, <1>3, <1>5, <1>6, GoingKeeps

\* The write to Redis.
LEMMA MarkStep == ASSUME CatalogInv, NEW w \in Workers, Mark(w) PROVE CatalogInv'
<1>1. /\ JobStep(w, "mark")
      /\ UNCHANGED <<outbox, productRow, caches, held, receipts, starting, document, sent, crossed, overtaken>>
  BY DEF Mark, search
<1>2. /\ Goto(w, "record") /\ step'[w] = "record" /\ OutboxTypeOK' /\ UNCHANGED <<row, running>>
      /\ Handled(w)' = Handled(w) /\ Handled(w) \in Events /\ Reported(Handled(w))
      /\ \A f \in Events : Reported(f)' = Reported(f)
  BY <1>1, CallEffect
<1>3. Handled(w) \in sent
  BY <1>1 DEF CatalogInv, JobInv, JobStep
<1>4. JobInv(w)'
  BY <1>1, <1>2, <1>3 DEF JobInv
<1>5. receipts' \subseteq Events
  BY <1>1 DEF CatalogInv, CatalogTypeOK
<1>6. QED  BY <1>1, <1>2, <1>4, <1>5, GoingKeeps

\* The call to Meilisearch: a caller that no other has crossed leaves there what is at
\* least as new as its event and as all that was sent, and a deletion that is not late
\* is that of the newest event.
LEMMA SendStep == ASSUME CatalogInv, NEW w \in Workers, Send(w) PROVE CatalogInv'
<1>1. /\ JobStep(w, "send") /\ sent' = sent \cup {Handled(w)} /\ crossed' = Callers
      /\ UNCHANGED <<outbox, productRow, caches, held, receipts, starting>>
  BY DEF Send, Post
<1>2. \/ /\ Asked(w) = "index" /\ document' = held[w] /\ overtaken' = (w \in crossed)
      \/ /\ Asked(w) = "delete" /\ document' = Missing
         /\ overtaken' = \E e \in sent : e > Handled(w)
  BY DEF Send, Post
<1>3. /\ Goto(w, "mark") /\ step'[w] = "mark" /\ OutboxTypeOK' /\ UNCHANGED <<row, running>>
      /\ Handled(w)' = Handled(w) /\ Handled(w) \in Events /\ Reported(Handled(w))
      /\ \A f \in Events : Reported(f)' = Reported(f)
  BY <1>1, CallEffect
<1>4. /\ held[w] \in Version /\ step[w] = "send" /\ Handled(w) \in Nat
      /\ \A e \in sent : e \in Nat
  BY <1>1, <1>3, Numbers, SentIsCommitted DEF CatalogInv, CatalogTypeOK, JobStep
<1>5. document' \in Version \cup {Missing} /\ overtaken' \in BOOLEAN
  <2>1. CASE Asked(w) = "index" /\ document' = held[w] /\ overtaken' = (w \in crossed)
    BY <1>4, <2>1
  <2>2. CASE document' = Missing /\ overtaken' = \E e \in sent : e > Handled(w)
    BY <2>2
  <2>3. QED  BY <1>2, <2>1, <2>2
<1>6. step' = [step EXCEPT ![w] = "mark"]
  BY <1>3 DEF Goto
<1>7. sent' \subseteq Events /\ crossed' \subseteq Callers
  BY <1>1, <1>3 DEF CatalogInv, CatalogTypeOK
<1>8. CatalogTypeOK' /\ (\A e \in Writes : CopiesInv(e)') /\ StaleOnlyByOverlap'
  BY <1>1, <1>3, <1>5, <1>6, <1>7, CachesAlone DEF CatalogInv, CatalogTypeOK
<1>9. JobInv(w)'
  BY <1>1, <1>3 DEF JobInv
<1>10. \A v \in Workers \ {w} :
          /\ step'[v] = step[v] /\ held'[v] = held[v] /\ running'[v] = running[v]
          /\ v \in crossed'
  BY <1>1, <1>3, <1>6 DEF CatalogInv, CatalogTypeOK, Callers
<1>11. \A f \in Events : /\ row'[f].status = "PROCESSED" \/ f \in receipts' => f \in sent'
                         /\ f \in sent' => Reported(f)
  BY <1>1, <1>3 DEF CatalogInv, RowInv
<1>12. (\A e \in Events : RowInv(e)') /\ (\A v \in Workers : JobInv(v)')
  BY <1>1, <1>3, <1>9, <1>10, <1>11, WorkerKeeps
<1>13. DocumentInv'
  <2>1. "start" \in crossed'
    BY <1>1 DEF Callers
  <2>2. CASE Asked(w) = "index"
    <3>1. /\ held[w] >= Handled(w)
          /\ w \notin crossed => \A e \in sent : held[w] >= e
      BY <1>4, <2>2 DEF CatalogInv, JobInv
    <3>2. ~overtaken' => \A e \in sent' : document' >= e
      BY <1>1, <1>2, <2>2, <3>1
    <3>3. QED  BY <2>1, <3>2 DEF DocumentInv
  <2>3. CASE Asked(w) = "delete"
    <3>1. ~overtaken' => \A e \in sent' : e =< Handled(w)
      BY <1>1, <1>2, <1>4, <2>3
    <3>2. action'[Handled(w)] = "delete" /\ Handled(w) \in sent' /\ document' = Missing
      BY <1>1, <1>2, <2>3 DEF productRow, Asked
    <3>3. QED  BY <2>1, <3>1, <3>2 DEF DocumentInv
  <2>4. QED  BY <1>2, <2>2, <2>3
<1>14. QED  BY <1>8, <1>12, <1>13 DEF CatalogInv

\* The receipt is written once Meilisearch has been told.
LEMMA RecordStep == ASSUME CatalogInv, NEW w \in Workers, Record(w) PROVE CatalogInv'
<1>1. /\ step[w] = "record"
      /\ UNCHANGED <<productRow, caches, search>>
      /\ UNCHANGED <<starting, document, sent, crossed, overtaken>>
  BY DEF Record, search
<1>2. /\ Handled(w) \in Events /\ Reported(Handled(w)) /\ Handled(w) \in sent /\ OutboxTypeOK
      /\ receipts \subseteq Events
  BY <1>1 DEF CatalogInv, CatalogTypeOK, JobInv
<1>3. CASE Handled(w) \in receipts
  <2>1. Fail(w) /\ Rest(w) /\ UNCHANGED <<failures, receipts>>
    BY <1>3 DEF Record
  <2>2. failures' \in Nat
    BY <1>2, <2>1 DEF OutboxTypeOK
  <2>3. QED  BY <1>1, <1>2, <2>1, <2>2, FailEffect, LeavingKeeps
<1>4. CASE Handled(w) \notin receipts
  <2>1. /\ receipts' = receipts \cup {Handled(w)} /\ Goto(w, "finish")
        /\ UNCHANGED <<outbox, held>>
    BY <1>4 DEF Record, Following
  <2>2. /\ UNCHANGED <<row, running>> /\ step' = [step EXCEPT ![w] = "finish"]
        /\ OutboxTypeOK'
    BY <1>2, <2>1 DEF outbox, Goto, OutboxTypeOK
  <2>3. /\ step'[w] = "finish" /\ Handled(w)' = Handled(w)
        /\ \A f \in Events : Reported(f)' = Reported(f)
    BY <2>2 DEF CatalogInv, CatalogTypeOK, Reported, Handled
  <2>4. JobInv(w)'
    BY <1>1, <1>2, <2>3 DEF JobInv
  <2>5. receipts' \subseteq Events
    BY <1>2, <2>1
  <2>6. QED  BY <1>1, <1>2, <2>1, <2>2, <2>3, <2>4, <2>5, GoingKeeps
<1>5. QED  BY <1>3, <1>4

\* The row is PROCESSED once Meilisearch has been told.
LEMMA CompleteStep == ASSUME CatalogInv, NEW w \in Workers, CompleteJob(w) PROVE CatalogInv'
<1>1. /\ step[w] = "finish" /\ Succeed(w) /\ Rest(w)
      /\ UNCHANGED <<productRow, caches, receipts, search>>
  BY DEF CompleteJob
<1>2. Reported(Handled(w)) /\ Handled(w) \in sent /\ OutboxTypeOK
  BY <1>1 DEF CatalogInv, CatalogTypeOK, JobInv
<1>3. QED  BY <1>1, <1>2, SucceedEffect, LeavingKeeps

\* An error, a crash or a stall leaves the row to another try.
LEMMA TroubleStep == ASSUME CatalogInv, NEW w \in Workers, Trouble(w) PROVE CatalogInv'
<1>1. UNCHANGED <<productRow, caches, receipts, search>>
  BY DEF Trouble
<1>2. OutboxTypeOK /\ (Handled(w) # Nothing => Handled(w) \in Events)
  BY DEF CatalogInv, CatalogTypeOK, OutboxTypeOK, Handled
<1>3. CASE Error(w) /\ Rest(w)
  <2>1. Fail(w) /\ failures' \in Nat
    BY <1>2, <1>3 DEF Error, CountFailure, OutboxTypeOK
  <2>2. Reported(Handled(w))
    BY <1>2, <2>1 DEF Fail, Leave, CatalogInv, JobInv
  <2>3. QED  BY <1>1, <1>2, <1>3, <2>1, <2>2, FailEffect, LeavingKeeps
<1>4. CASE Crash(w) /\ Rest(w)
  <2>1. Handled(w) \in Events /\ running' = [running EXCEPT ![w] = AtRest]
    BY <1>2, <1>4 DEF Crash
  <2>2. QED  BY <1>1, <1>2, <1>4, <2>1, QueueEffect, LeavingKeeps
<1>5. CASE Stall(w) /\ UNCHANGED <<step, held>>
  <2>1. Handled(w) \in Events /\ running' = running
    BY <1>2, <1>5 DEF Stall
  <2>2. QED  BY <1>1, <1>2, <1>5, <2>1, QueueEffect, WorkersStay DEF index, working
<1>6. QED  BY <1>3, <1>4, <1>5 DEF Trouble

\* The queue's own steps.
LEMMA QueueStep ==
    ASSUME CatalogInv, NEW e \in Events,
           Dispatch(e) \/ \E w \in Workers : Drop(w, e)
    PROVE  CatalogInv'
<1>1. OutboxTypeOK
  BY DEF CatalogInv, CatalogTypeOK
<1>2. CASE Dispatch(e)
  <2>1. /\ OutboxTypeOK' /\ UNCHANGED <<running, productRow, caches, index>>
        /\ \A f \in Events : /\ Reported(f)' = Reported(f)
                             /\ row'[f].status = "PROCESSED" => row[f].status = "PROCESSED"
    <3>1. CASE Redeliver(e)
      BY <1>1, <1>2, <3>1
         DEF Dispatch, Redeliver, LeaseExpired, OutboxTypeOK, RowStatus, Reported
    <3>2. CASE Enqueue(e)
      BY <1>1, <1>2, <3>2 DEF Dispatch, Enqueue, OutboxTypeOK, Reported
    <3>3. QED  BY <1>2, <3>1, <3>2 DEF Dispatch
  <2>2. QED  BY <2>1, WorkersStay
<1>3. ASSUME NEW w \in Workers, Drop(w, e) PROVE CatalogInv'
  <2>1. Skip(w, e) /\ UNCHANGED <<running, productRow, caches, index>>
    BY <1>3 DEF Drop, Skip
  <2>2. QED  BY <1>1, <2>1, QueueEffect, WorkersStay
<1>4. QED  BY <1>2, <1>3

\* The reindex of the start is a caller like the workers.
LEMMA ReindexStep ==
    ASSUME CatalogInv, ReindexRead \/ ReindexSend \/ ReindexFail PROVE CatalogInv'
<1>1. /\ version \in Version /\ 0 \in Version /\ starting \in {"read", "send", "done"} \X Version
      /\ document \in Version \cup {Missing} /\ overtaken \in BOOLEAN /\ crossed \subseteq Callers
  BY Numbers DEF CatalogInv, CatalogTypeOK
<1>2. UNCHANGED <<row, job, running, productRow, caches, step, held, receipts, sent>>
  BY DEF ReindexRead, ReindexSend, ReindexFail, outbox, working
<1>3. /\ OutboxTypeOK' /\ \A f \in Events : Reported(f)' = Reported(f)
  <2>1. failures' \in Nat
    BY DEF ReindexRead, ReindexSend, ReindexFail, CountFailure, outbox, CatalogInv, CatalogTypeOK,
           OutboxTypeOK
  <2>2. QED  BY <1>2, <2>1 DEF CatalogInv, CatalogTypeOK, OutboxTypeOK, Reported
<1>4. /\ starting' \in {"read", "send", "done"} \X Version
      /\ document' \in Version \cup {Missing} /\ overtaken' \in BOOLEAN /\ crossed' \subseteq Callers
      /\ \A w \in Workers : w \notin crossed' => w \notin crossed
      /\ DocumentInv'
  <2>1. CASE ReindexRead
    <3>1. /\ starting' = <<"send", version>> \/ starting' = <<"done", 0>>
          /\ crossed' = crossed \ {"start"} /\ UNCHANGED <<document, sent, overtaken>>
      BY <2>1 DEF ReindexRead
    <3>2. starting'[1] = "send" => \A e \in sent : starting'[2] >= e
      BY <3>1, SentIsCommitted
    <3>3. DocumentInv'
      BY <1>2, <3>1, <3>2 DEF CatalogInv, DocumentInv, productRow
    <3>4. QED  BY <1>1, <3>1, <3>3, CatalogAssumption
  <2>2. CASE ReindexSend
    <3>1. /\ starting[1] = "send" /\ starting' = <<"done", 0>> /\ crossed' = Callers
          /\ document' = starting[2] /\ overtaken' = ("start" \in crossed)
      BY <2>2 DEF ReindexSend, Post
    <3>2. ~overtaken' => \A e \in sent : document' >= e
      BY <3>1 DEF CatalogInv, DocumentInv
    <3>3. DocumentInv'
      BY <1>2, <3>1, <3>2 DEF DocumentInv, Callers
    <3>4. QED  BY <1>1, <3>1, <3>3 DEF Callers
  <2>3. CASE ReindexFail
    <3>1. starting' = <<"done", 0>> /\ UNCHANGED <<document, sent, crossed, overtaken>>
      BY <2>3 DEF ReindexFail
    <3>2. DocumentInv'
      BY <1>2, <3>1 DEF CatalogInv, DocumentInv, productRow
    <3>3. QED  BY <1>1, <3>1, <3>2
  <2>4. QED  BY <2>1, <2>2, <2>3
<1>5. CatalogTypeOK' /\ (\A e \in Writes : CopiesInv(e)') /\ StaleOnlyByOverlap'
  BY <1>2, <1>3, <1>4, CachesAlone DEF CatalogInv, CatalogTypeOK
<1>6. ASSUME NEW e \in Events PROVE RowInv(e)'
  BY <1>2, <1>3 DEF CatalogInv, RowInv, productRow
<1>7. ASSUME NEW w \in Workers PROVE JobInv(w)'
  BY <1>2, <1>3, <1>4, JobStays
<1>8. QED  BY <1>4, <1>5, <1>6, <1>7 DEF CatalogInv

\* What a worker does.
LEMMA WorkStep == ASSUME CatalogInv, NEW w \in Workers, Work(w) PROVE CatalogInv'
BY ClaimStep, QueueStep, FindReceiptStep, ReadStep, SendStep, MarkStep, RecordStep, CompleteStep
   DEF Work

-----------------------------------------------------------------------------
(* Writes *)

\* The steps of a request, by their number.
LEMMA Steps ==
    ASSUME CatalogTypeOK, NEW e \in Writes
    PROVE  /\ writer[e] \in 1..4 /\ e \in Events
           /\ At(e, "commit") <=> writer[e] = 1
           /\ At(e, "scan") <=> writer[e] = 2
           /\ At(e, "delete") <=> writer[e] = 3
           /\ At(e, "return") <=> writer[e] = 4
<1>1. writer[e] \in 1..4 /\ e \in Events
  BY DEF CatalogTypeOK, Writes
<1>2. Course[1] = "commit" /\ Course[2] = "scan" /\ Course[3] = "delete" /\ Course[4] = "return"
  BY DEF Course
<1>3. writer[e] = 1 \/ writer[e] = 2 \/ writer[e] = 3 \/ writer[e] = 4
  BY <1>1
<1>4. QED  BY <1>1, <1>2, <1>3 DEF At

\* A copy is as new as the last write that returned, or overlapped a scan.
LEMMA CopiesImplyStale ==
    ASSUME \A e \in Writes : CopiesInv(e)'
    PROVE  StaleOnlyByOverlap'
<1> SUFFICES ASSUME NEW k \in Caches, NEW e \in Writes,
                    At(e, "return")', e \notin failed', k \in lists'[e], entry'[k] # NoCopy
             PROVE  entry'[k].version >= e \/ entry'[k].overlapped
  BY DEF StaleOnlyByOverlap
<1>1. Scanned(e)' /\ ~At(e, "delete")'
  BY DEF Scanned, At
<1>2. QED  BY <1>1 DEF CopiesInv

\* The next version is committed: no copy has to be as new yet, or none ever.
LEMMA VersionEffect ==
    ASSUME CatalogInv, NEW e \in Writes, NEW new \in Status, NEW patterns \in SUBSET Caches,
           Commit(e, new, patterns), OutboxTypeOK',
           action' \in [Writes -> {"nothing", "index", "delete"}]
    PROVE  /\ CatalogTypeOK' /\ (\A f \in Writes : CopiesInv(f)') /\ StaleOnlyByOverlap'
           /\ version \in Nat /\ e = version + 1 /\ version' = e
           /\ UNCHANGED <<step, held, receipts, starting, document, sent, crossed, overtaken>>
<1>1. version \in Nat /\ e = version + 1 /\ version' = e /\ e \in Events /\ e \in Version
  BY Numbers DEF Commit, CatalogInv, CatalogTypeOK, Writes
<1>2. /\ At(e, "commit") /\ status' = new
      /\ writer' = [writer EXCEPT ![e] = IF patterns = {} THEN 4 ELSE writer[e] + 1]
      /\ lists' = [lists EXCEPT ![e] = patterns]
      /\ UNCHANGED <<found, failed, entry, reader>>
      /\ UNCHANGED <<step, held, receipts, starting, document, sent, crossed, overtaken>>
  BY DEF Commit, Proceed, index, working, search
<1>3. writer[e] = 1
  BY <1>2, Steps DEF CatalogInv
<1>4. writer' \in [Writes -> 1..4] /\ writer'[e] \in {2, 4} /\ (writer'[e] = 4 => patterns = {})
  BY <1>2, <1>3 DEF CatalogInv, CatalogTypeOK
<1>5. CatalogTypeOK'
  BY <1>1, <1>2, <1>4 DEF CatalogInv, CatalogTypeOK
<1>6. ASSUME NEW f \in Writes PROVE CopiesInv(f)'
  <2>1. CASE f = e
    <3>1. Scanned(f)' => writer'[e] = 4
      BY <1>4, <2>1 DEF At, Course, Scanned
    <3>2. Scanned(f)' => lists'[f] = {}
      BY <1>2, <1>4, <2>1, <3>1 DEF CatalogInv, CatalogTypeOK
    <3>3. QED  BY <1>1, <2>1, <3>2 DEF CopiesInv
  <2>2. CASE f # e
    <3>1. writer'[f] = writer[f] /\ lists'[f] = lists[f]
      BY <1>2, <2>2 DEF CatalogInv, CatalogTypeOK
    <3>2. \A s : At(f, s)' = At(f, s)
      BY <3>1 DEF At
    <3>3. f \in Nat
      BY Numbers DEF Writes
    <3>4. ~At(f, "commit")' => f =< version'
      BY <1>1, <3>2, <3>3 DEF CatalogInv, CopiesInv
    <3>5. Scanned(f)' = Scanned(f) /\ At(f, "delete")' = At(f, "delete")
      BY <3>2 DEF Scanned
    <3>6. QED  BY <1>2, <3>1, <3>4, <3>5 DEF CatalogInv, CopiesInv
  <2>3. QED  BY <2>1, <2>2
<1>7. StaleOnlyByOverlap'
  BY <1>6, CopiesImplyStale
<1>8. QED  BY <1>1, <1>2, <1>5, <1>6, <1>7

\* A write with an outbox row: no worker has it yet, and nothing of it is sent.
LEMMA ReportingStep ==
    ASSUME CatalogInv, NEW e \in Writes, NEW new \in Status, NEW wanted \in {"index", "delete"},
           NEW patterns \in SUBSET Caches, Reporting(e, new, wanted, patterns)
    PROVE  CatalogInv'
<1>1. /\ Commit(e, new, patterns) /\ Insert(e) /\ action' = [action EXCEPT ![e] = wanted]
      /\ e \in Events
  BY DEF Reporting, Writes
<1>2. /\ OutboxTypeOK' /\ running' = running /\ ~Reported(e) /\ Reported(e)'
      /\ row'[e].status = "PENDING"
      /\ \A f \in Events \ {e} : row'[f] = row[f]
  BY <1>1, InsertEffect DEF CatalogInv, CatalogTypeOK
<1>3. action'[e] = wanted /\ \A f \in Events \ {e} : action'[f] = action[f]
  BY <1>1 DEF CatalogInv, CatalogTypeOK, Writes
<1>4. /\ CatalogTypeOK' /\ (\A f \in Writes : CopiesInv(f)') /\ StaleOnlyByOverlap'
      /\ version \in Nat /\ e = version + 1 /\ version' = e
      /\ UNCHANGED <<step, held, receipts, starting, document, sent, crossed, overtaken>>
  <2>1. action' \in [Writes -> {"nothing", "index", "delete"}]
    BY <1>1 DEF CatalogInv, CatalogTypeOK
  <2>2. QED  BY <1>1, <1>2, <2>1, VersionEffect
<1>5. e \notin sent /\ e \notin receipts /\ \A f \in sent : f \in Events \ {e}
  BY <1>1, <1>2, SentIsCommitted DEF CatalogInv, RowInv
<1>6. \A f \in Events \ {e} : Reported(f)' = Reported(f)
  BY <1>2 DEF Reported
<1>7. RowInv(e)'
  BY <1>2, <1>3, <1>4, <1>5 DEF RowInv
<1>8. ASSUME NEW f \in Events \ {e} PROVE RowInv(f)'
  <2>1. RowInv(f) /\ f \in Nat
    BY Numbers DEF CatalogInv
  <2>2. QED  BY <1>2, <1>3, <1>4, <1>6, <2>1 DEF RowInv
<1>9. ASSUME NEW w \in Workers PROVE JobInv(w)'
  <2>1. Handled(w)' = Handled(w) /\ JobInv(w)
    BY <1>2 DEF Handled, CatalogInv
  <2>2. Handled(w) \in Events => Handled(w) # e /\ Asked(w)' = Asked(w)
    BY <1>2, <1>3, <2>1 DEF JobInv, Asked
  <2>3. Handled(w) \in Events => Reported(Handled(w))'
    BY <1>6, <2>1, <2>2 DEF JobInv
  <2>4. QED  BY <1>4, <2>1, <2>2, <2>3 DEF JobInv
<1>10. DocumentInv'
  <2>1. \A f \in sent : action'[f] = action[f]
    BY <1>3, <1>5
  <2>2. QED  BY <1>4, <2>1 DEF CatalogInv, DocumentInv
<1>11. QED  BY <1>4, <1>7, <1>8, <1>9, <1>10 DEF CatalogInv

\* A write without an outbox row changes no document.
LEMMA UnreportedStep ==
    ASSUME CatalogInv, NEW e \in Writes, NEW new \in Status, NEW patterns \in SUBSET Caches,
           Unreported(e, new, patterns)
    PROVE  CatalogInv'
<1>1. Commit(e, new, patterns) /\ UNCHANGED <<outbox, action>>
  BY DEF Unreported
<1>2. OutboxTypeOK' /\ UNCHANGED <<row, running>>
  BY <1>1 DEF CatalogInv, CatalogTypeOK, OutboxTypeOK, outbox
<1>3. /\ CatalogTypeOK' /\ (\A f \in Writes : CopiesInv(f)') /\ StaleOnlyByOverlap'
      /\ version \in Nat /\ e = version + 1 /\ version' = e
      /\ UNCHANGED <<step, held, receipts, starting, document, sent, crossed, overtaken>>
  <2>1. action' \in [Writes -> {"nothing", "index", "delete"}]
    BY <1>1 DEF CatalogInv, CatalogTypeOK
  <2>2. QED  BY <1>1, <1>2, <2>1, VersionEffect
<1>4. \A f \in Events : Reported(f)' = Reported(f) /\ f \in Nat
  BY <1>2, Numbers DEF Reported
<1>5. ASSUME NEW f \in Events PROVE RowInv(f)'
  BY <1>1, <1>2, <1>3, <1>4 DEF CatalogInv, RowInv
<1>6. ASSUME NEW w \in Workers PROVE JobInv(w)'
  BY <1>1, <1>2, <1>3, <1>4 DEF CatalogInv, JobInv, Handled, Asked
<1>7. DocumentInv'
  BY <1>1, <1>3 DEF CatalogInv, DocumentInv
<1>8. QED  BY <1>3, <1>5, <1>6, <1>7 DEF CatalogInv

\* What a request writes.
LEMMA WritingStep == ASSUME CatalogInv, NEW e \in Writes, Writing(e) PROVE CatalogInv'
<1>1. status \in Status
  BY DEF CatalogInv, CatalogTypeOK
<1>2. CASE \E new \in Status, wanted \in {"index", "delete"}, patterns \in SUBSET Caches :
              Reporting(e, new, wanted, patterns)
  BY <1>2, ReportingStep
<1>3. CASE \E new \in Status, patterns \in SUBSET Caches : Unreported(e, new, patterns)
  BY <1>3, UnreportedStep
<1>4. CASE \E new \in Status, wanted \in {"index", "delete"} : Write(e, new, wanted)
  BY <1>2, <1>4 DEF Write
<1>5. CASE \/ Create(e) \/ SubmitForApproval(e) \/ Moderate(e) \/ Update(e) \/ Remove(e)
           \/ RestoreArchived(e) \/ Sell(e) \/ CancelOrder(e) \/ Review(e)
  BY <1>1, <1>4, <1>5
     DEF Create, SubmitForApproval, Moderate, Update, Remove, RestoreArchived, Sell, CancelOrder,
         Review, Status
<1>6. CASE CancelPayment(e) \/ StartAuction(e)
  BY <1>1, <1>2, <1>6 DEF CancelPayment, StartAuction
<1>7. CASE \/ RefundItem(e) \/ RenameCategory(e) \/ CreateAuction(e) \/ EndAuction(e) \/ SellLot(e)
  <2>1. "SOLD" \in Status /\ Caches \in SUBSET Caches /\ Caches \cap {"list"} \in SUBSET Caches
        /\ {} \in SUBSET Caches
    BY DEF Status
  <2>2. QED  BY <1>1, <1>3, <1>7, <2>1
             DEF RefundItem, RenameCategory, CreateAuction, EndAuction, SellLot
<1>8. QED  BY <1>5, <1>6, <1>7 DEF Writing

-----------------------------------------------------------------------------
(* The caches *)

\* What the steps of the caches have in common.
LEMMA CacheStepKeeps ==
    ASSUME CatalogInv, UNCHANGED <<row, job, running, productRow, index>>, failures' \in Nat,
           writer' \in [Writes -> 1..4], found' \in [Writes -> SUBSET Caches],
           failed' \subseteq Writes, entry' \in [Caches -> Copy \cup {NoCopy}],
           reader' \in [Readers -> [key : Caches \cup {"none"}, version : Version,
                                    overlapped : BOOLEAN]],
           \A e \in Writes : CopiesInv(e)'
    PROVE  CatalogInv'
<1>1. /\ UNCHANGED <<status, version, action, lists>>
      /\ UNCHANGED <<step, held, receipts, starting, document, sent, crossed, overtaken>>
  BY DEF productRow, index, working, search
<1>2. CatalogTypeOK'
  BY <1>1 DEF CatalogInv, CatalogTypeOK, OutboxTypeOK
<1>3. \A f \in Events : Reported(f)' = Reported(f)
  BY <1>1 DEF Reported
<1>4. ASSUME NEW f \in Events PROVE RowInv(f)'
  BY <1>1, <1>3 DEF CatalogInv, RowInv
<1>5. ASSUME NEW w \in Workers PROVE JobInv(w)'
  BY <1>1, <1>3 DEF CatalogInv, JobInv, Handled, Asked
<1>6. DocumentInv'
  BY <1>1, <1>3 DEF CatalogInv, DocumentInv
<1>7. QED  BY <1>2, <1>4, <1>5, <1>6, CopiesImplyStale DEF CatalogInv

\* SCAN, DEL, or their failure: what a write finds it deletes, and the readers that
\* could still store an older answer are known to overlap.
LEMMA InvalidatingStep ==
    ASSUME CatalogInv, NEW e \in Writes, Invalidating(e) PROVE CatalogInv'
<1> USE DEF CatalogInv, CatalogTypeOK
<1>1. writer[e] \in 2..3 /\ e =< version /\ failures \in Nat
  <2>1. At(e, "scan") \/ At(e, "delete")
    BY DEF Invalidating, Scan, Delete, LoseInvalidation
  <2>2. QED  BY <2>1, Steps DEF CopiesInv, OutboxTypeOK
<1>2. ASSUME NEW f \in Writes \ {e}, writer'[f] = writer[f]
      PROVE  /\ At(f, "commit")' = At(f, "commit") /\ At(f, "delete")' = At(f, "delete")
             /\ Scanned(f)' = Scanned(f)
  BY <1>2 DEF At, Scanned
<1>3. CASE Scan(e)
  <2>1. /\ writer' = [writer EXCEPT ![e] = writer[e] + 1] /\ writer[e] = 2
        /\ found' = [found EXCEPT ![e] = {k \in lists[e] : entry[k] # NoCopy}]
        /\ reader' = [r \in Readers |->
               [reader[r] EXCEPT !.overlapped = reader[r].overlapped \/ reader[r].key \in lists[e]]]
        /\ UNCHANGED <<outbox, productRow, failed, entry, index>>
    BY <1>3, Steps DEF Scan, Proceed
  <2>2. UNCHANGED <<row, job, running, failures, lists, version>>
    BY <2>1 DEF outbox, productRow
  <2>3. /\ writer' \in [Writes -> 1..4] /\ writer'[e] = 3
        /\ \A f \in Writes \ {e} : writer'[f] = writer[f] /\ found'[f] = found[f]
    BY <2>1
  <2>4. found' \in [Writes -> SUBSET Caches] /\ found'[e] = {k \in lists[e] : entry[k] # NoCopy}
    BY <2>1
  <2>5. \A r \in Readers :
            /\ reader'[r] \in [key : Caches \cup {"none"}, version : Version, overlapped : BOOLEAN]
            /\ reader'[r].key = reader[r].key /\ reader'[r].version = reader[r].version
            /\ reader[r].overlapped \/ reader[r].key \in lists[e] => reader'[r].overlapped
    <3>1. ASSUME NEW r \in Readers, NEW b \in BOOLEAN
          PROVE  /\ [reader[r] EXCEPT !.overlapped = b] \in
                        [key : Caches \cup {"none"}, version : Version, overlapped : BOOLEAN]
                 /\ [reader[r] EXCEPT !.overlapped = b].key = reader[r].key
                 /\ [reader[r] EXCEPT !.overlapped = b].version = reader[r].version
                 /\ [reader[r] EXCEPT !.overlapped = b].overlapped = b
      OBVIOUS
    <3>2. \A r \in Readers : (reader[r].overlapped \/ reader[r].key \in lists[e]) \in BOOLEAN
      OBVIOUS
    <3>3. QED  BY <2>1, <3>1, <3>2
  <2>6. reader' \in [Readers -> [key : Caches \cup {"none"}, version : Version,
                                 overlapped : BOOLEAN]]
    BY <2>1, <2>5
  <2>7. CopiesInv(e)'
    <3>1. At(e, "delete")'
      BY <2>3 DEF At, Course
    <3>2. \A k \in lists[e] : entry[k] # NoCopy => k \in found'[e]
      BY <2>4
    <3>3. QED  BY <1>1, <2>1, <2>2, <2>5, <3>1, <3>2 DEF CopiesInv
  <2>8. ASSUME NEW f \in Writes \ {e} PROVE CopiesInv(f)'
    <3>1. CopiesInv(f) /\ writer'[f] = writer[f] /\ found'[f] = found[f]
      BY <2>3
    <3>2. (~At(f, "commit") => f =< version)'
      BY <1>2, <2>2, <3>1 DEF CopiesInv
    <3>3. ASSUME Scanned(f), f \notin failed, NEW r \in Readers, reader'[r].key \in lists[f]
          PROVE  reader'[r].version >= f \/ reader'[r].overlapped
      BY <2>5, <3>1, <3>3 DEF CopiesInv
    <3>4. ASSUME Scanned(f), f \notin failed
          PROVE  (\A k \in lists[f] :
                     entry[k] # NoCopy /\ (At(f, "delete") => k \notin found[f])
                         => entry[k].version >= f \/ entry[k].overlapped)'
      BY <1>2, <2>1, <2>2, <3>1, <3>4 DEF CopiesInv
    <3>5. QED  BY <1>2, <2>1, <2>2, <3>1, <3>2, <3>3, <3>4 DEF CopiesInv
  <2>9. QED  BY <1>1, <2>1, <2>2, <2>3, <2>4, <2>6, <2>7, <2>8, CacheStepKeeps
<1>4. CASE Delete(e)
  <2>1. /\ writer' = [writer EXCEPT ![e] = writer[e] + 1] /\ writer[e] = 3 /\ At(e, "delete")
        /\ entry' = [k \in Caches |-> IF k \in found[e] THEN NoCopy ELSE entry[k]]
        /\ UNCHANGED <<outbox, productRow, found, failed, reader, index>>
    BY <1>4, Steps DEF Delete, Proceed
  <2>2. UNCHANGED <<row, job, running, failures, lists, version>>
    BY <2>1 DEF outbox, productRow
  <2>3. /\ writer' \in [Writes -> 1..4] /\ writer'[e] = 4
        /\ \A f \in Writes \ {e} : writer'[f] = writer[f]
    BY <2>1
  <2>5. entry' \in [Caches -> Copy \cup {NoCopy}]
    BY <2>1
  <2>6. /\ \A k \in Caches : entry'[k] # NoCopy => entry'[k] = entry[k] /\ k \notin found[e]
        /\ \A f \in Writes : lists[f] \subseteq Caches
    BY <2>1
  <2>7. CopiesInv(e)'
    BY <1>1, <2>1, <2>2, <2>6 DEF CopiesInv, Scanned
  <2>8. ASSUME NEW f \in Writes \ {e} PROVE CopiesInv(f)'
    BY <1>2, <2>1, <2>2, <2>3, <2>6 DEF CopiesInv
  <2>9. QED  BY <1>1, <2>1, <2>2, <2>3, <2>5, <2>7, <2>8, CacheStepKeeps
<1>5. CASE LoseInvalidation(e)
  <2>1. /\ writer' = [writer EXCEPT ![e] = 4] /\ failed' = failed \cup {e}
        /\ failures' \in Nat
        /\ UNCHANGED <<row, job, running, productRow, found, entry, reader, index>>
    BY <1>1, <1>5 DEF LoseInvalidation, CountFailure
  <2>2. UNCHANGED <<lists, version>>
    BY <2>1 DEF productRow
  <2>3. /\ writer' \in [Writes -> 1..4]
        /\ \A f \in Writes \ {e} : writer'[f] = writer[f]
    BY <2>1
  <2>4. CopiesInv(e)'
    BY <1>1, <2>1, <2>2 DEF CopiesInv
  <2>5. ASSUME NEW f \in Writes \ {e} PROVE CopiesInv(f)'
    BY <1>2, <2>1, <2>2, <2>3 DEF CopiesInv
  <2>6. QED  BY <2>1, <2>3, <2>4, <2>5, CacheStepKeeps
<1>6. QED  BY <1>3, <1>4, <1>5 DEF Invalidating

\* A reader finds the newest version, and stores what it has found.
LEMMA ReadingStep == ASSUME CatalogInv, NEW r \in Readers, Reading(r) PROVE CatalogInv'
<1> USE DEF CatalogInv, CatalogTypeOK
<1>1. /\ UNCHANGED <<outbox, productRow, writer, found, failed, index>>
      /\ UNCHANGED <<row, job, running, failures, lists, version>> /\ failures \in Nat
  BY DEF Reading, FindAll, FindOne, Search, Fallback, Query, Answer, Store, StoreNothing,
         outbox, productRow, OutboxTypeOK
<1>2. \A e \in Writes : /\ \A s : At(e, s)' = At(e, s)
                        /\ Scanned(e)' = Scanned(e) /\ "none" \notin lists[e]
  BY <1>1, CatalogAssumption DEF At, Scanned
<1>3. Resting \in [key : Caches \cup {"none"}, version : Version, overlapped : BOOLEAN]
  BY Numbers DEF Resting
<1>4. ASSUME NEW k \in Caches, Query(r, k) PROVE CatalogInv'
  <2>1. /\ entry' = entry
        /\ reader' = [reader EXCEPT ![r] = [key |-> k, version |-> version, overlapped |-> FALSE]]
    BY <1>4 DEF Query
  <2>2. ASSUME NEW e \in Writes PROVE CopiesInv(e)'
    <3>1. Scanned(e) => version >= e
      <4>1. Scanned(e) => ~At(e, "commit")
        BY DEF Scanned, At
      <4>2. e \in Nat /\ version \in Nat
        BY Numbers DEF Writes
      <4>3. QED  BY <4>1, <4>2 DEF CopiesInv
    <3>2. \A q \in Readers : reader'[q] = reader[q] \/ reader'[q].version = version
      BY <2>1
    <3>3. QED  BY <1>1, <1>2, <2>1, <3>1, <3>2 DEF CopiesInv
  <2>3. reader' \in [Readers -> [key : Caches \cup {"none"}, version : Version,
                                 overlapped : BOOLEAN]]
    BY <2>1
  <2>4. QED  BY <1>1, <2>1, <2>2, <2>3, CacheStepKeeps
<1>5. ASSUME reader' = [reader EXCEPT ![r] = Resting],
             entry' = entry \/ entry' = [entry EXCEPT ![reader[r].key] =
                 [version |-> reader[r].version, overlapped |-> reader[r].overlapped]]
      PROVE  CatalogInv'
  <2>1. /\ reader' \in [Readers -> [key : Caches \cup {"none"}, version : Version,
                                    overlapped : BOOLEAN]]
        /\ \A q \in Readers : reader'[q] = reader[q] \/ reader'[q].key = "none"
    BY <1>3, <1>5 DEF Resting
  <2>2. /\ entry' \in [Caches -> Copy \cup {NoCopy}]
        /\ \A k \in Caches : \/ entry'[k] = entry[k]
                             \/ /\ k = reader[r].key /\ entry'[k].version = reader[r].version
                                /\ entry'[k].overlapped = reader[r].overlapped
    <3> DEFINE copy == [version |-> reader[r].version, overlapped |-> reader[r].overlapped]
    <3>1. copy \in Copy
      BY DEF Copy
    <3>2. copy.version = reader[r].version /\ copy.overlapped = reader[r].overlapped
      OBVIOUS
    <3> HIDE DEF copy
    <3>3. entry' = entry \/ entry' = [entry EXCEPT ![reader[r].key] = copy]
      BY <1>5 DEF copy
    <3>4. QED  BY <3>1, <3>2, <3>3
  <2>3. ASSUME NEW e \in Writes PROVE CopiesInv(e)'
    <3>1. lists[e] \subseteq Caches
      OBVIOUS
    <3>2. CopiesInv(e)
      OBVIOUS
    <3>3. ASSUME Scanned(e), e \notin failed, NEW q \in Readers, reader'[q].key \in lists[e]
          PROVE  reader'[q].version >= e \/ reader'[q].overlapped
      BY <1>2, <2>1, <3>2, <3>3 DEF CopiesInv
    <3>4. ASSUME Scanned(e), e \notin failed, NEW k \in lists[e], entry'[k] # NoCopy,
                 At(e, "delete") => k \notin found[e]
          PROVE  entry'[k].version >= e \/ entry'[k].overlapped
      <4>1. CASE entry'[k] = entry[k]
        BY <3>2, <3>4, <4>1 DEF CopiesInv
      <4>2. CASE /\ k = reader[r].key /\ entry'[k].version = reader[r].version
                 /\ entry'[k].overlapped = reader[r].overlapped
        BY <3>2, <3>4, <4>2 DEF CopiesInv
      <4>3. QED  BY <2>2, <3>1, <3>4, <4>1, <4>2
    <3>5. (~At(e, "commit") => e =< version)'
      BY <1>1, <1>2, <3>2 DEF CopiesInv
    <3>6. QED  BY <1>1, <1>2, <3>3, <3>4, <3>5 DEF CopiesInv
  <2>4. QED  BY <1>1, <2>1, <2>2, <2>3, CacheStepKeeps
<1>6. CASE FindAll(r) \/ FindOne(r) \/ Search(r)
  BY <1>4, <1>6 DEF FindAll, FindOne, Search, Fallback, Query
<1>7. CASE Answer(r)
  BY <1>5, <1>7 DEF Answer, Store, StoreNothing
<1>8. QED  BY <1>6, <1>7 DEF Reading

\* A copy is gone.
LEMMA LapseStep == ASSUME CatalogInv, NEW k \in Caches, Lapse(k) PROVE CatalogInv'
<1> USE DEF CatalogInv, CatalogTypeOK
<1>1. /\ entry' = [entry EXCEPT ![k] = NoCopy]
      /\ UNCHANGED <<outbox, productRow, writer, found, failed, reader, index>>
      /\ UNCHANGED <<row, job, running, failures, lists, version>> /\ failures \in Nat
  BY DEF Lapse, outbox, productRow, OutboxTypeOK
<1>2. /\ entry' \in [Caches -> Copy \cup {NoCopy}]
      /\ \A c \in Caches : entry'[c] # NoCopy => entry'[c] = entry[c]
  BY <1>1
<1>3. ASSUME NEW e \in Writes PROVE CopiesInv(e)'
  <2>1. lists[e] \subseteq Caches /\ Scanned(e)' = Scanned(e) /\ \A s : At(e, s)' = At(e, s)
    BY <1>1 DEF At, Scanned
  <2>2. QED  BY <1>1, <1>2, <2>1 DEF CopiesInv
<1>4. QED  BY <1>1, <1>2, <1>3, CacheStepKeeps

-----------------------------------------------------------------------------
\* At the start nothing is told and nothing is copied.
LEMMA CatalogInitInv == CatalogInit => CatalogInv
<1> SUFFICES ASSUME CatalogInit PROVE CatalogInv
  OBVIOUS
<1> USE DEF CatalogInit, OutboxInit
<1>1. OutboxTypeOK
  BY BoundsAssumption DEF NoRow, NoJob, AtRest, OutboxTypeOK, RowStatus
<1>2. 0 \in Version
  BY Numbers
<1>3. CatalogTypeOK
  <2>1. /\ lists \in [Writes -> SUBSET Caches] /\ found \in [Writes -> SUBSET Caches]
        /\ writer \in [Writes -> 1..4] /\ action \in [Writes -> {"nothing", "index", "delete"}]
    OBVIOUS
  <2>2. entry \in [Caches -> Copy \cup {NoCopy}]
    OBVIOUS
  <2>3. reader \in [Readers -> [key : Caches \cup {"none"}, version : Version, overlapped : BOOLEAN]]
    BY <1>2 DEF Resting
  <2>4. /\ held \in [Workers -> Version]
        /\ step \in [Workers -> {"rest", "receipt", "read", "send", "mark", "record", "finish"}]
    BY <1>2
  <2>5. /\ starting \in {"read", "send", "done"} \X Version
        /\ document \in Version \cup {Missing}
    BY <1>2
  <2>6. QED  BY <1>1, <1>2, <2>1, <2>2, <2>3, <2>4, <2>5 DEF CatalogTypeOK
<1>4. ASSUME NEW e \in Writes PROVE CopiesInv(e) /\ ~At(e, "return")
  <2>1. At(e, "commit") /\ ~At(e, "delete") /\ ~At(e, "return")
    BY DEF At, Course
  <2>2. QED  BY <2>1 DEF CopiesInv, Scanned
<1>5. \A e \in Events : RowInv(e)
  BY DEF RowInv, Reported, NoRow
<1>6. \A w \in Workers : JobInv(w)
  BY NothingAssumption DEF JobInv, Handled, AtRest
<1>7. DocumentInv /\ StaleOnlyByOverlap
  BY <1>4 DEF DocumentInv, StaleOnlyByOverlap
<1>8. QED  BY <1>3, <1>4, <1>5, <1>6, <1>7 DEF CatalogInv

\* Type correctness, and the invariant, for every number of writes (swept or not,
\* reported or not), readers, workers and failures: no older answer is without an
\* overlap once a sweep has passed, no row is done that Meilisearch has not been told
\* of, and a call no other has crossed leaves the newest of what was told.
THEOREM CatalogInvariant == CatalogSpec => []CatalogInv
<1>1. CatalogInv /\ UNCHANGED catalogVars => CatalogInv'
  <2> SUFFICES ASSUME CatalogInv, UNCHANGED catalogVars PROVE CatalogInv'
    OBVIOUS
  <2>1. /\ UNCHANGED <<row, job, running, failures, productRow, caches, index>>
        /\ OutboxTypeOK'
    BY DEF catalogVars, outbox, CatalogInv, CatalogTypeOK, OutboxTypeOK
  <2>2. \A f \in Events : Reported(f)' = Reported(f)
    BY <2>1 DEF Reported
  <2>3. QED  BY <2>1, <2>2, WorkersStay
<1>2. CatalogInv /\ CatalogNext => CatalogInv'
  BY WritingStep, InvalidatingStep, ReadingStep, LapseStep, QueueStep, WorkStep, TroubleStep,
     ReindexStep DEF CatalogNext, CacheSteps, IndexSteps
<1>3. QED  BY <1>1, <1>2, CatalogInitInv, PTL DEF CatalogSpec

\* When a write that invalidates a key has returned, a copy older than it is left there
\* only if its reader overlapped a SCAN over that key: what SCAN and DEL, and the reads
\* that begin after them, miss is nothing else.  Writes that invalidate nothing are in
\* CatalogSpec, and promise nothing.
THEOREM CopiesFollowWrites == CatalogSpec => []StaleOnlyByOverlap
BY CatalogInvariant, PTL DEF CatalogInv

\* Once every row is PROCESSED, the document is no older than the last reported write,
\* or gone with what that write archived, unless the latest call was overtaken.  What is
\* written without a row is not in it.
THEOREM IndexFollowsWrites == CatalogSpec => []IndexFollows
<1>1. ASSUME CatalogInv PROVE IndexFollows
  <2> SUFFICES ASSUME Drained, ~overtaken
               PROVE  \/ \A e \in Events : Reported(e) => document >= e
                      \/ /\ document = Missing
                         /\ \E e \in Events : /\ Reported(e) /\ action[e] = "delete"
                                              /\ \A f \in Events : Reported(f) => f =< e
    BY DEF IndexFollows
  <2>1. \A e \in Events : Reported(e) => e \in sent
    BY <1>1 DEF CatalogInv, RowInv, Drained
  <2>2. CASE \A e \in sent : document >= e
    BY <2>1, <2>2
  <2>3. CASE document = Missing /\ \E e \in sent : action[e] = "delete" /\ \A f \in sent : f =< e
    BY <1>1, <2>1, <2>3, SentIsCommitted
  <2>4. QED  BY <1>1, <2>2, <2>3 DEF CatalogInv, DocumentInv
<1>2. QED  BY <1>1, CatalogInvariant, PTL
=============================================================================
