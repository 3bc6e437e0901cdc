--------------------------- MODULE DisputesProofs ---------------------------
(* Theorems about Disputes, for every order, any number of disputes, pages,  *)
(* requests and transactions in flight.                                      *)
EXTENDS Disputes, SumTheorems

-----------------------------------------------------------------------------
(* Sums over Refund rows *)

\* Amounts, units and costs are natural numbers.
LEMMA Values ==
    /\ \A r \in RefundRow : Amount[r] \in Nat /\ Units[r] \in Nat /\ Units[r] = r.quantity
    /\ \A i \in Items : Cost[i] \in Nat
<1>1. \A m, n \in Nat : m * n \in Nat
  OBVIOUS
<1>2. ASSUME NEW r \in RefundRow PROVE r.quantity \in Nat /\ Price[r.item] \in Nat
  BY DisputesAssumption DEF RefundRow
<1>3. \A i \in Items : Quantity[i] \in Nat /\ Price[i] \in Nat
  BY DisputesAssumption
<1>4. QED  BY <1>1, <1>2, <1>3 DEF Amount, Units, Cost

\* Totals and units of finite sets of rows are numbers, and add up.
LEMMA TotalNat ==
    ASSUME NEW rs \in SUBSET RefundRow, IsFiniteSet(rs)
    PROVE  TotalOf(rs) \in Nat
BY Values, SumNat DEF TotalOf

\* Nothing refunded.
LEMMA TotalEmpty == TotalOf({}) = 0
BY SumEmpty DEF TotalOf

\* The refunds of two transactions add up.
LEMMA TotalDisjoint ==
    ASSUME NEW rs \in SUBSET RefundRow, IsFiniteSet(rs),
           NEW ds \in SUBSET RefundRow, IsFiniteSet(ds), rs \cap ds = {}
    PROVE  TotalOf(rs \cup ds) = TotalOf(rs) + TotalOf(ds)
<1>1. \A r \in rs \cup ds : Amount[r] \in Int
  BY Values
<1>2. QED  BY <1>1, SumDisjoint DEF TotalOf

\* More rows, no smaller total.
LEMMA TotalMonotone ==
    ASSUME NEW rs \in SUBSET RefundRow, IsFiniteSet(rs), NEW ds \in SUBSET rs
    PROVE  TotalOf(ds) =< TotalOf(rs)
<1>1. \A r \in rs : Amount[r] \in Nat
  BY Values
<1>2. QED  BY <1>1, SumMonotone DEF TotalOf

\* Units are counted.
LEMMA UnitsNat ==
    ASSUME NEW rs \in SUBSET RefundRow, IsFiniteSet(rs), NEW i
    PROVE  UnitsOf(rs, i) \in Nat
<1> DEFINE is == {r \in rs : r.item = i}
<1>1. IsFiniteSet(is)
  BY FS_Subset
<1>2. \A r \in is : Units[r] \in Nat
  BY Values
<1>3. SumFunctionOnSet(Units, is) \in Nat
  <2> HIDE DEF is
  <2> QED  BY <1>1, <1>2, SumNat
<1>4. QED  BY <1>3 DEF UnitsOf

\* The units of two transactions add up.
LEMMA UnitsDisjoint ==
    ASSUME NEW rs \in SUBSET RefundRow, IsFiniteSet(rs),
           NEW ds \in SUBSET RefundRow, IsFiniteSet(ds), rs \cap ds = {}, NEW i
    PROVE  UnitsOf(rs \cup ds, i) = UnitsOf(rs, i) + UnitsOf(ds, i)
<1> DEFINE is == {r \in rs : r.item = i}
           js == {r \in ds : r.item = i}
           both == {r \in rs \cup ds : r.item = i}
<1>1. IsFiniteSet(is) /\ IsFiniteSet(js)
  BY FS_Subset
<1>2. both = is \cup js /\ is \cap js = {}
  OBVIOUS
<1>3. \A r \in is \cup js : Units[r] \in Int
  BY Values
<1>4. SumFunctionOnSet(Units, is \cup js)
        = SumFunctionOnSet(Units, is) + SumFunctionOnSet(Units, js)
  <2> HIDE DEF is, js
  <2> QED  BY <1>1, <1>2, <1>3, SumDisjoint
<1>5. SumFunctionOnSet(Units, both)
        = SumFunctionOnSet(Units, is) + SumFunctionOnSet(Units, js)
  BY <1>2, <1>4, Zenon
<1>6. QED  BY <1>5, Zenon DEF UnitsOf

\* Rows of which at most one is of an item have its quantity of units, or none.
LEMMA UnitsOfOne ==
    ASSUME NEW rs \in SUBSET RefundRow, NEW i, NEW n \in Nat,
           \A r \in rs : r.item = i => r.quantity =< n,
           \A r, q \in rs : r.item = i /\ q.item = i => r = q
    PROVE  UnitsOf(rs, i) =< n
<1> DEFINE is == {r \in rs : r.item = i}
<1>1. CASE is = {}
  <2>1. SumFunctionOnSet(Units, is) = 0
    BY <1>1, SumEmpty
  <2>2. QED  BY <2>1 DEF UnitsOf
<1>2. ASSUME NEW r \in is PROVE SumFunctionOnSet(Units, is) =< n
  <2>1. is = {r}
    OBVIOUS
  <2>2. Units[r] \in Nat /\ Units[r] = r.quantity /\ r.quantity =< n
    BY Values
  <2>3. SumFunctionOnSet(Units, {r}) = Units[r]
    <3>1. Units[r] \in Int
      BY <2>2
    <3>2. QED  BY <3>1, SumSingleton
  <2>4. QED  BY <2>1, <2>2, <2>3
<1>3. QED  BY <1>1, <1>2 DEF UnitsOf

-----------------------------------------------------------------------------
(* Steps of a transaction that commits nothing *)

\* What is said of the rows holds as long as they are as they were.
LEMMA SameRows == ASSUME RowsAgree, UNCHANGED rows PROVE RowsAgree'
BY DEF RowsAgree, rows, ColumnsFollowRefunds, OverRefundBounded, DecidedFor,
       PaymentFollowsRefunds,       RefundedUnits, RefundsOf

\* A dispute that is there stays, of the same sub-order.
DisputesKept ==
    \A e \in Disputes : dispute[e].status # "none" =>
        dispute'[e].status # "none" /\ dispute'[e].sub = dispute[e].sub

\* A transaction is left alone when the rows it has read are.
LEMMA OthersKeep ==
    ASSUME NEW o \in Calls, CallInv(o), Fresh(call[o]), refunds' = refunds, DisputesKept,
           call'[o] = call[o]
    PROVE  CallInv(o)' /\ Fresh(call[o])'
<1>1. ResolveInv(call[o])'
  BY DEF CallInv, ResolveInv, DisputesKept
<1>2. RefundInv(call[o])'
  BY DEF CallInv, RefundInv, RefundedUnits
<1>3. RowsInv(call[o])'
  BY DEF CallInv, RowsInv, Touching, Paying
<1>4. SumInv(call[o])'
  BY DEF CallInv, SumInv, Summed
<1>5. Fresh(call[o])'
  BY DEF Fresh, KeyTaken
<1>6. QED  BY <1>1, <1>2, <1>3, <1>4, <1>5 DEF CallInv

\* A step that only changes a call's own state preserves the invariant when the new
\* state is compatible with every other call's.
LEMMA CallStep ==
    ASSUME IInv, NEW c \in Calls, UNCHANGED rows, board' \in [Admins -> SUBSET Disputes],
           NEW k \in CallRecord, call' = [call EXCEPT ![c] = k], begun' \in 0..MaxCalls,
           CallInv(c)', Fresh(call[c])',
           \A o \in Calls \ {c} : /\ Compatible(k, call[o]) /\ Compatible(call[o], k)
                                  /\ Apart(k, call[o])
    PROVE  IInv'
<1> USE DEF IInv
<1>1. TypeOK'
  BY DEF TypeOK, rows
<1>2. RowsAgree'
  BY SameRows
<1>3. DOMAIN call = Calls
  BY DEF TypeOK
<1>4. call'[c] = k /\ \A o \in Calls \ {c} : call'[o] = call[o]
  BY <1>3
<1>5. \A o \in Calls : CallInv(o)' /\ Fresh(call[o])'
  BY <1>4, OthersKeep DEF rows, DisputesKept
<1>6. \A p \in Calls : \A o \in Calls \ {p} :
          Compatible(call'[p], call'[o]) /\ Apart(call'[p], call'[o])
  BY <1>4 DEF Apart
<1>7. QED  BY <1>1, <1>2, <1>5, <1>6 DEF Compatible, Apart, Paying, Owning

\* A transaction that holds no lock and has written nothing is in nobody's way.
LEMMA LightStep ==
    ASSUME IInv, NEW c \in Calls, UNCHANGED rows, board' \in [Admins -> SUBSET Disputes],
           NEW k \in CallRecord, call' = [call EXCEPT ![c] = k], begun' \in 0..MaxCalls,
           k.drafts = {}, ~Paying(k), ~Owning(k), CallInv(c)'
    PROVE  IInv'
<1>1. call'[c] = k
  BY DEF IInv, TypeOK
<1>2. Fresh(call[c])'
  BY <1>1 DEF Fresh
<1>3. \A o \in Calls \ {c} : /\ Compatible(k, call[o]) /\ Compatible(call[o], k)
                             /\ Apart(k, call[o])
  BY DEF Compatible, Apart
<1>4. QED  BY <1>2, <1>3, CallStep

\* A transaction that goes on with the locks and the rows it has.
LEMMA HeldStep ==
    ASSUME IInv, NEW c \in Calls, UNCHANGED rows, board' \in [Admins -> SUBSET Disputes],
           NEW k \in CallRecord, call' = [call EXCEPT ![c] = k], begun' \in 0..MaxCalls,
           k.sub = call[c].sub, k.drafts \subseteq call[c].drafts,
           Paying(k) => Paying(call[c]), Owning(k) => Owning(call[c]), CallInv(c)'
    PROVE  IInv'
<1>1. call'[c] = k /\ refunds' = refunds
  BY DEF IInv, TypeOK, rows
<1>2. Fresh(call[c])'
  BY <1>1 DEF IInv, Fresh, KeyTaken
<1>3. \A o \in Calls \ {c} : /\ Compatible(call[c], call[o]) /\ Compatible(call[o], call[c])
                             /\ Apart(call[c], call[o])
  BY DEF IInv
<1>4. \A o \in Calls \ {c} : /\ Compatible(k, call[o]) /\ Compatible(call[o], k)
                             /\ Apart(k, call[o])
  BY <1>3 DEF Compatible, Apart
<1>5. QED  BY <1>2, <1>4, CallStep

\* A call at rest is a call.
LEMMA IdleType == Idle \in CallRecord
BY DEF Idle, CallRecord, At

\* A field of a transaction may take any value of its type.
LEMMA FieldTypes ==
    ASSUME NEW k \in CallRecord
    PROVE  /\ \A v \in At : [k EXCEPT !.at = v] \in CallRecord
           /\ \A v \in SubOrders \cup {None} : [k EXCEPT !.sub = v] \in CallRecord
           /\ \A v \in Disputes : [k EXCEPT !.dispute = v] \in CallRecord
           /\ \A v \in Verdicts : [k EXCEPT !.verdict = v] \in CallRecord
           /\ \A v \in Items : [k EXCEPT !.item = v] \in CallRecord
           /\ \A v \in Nat : [k EXCEPT !.quantity = v] \in CallRecord
           /\ \A v \in Keys : [k EXCEPT !.key = v] \in CallRecord
           /\ \A v \in SUBSET Items : [k EXCEPT !.todo = v] \in CallRecord
           /\ \A v \in SUBSET RefundRow : [k EXCEPT !.drafts = v] \in CallRecord
           /\ \A v \in Int : [k EXCEPT !.sum = v] \in CallRecord
           /\ \A v \in Admins : [k EXCEPT !.by = v] \in CallRecord
<1>1. \A v \in At : [k EXCEPT !.at = v] \in CallRecord
  BY DEF CallRecord
<1>2. \A v \in SubOrders \cup {None} : [k EXCEPT !.sub = v] \in CallRecord
  BY DEF CallRecord
<1>3. \A v \in Disputes : [k EXCEPT !.dispute = v] \in CallRecord
  BY DEF CallRecord
<1>4. \A v \in Verdicts : [k EXCEPT !.verdict = v] \in CallRecord
  BY DEF CallRecord
<1>5. \A v \in Items : [k EXCEPT !.item = v] \in CallRecord
  BY DEF CallRecord
<1>6. \A v \in Nat : [k EXCEPT !.quantity = v] \in CallRecord
  BY DEF CallRecord
<1>7. \A v \in Keys : [k EXCEPT !.key = v] \in CallRecord
  BY DEF CallRecord
<1>8. \A v \in SUBSET Items : [k EXCEPT !.todo = v] \in CallRecord
  BY DEF CallRecord
<1>9. \A v \in SUBSET RefundRow : [k EXCEPT !.drafts = v] \in CallRecord
  BY DEF CallRecord
<1>10. \A v \in Int : [k EXCEPT !.sum = v] \in CallRecord
  BY DEF CallRecord
<1>11. \A v \in Admins : [k EXCEPT !.by = v] \in CallRecord
  BY DEF CallRecord
<1>12. QED
  BY <1>1, <1>2, <1>3, <1>4, <1>5, <1>6, <1>7, <1>8, <1>9, <1>10, <1>11

\* A call that is over, or never began, promises nothing and is in nobody's way.
LEMMA EmptyInv ==
    ASSUME NEW c \in Calls, call'[c] = Idle
    PROVE  CallInv(c)' /\ Fresh(call[c])'
<1>1. CallInv(c)'
  BY FS_EmptySet
     DEF CallInv, ResolveInv, RefundInv, RowsInv, SumInv, Idle, Resolving, Refunding,
                     Touching, Paying, Summed
<1>2. Fresh(call[c])'
  BY DEF Fresh, Idle
<1>3. QED  BY <1>1, <1>2

\* A call at rest is compatible with every other.
LEMMA IdlePairs ==
    ASSUME IInv, NEW c \in Calls, call'[c] = Idle, \A o \in Calls \ {c} : call'[o] = call[o]
    PROVE  \A p \in Calls : \A o \in Calls \ {p} :
               Compatible(call[p], call[o])' /\ Apart(call[p], call[o])'
<1>1. /\ Idle.drafts = {} /\ ~Paying(Idle) /\ ~Owning(Idle)
  BY DEF Idle, Paying, Owning
<1> SUFFICES ASSUME NEW p \in Calls, NEW o \in Calls \ {p}
             PROVE  Compatible(call'[p], call'[o]) /\ Apart(call'[p], call'[o])
  BY DEF Compatible, Apart, Paying, Owning
<1>2. CASE p = c \/ o = c
  BY <1>1, <1>2 DEF Compatible, Apart
<1>3. CASE p # c /\ o # c
  BY <1>3 DEF IInv
<1>4. QED  BY <1>2, <1>3

\* A transaction that is rolled back leaves the rows as they were.
LEMMA AbortStep == ASSUME IInv, NEW c \in Calls, Abort(c) PROVE IInv'
<1>1. /\ call' = [call EXCEPT ![c] = Idle] /\ UNCHANGED <<rows, board, begun>>
  BY DEF Abort, Return, Continue
<1>2. /\ Idle.drafts = {} /\ ~Paying(Idle) /\ ~Owning(Idle)
  BY DEF Idle, Paying, Owning
<1>3. call'[c] = Idle
  BY <1>1 DEF IInv, TypeOK
<1>4. CallInv(c)'
  BY <1>3, EmptyInv
<1>5. board' \in [Admins -> SUBSET Disputes] /\ begun' \in 0..MaxCalls
  BY <1>1 DEF IInv, TypeOK
<1>6. QED  BY <1>1, <1>2, <1>4, <1>5, IdleType, LightStep

\* The fields of a transaction.
LEMMA CallFields ==
    ASSUME TypeOK, NEW c \in Calls
    PROVE  /\ call[c] \in CallRecord
           /\ call[c].at \in At /\ call[c].sub \in SubOrders \cup {None}
           /\ call[c].dispute \in Disputes \cup {None} /\ call[c].verdict \in Verdicts \cup {None}
           /\ call[c].item \in Items \cup {None} /\ call[c].quantity \in Nat
           /\ call[c].key \in Keys \cup {None} /\ call[c].todo \in SUBSET Items
           /\ call[c].drafts \in SUBSET RefundRow /\ call[c].sum \in Int /\ call[c].by \in Admins \cup {None}
<1>1. call[c] \in CallRecord
  BY DEF TypeOK
<1>2. QED  BY <1>1 DEF CallRecord

\* A call that begins changes its own state only.
LEMMA BeginEffect ==
    ASSUME IInv, NEW c \in Calls, NEW k, Begin(c, k), UNCHANGED <<rows, board>>
    PROVE  /\ call' = [call EXCEPT ![c] = k] /\ begun' \in 0..MaxCalls /\ UNCHANGED rows
           /\ board' \in [Admins -> SUBSET Disputes] /\ call'[c] = k
           /\ dispute' = dispute /\ refunds' = refunds
BY DisputesAssumption DEF Begin, IInv, TypeOK, rows

\* The customer's dispute: no open one was found.
LEMMA OpenLookStep ==
    ASSUME IInv, NEW c \in Calls, NEW s \in SubOrders, OpenLook(c, s)
    PROVE  IInv'
<1> DEFINE k == [Idle EXCEPT !.at = "insert", !.sub = s]
<1>1. /\ call' = [call EXCEPT ![c] = k] /\ begun' \in 0..MaxCalls /\ UNCHANGED rows
      /\ board' \in [Admins -> SUBSET Disputes] /\ call'[c] = k
  BY BeginEffect DEF OpenLook
<1>2. k \in CallRecord
  <2>1. "insert" \in At
    BY DEF At
  <2>2. [[Idle EXCEPT !.at = "insert"] EXCEPT !.sub = s] \in CallRecord
    BY <2>1, IdleType, FieldTypes
  <2>3. QED  BY <2>2
<1>3. k.at = "insert" /\ k.sub = s /\ k.drafts = {}
  BY DEF Idle
<1> HIDE DEF k
<1>4. ~Paying(k) /\ ~Owning(k)
  BY <1>3 DEF Paying, Owning
<1>5. CallInv(c)'
  BY <1>1, <1>3, FS_EmptySet DEF CallInv, ResolveInv, RefundInv, RowsInv, SumInv, Resolving,
                                 Refunding, Touching, Paying, Summed
<1>6. QED  BY <1>1, <1>2, <1>3, <1>4, <1>5, LightStep

\* A direct refund has read the sub-order and its payment.
LEMMA RefundReadStep ==
    ASSUME IInv, NEW c \in Calls, NEW i \in Items, NEW key \in Keys, NEW q \in 1..Quantity[i],
           RefundRead(c, i, q, key)
    PROVE  IInv'
<1> DEFINE k == [Idle EXCEPT !.at = "lock", !.sub = SubOf[i], !.item = i,
                             !.quantity = q, !.key = key]
<1>1. /\ call' = [call EXCEPT ![c] = k] /\ begun' \in 0..MaxCalls /\ UNCHANGED rows
      /\ board' \in [Admins -> SUBSET Disputes] /\ call'[c] = k
  BY BeginEffect DEF RefundRead
<1>2. SubOf[i] \in SubOrders /\ q \in Nat /\ Quantity[i] \in Nat
  BY DisputesAssumption
<1>3. k \in CallRecord
  <2>1. "lock" \in At
    BY DEF At
  <2>2. [[[[[Idle EXCEPT !.at = "lock"] EXCEPT !.sub = SubOf[i]] EXCEPT !.item = i]
           EXCEPT !.quantity = q] EXCEPT !.key = key] \in CallRecord
    BY <1>2, <2>1, IdleType, FieldTypes
  <2>3. QED  BY <2>2
<1>4. /\ k.at = "lock" /\ k.sub = SubOf[i] /\ k.drafts = {}
      /\ k.item = i /\ k.key = key /\ k.quantity = q
  BY DEF Idle
<1> HIDE DEF k
<1>5. ~Paying(k) /\ ~Owning(k)
  BY <1>4 DEF Paying, Owning
<1>6. CallInv(c)'
  BY <1>1, <1>2, <1>4, FS_EmptySet DEF CallInv, ResolveInv, RefundInv, RowsInv, SumInv,
                                       Resolving, Refunding, Touching, Paying, Summed, ItemsOf
<1>7. QED  BY <1>1, <1>3, <1>4, <1>5, <1>6, LightStep

\* A decision has read the dispute, open, and what it will refund.
LEMMA ResolveReadStep ==
    ASSUME IInv, NEW c \in Calls, NEW a \in Admins, NEW d \in Disputes, NEW v \in Verdicts,
           ResolveRead(c, a, d, v)
    PROVE  IInv'
<1> DEFINE paying == v = "RESOLVED_FOR_CUSTOMER" /\ status[dispute[d].sub] = "COMPLETED"
           s == dispute[d].sub
           seen == [Idle EXCEPT !.sub = s, !.dispute = d, !.verdict = v, !.by = a]
           k == IF paying THEN [seen EXCEPT !.at = "measure", !.todo = ItemsOf(s)]
                ELSE [seen EXCEPT !.at = "close"]
<1>1. /\ seen.sub = s /\ seen.dispute = d /\ seen.verdict = v /\ seen.drafts = {}
      /\ seen.todo = {}
  BY DEF Idle
<1>2. dispute[d].status = "OPEN" /\ UNCHANGED <<rows, board>> /\ Begin(c, k)
  BY <1>1 DEF ResolveRead
<1>3. /\ call' = [call EXCEPT ![c] = k] /\ begun' \in 0..MaxCalls /\ UNCHANGED rows
      /\ board' \in [Admins -> SUBSET Disputes] /\ call'[c] = k
      /\ dispute' = dispute /\ refunds' = refunds
  <2> HIDE DEF k
  <2> QED  BY <1>2, BeginEffect
<1>4. s \in SubOrders /\ ItemsOf(s) \subseteq Items
  BY <1>2 DEF IInv, RowsAgree, ItemsOf
<1>5. seen \in CallRecord
  <2>1. [[[[Idle EXCEPT !.sub = s] EXCEPT !.dispute = d] EXCEPT !.verdict = v]
          EXCEPT !.by = a] \in CallRecord
    BY <1>4, IdleType, FieldTypes
  <2>2. QED  BY <2>1
<1> HIDE DEF seen
<1>7. k \in CallRecord
  <2>1. "measure" \in At /\ "close" \in At
    BY DEF At
  <2>2. /\ [[seen EXCEPT !.at = "measure"] EXCEPT !.todo = ItemsOf(s)] \in CallRecord
        /\ [seen EXCEPT !.at = "close"] \in CallRecord
    BY <1>4, <1>5, <2>1, FieldTypes
  <2>3. QED  BY <2>2
<1>8. /\ k.sub = s /\ k.dispute = d /\ k.verdict = v /\ k.drafts = {}
      /\ k.at \in {"measure", "close"} /\ k.todo \subseteq ItemsOf(s)
      /\ k.at = "measure" => k.todo = ItemsOf(s) /\ v = "RESOLVED_FOR_CUSTOMER"
  <2>1. CASE paying
    BY <1>1, <1>5, <2>1 DEF CallRecord
  <2>2. CASE ~paying
    BY <1>1, <1>5, <2>2 DEF CallRecord
  <2>3. QED  BY <2>1, <2>2
<1> HIDE DEF k, paying
<1>9. ~Paying(k) /\ ~Owning(k)
  BY <1>8 DEF Paying, Owning
<1>10. CallInv(c)'
  <2>1. ResolveInv(call[c])'
    BY <1>2, <1>3, <1>8 DEF ResolveInv, Resolving
  <2>2. RefundInv(call[c])'
    BY <1>3, <1>8 DEF RefundInv, Refunding
  <2>3. RowsInv(call[c])'
    BY <1>3, <1>4, <1>8, FS_EmptySet DEF RowsInv, Touching, Paying, Resolving
  <2>4. SumInv(call[c])'
    BY <1>3, <1>8 DEF SumInv, Summed
  <2>5. QED  BY <2>1, <2>2, <2>3, <2>4 DEF CallInv
<1>11. QED  BY <1>3, <1>7, <1>8, <1>9, <1>10, LightStep

\* A call that goes on changes its own state only.
LEMMA ContinueEffect ==
    ASSUME IInv, NEW c \in Calls, NEW k, Continue(c, k), UNCHANGED <<rows, board>>
    PROVE  /\ call' = [call EXCEPT ![c] = k] /\ begun' \in 0..MaxCalls /\ UNCHANGED rows
           /\ board' \in [Admins -> SUBSET Disputes] /\ call'[c] = k
           /\ dispute' = dispute /\ refunds' = refunds
BY DEF Continue, IInv, TypeOK, rows

\* The refund rows, committed and drafted, are finitely many and apart.
LEMMA RefundsFinite ==
    ASSUME IInv, NEW c \in Calls
    PROVE  /\ refunds \in SUBSET RefundRow /\ IsFiniteSet(refunds)
           /\ call[c].drafts \in SUBSET RefundRow /\ IsFiniteSet(call[c].drafts)
           /\ refunds \cup call[c].drafts \in SUBSET RefundRow
           /\ IsFiniteSet(refunds \cup call[c].drafts)
           /\ refunds \cap call[c].drafts = {}
<1>1. refunds \in SUBSET RefundRow /\ IsFiniteSet(refunds)
  BY DEF IInv, TypeOK, RowsAgree
<1>2. call[c].drafts \in SUBSET RefundRow
  BY CallFields DEF IInv
<1>3. IsFiniteSet(call[c].drafts)
  BY DEF IInv, CallInv, RowsInv
<1>4. refunds \cap call[c].drafts = {}
  BY DEF IInv, Fresh, KeyTaken
<1>5. QED  BY <1>1, <1>2, <1>3, <1>4, FS_Union

\* An item of which units are refunded has a row.
LEMMA UnitsHaveRows ==
    ASSUME NEW i, RefundedUnits(i) # 0
    PROVE  \E r \in refunds : r.item = i
<1>1. CASE {r \in refunds : r.item = i} = {}
  BY <1>1, SumEmpty DEF RefundedUnits, UnitsOf
<1>2. QED  BY <1>1

\* The decision measures what is left of an item.
LEMMA MeasureStep ==
    ASSUME IInv, NEW c \in Calls, NEW i \in Items, Measure(c, i)
    PROVE  IInv'
<1> DEFINE left == Quantity[i] - RefundedUnits(i)
           next == [call[c] EXCEPT !.todo = @ \ {i}]
           k == IF left > 0 THEN [next EXCEPT !.at = "draft", !.item = i, !.quantity = left]
                ELSE next
<1>1. /\ call[c].at = "measure" /\ i \in call[c].todo
      /\ Continue(c, k) /\ UNCHANGED <<rows, board>>
  BY DEF Measure
<1>2. /\ call' = [call EXCEPT ![c] = k] /\ begun' \in 0..MaxCalls /\ UNCHANGED rows
      /\ board' \in [Admins -> SUBSET Disputes] /\ call'[c] = k
      /\ dispute' = dispute /\ refunds' = refunds
  <2> HIDE DEF k
  <2> QED  BY <1>1, ContinueEffect
<1>3. call[c] \in CallRecord /\ call[c].todo \in SUBSET Items
  BY CallFields DEF IInv
<1>4. RefundedUnits(i) \in Nat /\ Quantity[i] \in Nat \ {0} /\ left \in Int /\ left =< Quantity[i]
  <2>1. RefundedUnits(i) \in Nat
    BY RefundsFinite, UnitsNat DEF RefundedUnits
  <2>2. Quantity[i] \in Nat \ {0}
    BY DisputesAssumption
  <2>3. QED  BY <2>1, <2>2
<1>5. next \in CallRecord
  BY <1>3, FieldTypes
<1>6. /\ next.at = "measure" /\ next.todo = call[c].todo \ {i} /\ next.drafts = call[c].drafts
      /\ next.sub = call[c].sub /\ next.dispute = call[c].dispute
      /\ next.verdict = call[c].verdict
  BY <1>1, <1>3 DEF CallRecord
<1> HIDE DEF next, left
<1>7. k \in CallRecord
  <2>1. CASE left > 0
    <3>1. "draft" \in At /\ left \in Nat
      BY <1>4, <2>1 DEF At
    <3>2. [[[next EXCEPT !.at = "draft"] EXCEPT !.item = i] EXCEPT !.quantity = left] \in CallRecord
      BY <1>5, <3>1, FieldTypes
    <3>3. QED  BY <2>1, <3>2
  <2>2. CASE ~(left > 0)
    BY <1>5, <2>2
  <2>3. QED  BY <2>1, <2>2
<1>8. /\ k.todo = call[c].todo \ {i} /\ k.drafts = call[c].drafts
      /\ k.sub = call[c].sub /\ k.dispute = call[c].dispute /\ k.verdict = call[c].verdict
      /\ \/ left > 0 /\ k.at = "draft" /\ k.item = i /\ k.quantity = left
         \/ ~(left > 0) /\ k.at = "measure"
  <2>1. CASE left > 0
    BY <1>5, <1>6, <2>1 DEF CallRecord
  <2>2. CASE ~(left > 0)
    BY <1>6, <2>2
  <2>3. QED  BY <2>1, <2>2
<1> HIDE DEF k
<1>9. CallInv(c) /\ Fresh(call[c])
  BY DEF IInv
<1>10. ResolveInv(call[c])'
  BY <1>1, <1>2, <1>8, <1>9 DEF CallInv, ResolveInv, Resolving
<1>11. RefundInv(call[c])'
  BY <1>2, <1>8 DEF RefundInv, Refunding
<1>12. RowsInv(call[c])'
  <2>1. i \in ItemsOf(call[c].sub)
    BY <1>1, <1>9 DEF CallInv, ResolveInv, Resolving
  <2>2. Touching(k) => \E r \in refunds \cup k.drafts : SubOf[r.item] = k.sub
    <3>1. SUFFICES ASSUME ~(left > 0) PROVE \E r \in refunds : SubOf[r.item] = k.sub
      BY <1>8 DEF Touching, Paying
    <3>2. RefundedUnits(i) # 0
      BY <1>4, <3>1 DEF left
    <3>3. QED  BY <1>8, <2>1, <3>2, UnitsHaveRows DEF ItemsOf
  <2>3. k.at = "draft" => k.quantity \in 1..Quantity[k.item]
    BY <1>4, <1>8
  <2>4. QED  BY <1>1, <1>2, <1>8, <1>9, <2>2, <2>3 DEF CallInv, RowsInv, Resolving, Touching, Paying
<1>13. SumInv(call[c])'
  BY <1>2, <1>8 DEF SumInv, Summed
<1>14. ~Paying(k) /\ ~Owning(k)
  BY <1>8 DEF Paying, Owning
<1>15. QED  BY <1>2, <1>7, <1>8, <1>10, <1>11, <1>12, <1>13, <1>14, HeldStep DEF CallInv

\* The locks that other transactions have, as the guards see them.
LEMMA Guards ==
    ASSUME NEW c \in Calls
    PROVE  /\ NoOwner(c) => \A o \in Calls \ {c} : call[o].sub = call[c].sub => ~Owning(call[o])
           /\ NoUpdater(c) => \A o \in Calls \ {c} :
                 call[o].sub = call[c].sub => ~Paying(call[o]) /\ ~Owning(call[o])
           /\ NobodyElse(c) => \A o \in Calls \ {c} :
                 call[o].sub = call[c].sub => /\ call[o].drafts = {}
                                              /\ ~Paying(call[o]) /\ ~Owning(call[o])
BY DEF NoOwner, NoUpdater, NobodyElse, Others, Owns, Updates, Shares

\* The decision drafts the refund of what was left.
LEMMA DraftStep == ASSUME IInv, NEW c \in Calls, Draft(c) PROVE IInv'
<1> DEFINE row == [key |-> DisputeKey(c), item |-> call[c].item, quantity |-> call[c].quantity]
           k == [call[c] EXCEPT !.at = "measure", !.drafts = @ \cup {row}]
<1>1. /\ call[c].at = "draft" /\ NoOwner(c) /\ ~KeyDrafted(c, DisputeKey(c))
      /\ ~KeyTaken(DisputeKey(c)) /\ Continue(c, k) /\ UNCHANGED <<rows, board>>
  BY DEF Draft
<1>2. /\ call' = [call EXCEPT ![c] = k] /\ begun' \in 0..MaxCalls /\ UNCHANGED rows
      /\ board' \in [Admins -> SUBSET Disputes] /\ call'[c] = k
      /\ dispute' = dispute /\ refunds' = refunds
  <2> HIDE DEF k
  <2> QED  BY <1>1, ContinueEffect
<1>3. /\ call[c] \in CallRecord /\ call[c].drafts \in SUBSET RefundRow
      /\ IsFiniteSet(call[c].drafts)
  BY CallFields, RefundsFinite DEF IInv
<1>4. CallInv(c) /\ Fresh(call[c])
  BY DEF IInv
<1>5. /\ call[c].dispute \in Disputes /\ call[c].item \in ItemsOf(call[c].sub) \ call[c].todo
      /\ call[c].quantity \in 1..Quantity[call[c].item]
  BY <1>1, <1>4 DEF CallInv, ResolveInv, RowsInv, Resolving
<1>6. /\ row.key = <<call[c].dispute, call[c].item>> /\ row.item = call[c].item
      /\ row.quantity = call[c].quantity /\ row.key = DisputeKey(c)
  BY DEF DisputeKey
<1>7. row \in RefundRow /\ SubOf[row.item] = call[c].sub /\ row.quantity =< Quantity[row.item]
  <2>1. call[c].item \in Items /\ Quantity[call[c].item] \in Nat
    BY <1>5, DisputesAssumption DEF ItemsOf
  <2>2. call[c].quantity \in Nat \ {0} /\ call[c].quantity =< Quantity[call[c].item]
    BY <1>5, <2>1
  <2>3. DisputeKey(c) \in (Disputes \X Items) \cup Keys
    BY <1>5, <2>1 DEF DisputeKey
  <2>4. QED  BY <1>5, <1>6, <2>1, <2>2, <2>3 DEF RefundRow, ItemsOf
<1> HIDE DEF row
<1>8. k \in CallRecord
  <2>1. "measure" \in At
    BY DEF At
  <2>2. [[call[c] EXCEPT !.at = "measure"] EXCEPT !.drafts = call[c].drafts \cup {row}] \in CallRecord
    BY <1>3, <1>7, <2>1, FieldTypes
  <2>3. QED  BY <2>2
<1>9. /\ k.at = "measure" /\ k.todo = call[c].todo /\ k.drafts = call[c].drafts \cup {row}
      /\ k.sub = call[c].sub /\ k.dispute = call[c].dispute /\ k.verdict = call[c].verdict
  BY <1>3 DEF CallRecord
<1> HIDE DEF k
<1>10. ResolveInv(call[c])'
  BY <1>1, <1>2, <1>4, <1>5, <1>6, <1>9 DEF CallInv, ResolveInv, Resolving
<1>11. RefundInv(call[c])'
  BY <1>2, <1>9 DEF RefundInv, Refunding
<1>12. RowsInv(call[c])'
  <2>1. IsFiniteSet(k.drafts)
    BY <1>3, <1>9, FS_AddElement
  <2>2. \A r \in k.drafts : SubOf[r.item] = k.sub /\ r.quantity =< Quantity[r.item]
    BY <1>4, <1>7, <1>9 DEF CallInv, RowsInv
  <2>3. k.sub \in SubOrders
    BY <1>1, <1>4, <1>9 DEF CallInv, RowsInv
  <2>4. \E r \in refunds \cup k.drafts : SubOf[r.item] = k.sub
    BY <1>7, <1>9
  <2>5. QED  BY <1>2, <1>9, <2>1, <2>2, <2>3, <2>4 DEF RowsInv, Resolving
<1>13. SumInv(call[c])'
  BY <1>2, <1>9 DEF SumInv, Summed
<1>14. ~Paying(k) /\ ~Owning(k)
  BY <1>9 DEF Paying, Owning
<1>15. Fresh(call[c])'
  BY <1>1, <1>2, <1>4, <1>6, <1>9 DEF Fresh, KeyTaken
<1>16. ASSUME NEW o \in Calls \ {c}
       PROVE  /\ Compatible(k, call[o]) /\ Compatible(call[o], k) /\ Apart(k, call[o])
  <2>1. Compatible(k, call[o]) /\ Compatible(call[o], k)
    BY <1>1, <1>9, <1>14, Guards DEF Compatible
  <2>2. Apart(k, call[o])
    BY <1>1, <1>6, <1>9 DEF Apart, IInv, KeyDrafted
  <2>3. QED  BY <2>1, <2>2
<1>17. QED  BY <1>2, <1>8, <1>10, <1>11, <1>12, <1>13, <1>15, <1>16, CallStep DEF CallInv

\* The decision adds to the sub-order's column, one transaction at a time.
LEMMA IncrementStep == ASSUME IInv, NEW c \in Calls, Increment(c) PROVE IInv'
<1> DEFINE k == [call[c] EXCEPT !.at = "sum"]
<1>1. /\ call[c].at = "measure" /\ call[c].todo = {} /\ NoUpdater(c)
      /\ Continue(c, k) /\ UNCHANGED <<rows, board>>
  BY DEF Increment
<1>2. /\ call' = [call EXCEPT ![c] = k] /\ begun' \in 0..MaxCalls /\ UNCHANGED rows
      /\ board' \in [Admins -> SUBSET Disputes] /\ call'[c] = k
      /\ dispute' = dispute /\ refunds' = refunds
  <2> HIDE DEF k
  <2> QED  BY <1>1, ContinueEffect
<1>3. call[c] \in CallRecord
  BY CallFields DEF IInv
<1>4. CallInv(c) /\ Fresh(call[c])
  BY DEF IInv
<1>5. k \in CallRecord
  BY <1>3, FieldTypes DEF At
<1>6. /\ k.at = "sum" /\ k.todo = {} /\ k.drafts = call[c].drafts
      /\ k.sub = call[c].sub /\ k.dispute = call[c].dispute /\ k.verdict = call[c].verdict
  BY <1>1, <1>3 DEF CallRecord
<1> HIDE DEF k
<1>7. ResolveInv(call[c])'
  BY <1>1, <1>2, <1>4, <1>6 DEF CallInv, ResolveInv, Resolving
<1>8. RefundInv(call[c])'
  BY <1>2, <1>6 DEF RefundInv, Refunding
<1>9. RowsInv(call[c])'
  <2>1. call[c].sub \in SubOrders
    BY <1>1, <1>4 DEF CallInv, RowsInv
  <2>2. ItemsOf(call[c].sub) # {}
    BY <2>1, DisputesAssumption DEF ItemsOf
  <2>3. \E r \in refunds \cup call[c].drafts : SubOf[r.item] = call[c].sub
    BY <1>1, <1>4, <2>2 DEF CallInv, RowsInv, Touching
  <2>4. QED  BY <1>1, <1>2, <1>4, <1>6, <2>1, <2>3 DEF CallInv, RowsInv, Resolving
<1>10. SumInv(call[c])'
  BY <1>2, <1>6 DEF SumInv, Summed
<1>11. Fresh(call[c])'
  BY <1>2, <1>4, <1>6 DEF Fresh, KeyTaken
<1>12. ~Owning(k)
  BY <1>6 DEF Owning
<1>13. ASSUME NEW o \in Calls \ {c}
       PROVE  Compatible(k, call[o]) /\ Compatible(call[o], k) /\ Apart(k, call[o])
  <2>1. Apart(call[c], call[o])
    BY DEF IInv
  <2>2. Compatible(k, call[o]) /\ Compatible(call[o], k)
    BY <1>1, <1>6, <1>12, Guards DEF Compatible
  <2>3. QED  BY <1>6, <2>1, <2>2 DEF Apart
<1>14. QED  BY <1>2, <1>5, <1>7, <1>8, <1>9, <1>10, <1>11, <1>13, CallStep DEF CallInv

\* What a transaction sums is what it commits to, as long as nobody commits.
LEMMA SumRefundsStep ==
    ASSUME IInv, NEW c \in Calls, NEW next \in {"decide", "settle"}, SumRefunds(c, next),
           \/ call[c].at = "sum" /\ next = "decide"
           \/ call[c].at = "check" /\ call[c].drafts # {} /\ next = "settle"
    PROVE  IInv'
<1> DEFINE total == TotalOf(refunds \cup call[c].drafts)
           k == [call[c] EXCEPT !.at = next, !.sum = total]
<1>1. /\ call' = [call EXCEPT ![c] = k] /\ begun' \in 0..MaxCalls /\ UNCHANGED rows
      /\ board' \in [Admins -> SUBSET Disputes] /\ call'[c] = k
      /\ dispute' = dispute /\ refunds' = refunds
  <2> HIDE DEF k
  <2>1. Continue(c, k) /\ UNCHANGED <<rows, board>>
    BY DEF SumRefunds, k
  <2>2. QED  BY <2>1, ContinueEffect
<1>2. call[c] \in CallRecord
  BY CallFields DEF IInv
<1>3. CallInv(c)
  BY DEF IInv
<1>4. total \in Nat
  BY RefundsFinite, TotalNat
<1> HIDE DEF total
<1>5. k \in CallRecord
  <2>1. next \in At /\ total \in Int
    BY <1>4 DEF At
  <2>2. [[call[c] EXCEPT !.at = next] EXCEPT !.sum = total] \in CallRecord
    BY <1>2, <2>1, FieldTypes
  <2>3. QED  BY <2>2
<1>6. /\ k.at = next /\ k.sum = total /\ k.drafts = call[c].drafts /\ k.todo = call[c].todo
      /\ k.sub = call[c].sub /\ k.dispute = call[c].dispute /\ k.verdict = call[c].verdict
      /\ k.item = call[c].item /\ k.quantity = call[c].quantity /\ k.key = call[c].key
  BY <1>2 DEF CallRecord
<1> HIDE DEF k
<1>7. ResolveInv(call[c])'
  BY <1>1, <1>3, <1>6 DEF CallInv, ResolveInv, Resolving
<1>8. RefundInv(call[c])'
  BY <1>1, <1>3, <1>6 DEF CallInv, RefundInv, Refunding, RefundedUnits
<1>9. RowsInv(call[c])'
  BY <1>1, <1>3, <1>6 DEF CallInv, RowsInv, Resolving, Refunding, Touching, Paying
<1>10. SumInv(call[c])'
  <2>1. call'[c].sum = total /\ call'[c].drafts = call[c].drafts
    BY <1>1, <1>6
  <2>2. call'[c].sum = TotalOf(refunds' \cup call'[c].drafts)
    BY <1>1, <2>1, Zenon DEF total
  <2>3. call'[c].sum =< TotalOf(refunds' \cup call'[c].drafts)
    <3>1. total =< total
      BY <1>4
    <3>2. QED  BY <2>1, <2>2, <3>1, Zenon
  <2>4. QED  BY <2>2, <2>3, Zenon DEF SumInv
<1>11. /\ Paying(k) => Paying(call[c])
       /\ Owning(k) => Owning(call[c])
  BY <1>6 DEF Paying, Owning
<1>12. QED  BY <1>1, <1>5, <1>6, <1>7, <1>8, <1>9, <1>10, <1>11, HeldStep DEF CallInv

\* The direct refund locks the sub-order.
LEMMA RefundLockStep == ASSUME IInv, NEW c \in Calls, RefundLock(c) PROVE IInv'
<1> DEFINE k == [call[c] EXCEPT !.at = "check"]
<1>1. /\ call[c].at = "lock" /\ NobodyElse(c) /\ Continue(c, k) /\ UNCHANGED <<rows, board>>
  BY DEF RefundLock, RowLocked
<1>2. /\ call' = [call EXCEPT ![c] = k] /\ begun' \in 0..MaxCalls /\ UNCHANGED rows
      /\ board' \in [Admins -> SUBSET Disputes] /\ call'[c] = k
      /\ dispute' = dispute /\ refunds' = refunds
  <2> HIDE DEF k
  <2> QED  BY <1>1, ContinueEffect
<1>3. call[c] \in CallRecord
  BY CallFields DEF IInv
<1>4. CallInv(c)
  BY DEF IInv
<1>5. k \in CallRecord
  BY <1>3, FieldTypes DEF At
<1>6. call[c].drafts = {}
  BY <1>1, <1>4 DEF CallInv, RefundInv, Refunding
<1>7. /\ k.at = "check" /\ k.drafts = {} /\ k.sub = call[c].sub /\ k.item = call[c].item
      /\ k.quantity = call[c].quantity /\ k.key = call[c].key
  BY <1>3, <1>6 DEF CallRecord
<1> HIDE DEF k
<1>8. ResolveInv(call[c])'
  BY <1>2, <1>7 DEF ResolveInv, Resolving
<1>9. RefundInv(call[c])'
  BY <1>1, <1>2, <1>4, <1>7 DEF CallInv, RefundInv, Refunding
<1>10. RowsInv(call[c])'
  BY <1>1, <1>2, <1>4, <1>7, FS_EmptySet
     DEF CallInv, RowsInv, Resolving, Refunding, Touching, Paying
<1>11. SumInv(call[c])'
  BY <1>2, <1>7 DEF SumInv, Summed
<1>12. Fresh(call[c])'
  BY <1>2, <1>7 DEF Fresh
<1>13. ~Paying(k)
  BY <1>7 DEF Paying
<1>14. ASSUME NEW o \in Calls \ {c}
       PROVE  Compatible(k, call[o]) /\ Compatible(call[o], k) /\ Apart(k, call[o])
  BY <1>1, <1>7, <1>13, Guards DEF Compatible, Apart
<1>15. QED  BY <1>2, <1>5, <1>8, <1>9, <1>10, <1>11, <1>12, <1>14, CallStep DEF CallInv

\* The direct refund checks the item under the lock and drafts its row.
LEMMA RefundCheckStep == ASSUME IInv, NEW c \in Calls, RefundCheck(c) PROVE IInv'
<1> DEFINE row == [key |-> call[c].key, item |-> call[c].item, quantity |-> call[c].quantity]
           k == [call[c] EXCEPT !.drafts = {row}]
<1>1. /\ call[c].at = "check" /\ call[c].drafts = {} /\ ~KeyDrafted(c, call[c].key)
      /\ RefundedUnits(call[c].item) + call[c].quantity =< Quantity[call[c].item]
      /\ ~KeyTaken(call[c].key) /\ Continue(c, k) /\ UNCHANGED <<rows, board>>
  BY DEF RefundCheck
<1>2. /\ call' = [call EXCEPT ![c] = k] /\ begun' \in 0..MaxCalls /\ UNCHANGED rows
      /\ board' \in [Admins -> SUBSET Disputes] /\ call'[c] = k
      /\ dispute' = dispute /\ refunds' = refunds
  <2> HIDE DEF k
  <2> QED  BY <1>1, ContinueEffect
<1>3. call[c] \in CallRecord
  BY CallFields DEF IInv
<1>4. CallInv(c)
  BY DEF IInv
<1>5. /\ call[c].item \in ItemsOf(call[c].sub) /\ call[c].key \in Keys
      /\ call[c].quantity \in 1..Quantity[call[c].item] /\ call[c].sub \in SubOrders
  BY <1>1, <1>4 DEF CallInv, RefundInv, RowsInv, Refunding
<1>6. call[c].item \in Items /\ SubOf[call[c].item] = call[c].sub
      /\ Quantity[call[c].item] \in Nat
  BY <1>5, DisputesAssumption DEF ItemsOf
<1>7. row \in RefundRow /\ row.item = call[c].item /\ row.key = call[c].key
      /\ row.quantity = call[c].quantity /\ row.quantity =< Quantity[row.item]
  <2>1. call[c].quantity \in Nat \ {0} /\ call[c].quantity =< Quantity[call[c].item]
    BY <1>5, <1>6
  <2>2. QED  BY <1>5, <1>6, <2>1 DEF RefundRow
<1>8. k \in CallRecord
  <2> HIDE DEF row
  <2> QED  BY <1>3, <1>7, FieldTypes
<1>9. /\ k.at = "check" /\ k.drafts = {row} /\ k.sub = call[c].sub /\ k.item = call[c].item
      /\ k.quantity = call[c].quantity /\ k.key = call[c].key
  <2> HIDE DEF row
  <2> QED  BY <1>1, <1>3 DEF CallRecord
<1>10. {row} \subseteq {[key |-> k.key, item |-> k.item, quantity |-> k.quantity]}
  <2> HIDE DEF k
  <2> QED  BY <1>9
<1> HIDE DEF k, row
<1>11. ResolveInv(call[c])'
  BY <1>2, <1>9 DEF ResolveInv, Resolving
<1>12. RefundInv(call[c])'
  BY <1>1, <1>2, <1>5, <1>9, <1>10 DEF RefundInv, RefundedUnits
<1>13. RowsInv(call[c])'
  <2>1. IsFiniteSet(k.drafts)
    BY <1>9, FS_Singleton
  <2>2. \A r \in k.drafts : SubOf[r.item] = k.sub /\ r.quantity =< Quantity[r.item]
    BY <1>6, <1>7, <1>9
  <2>3. QED
    BY <1>2, <1>5, <1>9, <2>1, <2>2 DEF RowsInv, Refunding, Resolving, Touching, Paying
<1>14. SumInv(call[c])'
  BY <1>2, <1>9 DEF SumInv, Summed
<1>15. Fresh(call[c])'
  BY <1>1, <1>2, <1>7, <1>9 DEF Fresh, KeyTaken
<1>16. ~Paying(k) /\ Owning(call[c])
  BY <1>1, <1>9 DEF Paying, Owning
<1>17. ASSUME NEW o \in Calls \ {c}
       PROVE  Compatible(k, call[o]) /\ Compatible(call[o], k) /\ Apart(k, call[o])
  <2>1. Compatible(call[c], call[o])
    BY DEF IInv
  <2>2. call[o].sub = k.sub => call[o].drafts = {} /\ ~Paying(call[o]) /\ ~Owning(call[o])
    BY <1>9, <1>16, <2>1 DEF Compatible
  <2>3. Apart(k, call[o])
    BY <1>1, <1>7, <1>9 DEF Apart, KeyDrafted
  <2>4. QED  BY <1>16, <2>2, <2>3 DEF Compatible
<1>18. QED  BY <1>2, <1>8, <1>11, <1>12, <1>13, <1>14, <1>15, <1>17, CallStep DEF CallInv

-----------------------------------------------------------------------------
(* Disputes are opened and status and pages change *)

\* The dispute is inserted.
LEMMA OpenInsertStep ==
    ASSUME IInv, NEW c \in Calls, NEW d \in Disputes, OpenInsert(c, d)
    PROVE  IInv'
<1>1. /\ call[c].at = "insert" /\ dispute[d].status = "none"
      /\ dispute' = [dispute EXCEPT ![d] = [sub |-> call[c].sub, status |-> "OPEN"]]
      /\ call' = [call EXCEPT ![c] = Idle] /\ UNCHANGED begun
      /\ UNCHANGED <<status, decisions, refunds, refunded, kept, payment, board>>
  BY DEF OpenInsert, Return, Continue
<1>2. call[c].sub \in SubOrders
  BY <1>1 DEF IInv, CallInv, RowsInv
<1>3. /\ call'[c] = Idle /\ \A o \in Calls \ {c} : call'[o] = call[o]
      /\ dispute'[d].sub \in SubOrders
      /\ \A e \in Disputes \ {d} : dispute'[e] = dispute[e]
  BY <1>1, <1>2 DEF IInv, TypeOK
<1>4. TypeOK'
  <2>1. dispute' \in [Disputes -> [sub : SubOrders \cup {None},
                                   status : {"none", "OPEN"} \cup Verdicts]]
    BY <1>1, <1>2 DEF IInv, TypeOK
  <2>2. call' \in [Calls -> CallRecord]
    BY <1>1, IdleType DEF IInv, TypeOK
  <2>3. QED  BY <1>1, <2>1, <2>2 DEF IInv, TypeOK
<1>5. DisputesKept
  BY <1>1, <1>3 DEF DisputesKept
<1>6. \A o \in Calls \ {c} : CallInv(o)' /\ Fresh(call[o])'
  BY <1>1, <1>3, <1>5, OthersKeep DEF IInv
<1>7. CallInv(c)' /\ Fresh(call[c])'
  BY <1>3, EmptyInv
<1>8. \A p \in Calls : \A o \in Calls \ {p} :
          Compatible(call[p], call[o])' /\ Apart(call[p], call[o])'
  BY <1>3, IdlePairs
<1>9. RowsAgree'
  <2>1. OverRefundBounded'
    <3>1. ASSUME NEW i \in Items PROVE DecidedFor(i)' = DecidedFor(i)
      BY <1>1, <1>3 DEF IInv, RowsAgree, DecidedFor, Verdicts
    <3>2. QED  BY <1>1, <3>1 DEF IInv, RowsAgree, OverRefundBounded, RefundedUnits
  <2>2. ColumnsFollowRefunds' /\ PaymentFollowsRefunds'
    BY <1>1 DEF IInv, RowsAgree, ColumnsFollowRefunds, RefundsOf, PaymentFollowsRefunds
  <2>3. \A e \in Disputes : dispute'[e].status # "none" => dispute'[e].sub \in SubOrders
    BY <1>3 DEF IInv, RowsAgree
  <2>4. \A e \in Disputes, v \in Verdicts : <<e, v>> \in decisions' => dispute'[e].status # "none"
    BY <1>1, <1>5 DEF IInv, RowsAgree, DisputesKept
  <2>5. IsFiniteSet(refunds') /\ IsFiniteSet(decisions')
    BY <1>1 DEF IInv, RowsAgree
  <2>6. QED  BY <2>1, <2>2, <2>3, <2>4, <2>5 DEF RowsAgree
<1>10. QED  BY <1>4, <1>6, <1>7, <1>8, <1>9 DEF IInv

-----------------------------------------------------------------------------
(* Commits *)

\* A transaction that commits while another holds a lock on the same sub-order has
\* nothing of its own to add.
LEMMA CommitsNothing ==
    ASSUME IInv, NEW c \in Calls, call[c].at \in {"decide", "close", "settle"},
           NEW o \in Calls \ {c}, call[o].sub = call[c].sub,
           Owning(call[o]) \/ Paying(call[o])
    PROVE  call[c].drafts = {}
<1>1. Compatible(call[o], call[c])
  BY DEF IInv
<1>2. CASE Owning(call[o])
  BY <1>1, <1>2 DEF Compatible
<1>3. CASE Paying(call[o])
  <2>1. call[c].at = "close"
    BY <1>1, <1>3 DEF Compatible, Paying, Owning
  <2>2. QED  BY <2>1 DEF IInv, CallInv, ResolveInv, Resolving
<1>4. QED  BY <1>2, <1>3

\* What a commit leaves of the other transactions.
LEMMA OthersAfterCommit ==
    ASSUME IInv, NEW c \in Calls, call[c].at \in {"decide", "close", "settle"},
           refunds' = refunds \cup call[c].drafts, DisputesKept,
           NEW o \in Calls \ {c}, call'[o] = call[o]
    PROVE  CallInv(o)' /\ Fresh(call[o])'
<1> DEFINE ds == call[c].drafts
<1>1. CallInv(o) /\ Fresh(call[o]) /\ Apart(call[o], call[c])
  BY DEF IInv
<1>2. \A r \in ds : SubOf[r.item] = call[c].sub
  BY DEF IInv, CallInv, RowsInv
<1>3. call[o].sub = call[c].sub /\ (Owning(call[o]) \/ Paying(call[o])) => ds = {}
  BY CommitsNothing
<1>4. ResolveInv(call[o])'
  BY <1>1 DEF CallInv, ResolveInv, DisputesKept
<1>5. RefundInv(call[o])'
  <2>1. ASSUME call[o].at \in Refunding, call[o].drafts # {}
        PROVE  RefundedUnits(call[o].item)' = RefundedUnits(call[o].item)
    <3>1. call[o].item \in ItemsOf(call[o].sub) /\ Owning(call[o])
      BY <1>1, <2>1 DEF CallInv, RefundInv, Refunding, Owning
    <3>2. {r \in refunds' : r.item = call[o].item} = {r \in refunds : r.item = call[o].item}
      BY <1>2, <1>3, <3>1 DEF ItemsOf
    <3>3. QED  BY <3>2, Zenon DEF RefundedUnits, UnitsOf
  <2>2. QED  BY <1>1, <2>1 DEF CallInv, RefundInv
<1>6. RowsInv(call[o])'
  BY <1>1 DEF CallInv, RowsInv, Touching, Paying
<1>7. SumInv(call[o])'
  <2> SUFFICES ASSUME Summed(call[o])
               PROVE  /\ call[o].sum =< TotalOf(refunds' \cup call[o].drafts)
                      /\ (\A r \in refunds' : SubOf[r.item] = call[o].sub) =>
                            call[o].sum = TotalOf(refunds' \cup call[o].drafts)
    BY DEF SumInv, Summed
  <2>1. /\ call[o].sum =< TotalOf(refunds \cup call[o].drafts)
        /\ (\A r \in refunds : SubOf[r.item] = call[o].sub) =>
              call[o].sum = TotalOf(refunds \cup call[o].drafts)
    BY <1>1 DEF CallInv, SumInv
  <2>2. Owning(call[o]) \/ Paying(call[o])
    BY DEF Summed, Owning, Paying
  <2> DEFINE after == refunds' \cup call[o].drafts
             before == refunds \cup call[o].drafts
  <2>3. after \in SUBSET RefundRow /\ IsFiniteSet(after) /\ before \in SUBSET after
    <3>1. /\ refunds \cup call[c].drafts \in SUBSET RefundRow
          /\ IsFiniteSet(refunds \cup call[c].drafts)
          /\ call[o].drafts \in SUBSET RefundRow /\ IsFiniteSet(call[o].drafts)
      BY RefundsFinite
    <3>2. QED  BY <3>1, FS_Union
  <2>4. TotalOf(before) =< TotalOf(after) /\ TotalOf(before) \in Nat /\ TotalOf(after) \in Nat
    <3> HIDE DEF before, after
    <3>1. IsFiniteSet(before) /\ before \in SUBSET RefundRow
      BY <2>3, FS_Subset
    <3>2. QED  BY <2>3, <3>1, TotalMonotone, TotalNat
  <2>5. call[o].sum \in Int
    BY CallFields DEF IInv
  <2>6. call[o].sum =< TotalOf(after)
    <3> HIDE DEF after
    <3>1. call[o].sum =< TotalOf(before)
      BY <2>1
    <3> HIDE DEF before
    <3>2. QED  BY <2>4, <2>5, <3>1
  <2>7. ASSUME \A r \in refunds' : SubOf[r.item] = call[o].sub
        PROVE  call[o].sum = TotalOf(after)
    <3>1. ds = {}
      BY <1>2, <1>3, <2>2, <2>7
    <3>2. refunds' = refunds
      BY <3>1
    <3>3. QED  BY <2>1, <2>7, <3>2
  <2>8. QED  BY <2>6, <2>7
<1>8. Fresh(call[o])'
  BY <1>1 DEF Fresh, KeyTaken, Apart
<1>9. QED  BY <1>4, <1>5, <1>6, <1>7, <1>8 DEF CallInv

\* The rows a commit adds are rows of the sub-order that were not there.
LEMMA CommitRefunds ==
    ASSUME IInv, NEW c \in Calls, call[c].at \in {"decide", "close", "settle"},
           refunds' = refunds \cup call[c].drafts
    PROVE  /\ refunds' \in SUBSET RefundRow /\ IsFiniteSet(refunds')
           /\ TotalOf(refunds') \in Nat /\ TotalOf(call[c].drafts) \in Nat
           /\ call[c].sub \in SubOrders
           /\ \A r \in call[c].drafts : SubOf[r.item] = call[c].sub
<1>1. /\ refunds' \in SUBSET RefundRow /\ IsFiniteSet(refunds')
      /\ call[c].drafts \in SUBSET RefundRow /\ IsFiniteSet(call[c].drafts)
  BY RefundsFinite
<1>2. TotalOf(refunds') \in Nat /\ TotalOf(call[c].drafts) \in Nat
  BY <1>1, TotalNat
<1>3. call[c].sub \in SubOrders /\ \A r \in call[c].drafts : SubOf[r.item] = call[c].sub
  BY DEF IInv, CallInv, RowsInv
<1>4. QED  BY <1>1, <1>2, <1>3

\* Adding rows to a part of the rows of a sub-order adds their total.
LEMMA PartTotal ==
    ASSUME IInv, NEW c \in Calls, NEW part \in SUBSET refunds, NEW more \in SUBSET call[c].drafts
    PROVE  /\ TotalOf(part \cup more) = TotalOf(part) + TotalOf(more)
           /\ TotalOf(part) \in Nat /\ TotalOf(more) \in Nat
<1>1. /\ refunds \in SUBSET RefundRow /\ IsFiniteSet(refunds)
      /\ call[c].drafts \in SUBSET RefundRow /\ IsFiniteSet(call[c].drafts)
      /\ refunds \cap call[c].drafts = {}
  BY RefundsFinite
<1>2. /\ part \in SUBSET RefundRow /\ more \in SUBSET RefundRow /\ part \cap more = {}
      /\ IsFiniteSet(part) /\ IsFiniteSet(more)
  BY <1>1, FS_Subset
<1>3. QED  BY <1>2, TotalDisjoint, TotalNat

\* The columns follow the rows through a commit, whichever of the two it is.
LEMMA CommitColumns ==
    ASSUME IInv, NEW c \in Calls, call[c].at \in {"decide", "close", "settle"},
           refunds' = refunds \cup call[c].drafts,
           refunded' = [refunded EXCEPT ![call[c].sub] = AddToRefunded(c)],
           \/ kept' = kept /\ \A r \in call[c].drafts : ByDispute(r)
           \/ /\ kept' = [kept EXCEPT ![call[c].sub] = @ - TotalOf(call[c].drafts)]
              /\ \A r \in call[c].drafts : ~ByDispute(r)
    PROVE  ColumnsFollowRefunds'
<1> DEFINE ds == call[c].drafts
           sub == call[c].sub
           own(s) == {r \in RefundsOf(s) : ~ByDispute(r)}
           after(s) == {r \in refunds' : SubOf[r.item] = s}
           ownAfter(s) == {r \in after(s) : ~ByDispute(r)}
<1>1. sub \in SubOrders /\ \A r \in ds : SubOf[r.item] = sub
  BY CommitRefunds
<1>2. refunded \in [SubOrders -> Int] /\ kept \in [SubOrders -> Int]
  BY DEF IInv, TypeOK
<1>3. \A s \in SubOrders : /\ refunded[s] = TotalOf(RefundsOf(s))
                           /\ kept[s] = Subtotal(s) - TotalOf(own(s))
  BY DEF IInv, RowsAgree, ColumnsFollowRefunds
<1> SUFFICES ASSUME NEW s \in SubOrders
             PROVE  /\ refunded'[s] = TotalOf(after(s))
                    /\ kept'[s] = Subtotal(s) - TotalOf(ownAfter(s))
  BY Zenon DEF ColumnsFollowRefunds, RefundsOf, ByDispute, Subtotal, TotalOf
<1>4. CASE s # sub
  <2>1. after(s) = RefundsOf(s)
    BY <1>1, <1>4 DEF RefundsOf
  <2>2. ownAfter(s) = own(s)
    BY <2>1
  <2>3. refunded'[s] = refunded[s] /\ kept'[s] = kept[s]
    BY <1>2, <1>4
  <2>4. QED  BY <1>3, <2>1, <2>2, <2>3
<1>5. CASE s = sub
  <2>1. after(s) = RefundsOf(s) \cup ds
    BY <1>1, <1>5 DEF RefundsOf
  <2>2. TotalOf(after(s)) = TotalOf(RefundsOf(s)) + TotalOf(ds)
    <3>1. RefundsOf(s) \in SUBSET refunds /\ ds \in SUBSET call[c].drafts
      BY DEF RefundsOf
    <3>2. TotalOf(RefundsOf(s) \cup ds) = TotalOf(RefundsOf(s)) + TotalOf(ds)
      <4> HIDE DEF ds, own, after, ownAfter
      <4> QED  BY <3>1, PartTotal
    <3> HIDE DEF ds, after
    <3>3. QED  BY <2>1, <3>2
  <2>3. refunded'[s] = refunded[s] + TotalOf(ds)
    BY <1>2, <1>5 DEF AddToRefunded
  <2>4. refunded'[s] = TotalOf(after(s))
    BY <1>3, <2>2, <2>3
  <2>5. own(s) \in SUBSET refunds
    BY DEF RefundsOf
  <2>6. /\ TotalOf(own(s) \cup ds) = TotalOf(own(s)) + TotalOf(ds)
        /\ TotalOf(own(s)) \in Nat /\ TotalOf(ds) \in Nat
    <3> HIDE DEF own
    <3> QED  BY <2>5, PartTotal, Zenon
  <2>7. Subtotal(s) \in Int
    <3>1. kept[s] \in Int
      BY <1>2
    <3> DEFINE is == ItemsOf(s)
    <3>2. IsFiniteSet(is) /\ \A i \in is : Cost[i] \in Nat
      BY Values, DisputesAssumption, FS_Subset DEF ItemsOf
    <3>3. SumFunctionOnSet(Cost, is) \in Nat
      <4> HIDE DEF is
      <4> QED  BY <3>2, SumNat
    <3>4. QED  BY <3>3 DEF Subtotal
  <2>8. CASE kept' = kept /\ \A r \in ds : ByDispute(r)
    <3>1. ownAfter(s) = own(s)
      BY <2>1, <2>8
    <3>2. QED  BY <1>3, <2>4, <2>8, <3>1
  <2>9. CASE kept' = [kept EXCEPT ![sub] = @ - TotalOf(ds)] /\ \A r \in ds : ~ByDispute(r)
    <3>1. ownAfter(s) = own(s) \cup ds
      BY <2>1, <2>9
    <3>2. kept'[s] = kept[s] - TotalOf(ds)
      BY <1>2, <1>5, <2>9
    <3>3. kept[s] = Subtotal(s) - TotalOf(own(s))
      BY <1>3
    <3>4. TotalOf(ownAfter(s)) = TotalOf(own(s)) + TotalOf(ds)
      BY <2>6, <3>1, Zenon
    <3> HIDE DEF own, ds, ownAfter
    <3>5. kept'[s] = Subtotal(s) - TotalOf(ownAfter(s))
      BY <2>6, <2>7, <3>2, <3>3, <3>4
    <3>6. QED  BY <2>4, <3>5
  <2>10. QED  BY <2>8, <2>9
<1>6. QED  BY <1>4, <1>5

\* The payment follows the rows through a commit.
LEMMA CommitPayment ==
    ASSUME IInv, NEW c \in Calls, call[c].at \in {"decide", "close", "settle"},
           refunds' = refunds \cup call[c].drafts,
           payment' = IF call[c].at = "close" THEN payment ELSE PaymentAfter(call[c].sum)
    PROVE  PaymentFollowsRefunds' /\ payment' \in PaymentStatus
<1> DEFINE sub == call[c].sub
           sum == call[c].sum
           subs == {SubOf[r.item] : r \in refunds'}
<1>1. CASE call[c].at = "close"
  <2>1. call[c].drafts = {}
    BY <1>1 DEF IInv, CallInv, ResolveInv, Resolving
  <2>2. refunds' = refunds /\ payment' = payment
    BY <1>1, <2>1
  <2>3. QED  BY <2>2 DEF IInv, TypeOK, RowsAgree, PaymentFollowsRefunds
<1>2. CASE Summed(call[c])
  <2>1. payment' = PaymentAfter(sum)
    BY <1>2 DEF Summed
  <2>2. PaidAmount \in Nat
    BY Values, SumNat, DisputesAssumption DEF PaidAmount
  <2>3. TotalOf(refunds') \in Nat /\ sum \in Int
    BY CommitRefunds, CallFields DEF IInv
  <2>4. /\ sum =< TotalOf(refunds')
        /\ (\A r \in refunds : SubOf[r.item] = sub) => sum = TotalOf(refunds')
    BY <1>2 DEF IInv, CallInv, SumInv
  <2>5. PICK row \in refunds' : SubOf[row.item] = sub
    <3>1. CASE call[c].at = "decide"
      BY <3>1 DEF IInv, CallInv, RowsInv, Touching, Paying
    <3>2. CASE call[c].at = "settle"
      <4>1. call[c].drafts # {}
        BY <3>2 DEF IInv, CallInv, RefundInv, Refunding
      <4>2. QED  BY <4>1, CommitRefunds
    <3>3. QED  BY <1>2, <3>1, <3>2 DEF Summed
  <2>6. payment' = "REFUNDED" => TotalOf(refunds') >= PaidAmount
    BY <2>1, <2>2, <2>3, <2>4 DEF PaymentAfter
  <2>7. payment' = "PAID" <=> refunds' = {}
    BY <2>1, <2>5 DEF PaymentAfter
  <2>8. ASSUME Cardinality(subs) = 1, TotalOf(refunds') >= PaidAmount
        PROVE  payment' = "REFUNDED"
    <3>1. IsFiniteSet(subs)
      <4> DEFINE f == [r \in refunds' |-> SubOf[r.item]]
      <4>1. f \in Surjection(refunds', subs)
        BY DEF Surjection
      <4>2. IsFiniteSet(refunds')
        BY CommitRefunds
      <4> HIDE DEF f, subs
      <4>3. QED  BY <4>1, <4>2, FS_Surjection
    <3>2. PICK x : subs = {x}
      <4> HIDE DEF subs
      <4> QED  BY <2>8, <3>1, FS_Singleton
    <3>3. \A r \in refunds' : SubOf[r.item] = sub
      BY <2>5, <3>2
    <3>4. sum = TotalOf(refunds')
      BY <2>4, <3>3
    <3>5. sum >= PaidAmount
      BY <2>8, <3>4
    <3>6. QED  BY <2>1, <3>5 DEF PaymentAfter
  <2>9. PaymentFollowsRefunds'
    <3>1. PaidAmount' = PaidAmount
      BY DEF PaidAmount, Cost
    <3>2. QED  BY <2>6, <2>7, <2>8, <3>1 DEF PaymentFollowsRefunds
  <2>10. payment' \in PaymentStatus
    BY <2>1 DEF PaymentAfter, PaymentStatus, Refundable
  <2>11. QED  BY <2>9, <2>10
<1>3. QED  BY <1>1, <1>2 DEF Summed

\* Decisions name finitely many disputes.
LEMMA DecidedFinite ==
    ASSUME NEW ds, IsFiniteSet(ds), NEW T, NEW v, \A d \in T : <<d, v>> \in ds
    PROVE  IsFiniteSet(T)
<1> DEFINE f == [d \in T |-> <<d, v>>]
<1>1. f \in Injection(T, ds)
  BY DEF Injection, IsInjective
<1> HIDE DEF f
<1>2. QED  BY <1>1, FS_Injection

\* The bound of an item grows with the decisions, by a whole line for each.
LEMMA Bound ==
    ASSUME NEW q \in Nat, NEW n \in Nat, NEW m \in Nat, n =< m
    PROVE  /\ q * (1 + n) \in Nat /\ q * (1 + m) \in Nat /\ q =< q * (1 + n)
           /\ q * (1 + n) =< q * (1 + m)
           /\ m = n + 1 => q * (1 + m) = q * (1 + n) + q
<1>1. \A a, b \in Nat : a * b \in Nat
  OBVIOUS
<1>2. q * (1 + n) \in Nat /\ q * (1 + m) \in Nat /\ q * n \in Nat /\ q * (m - n) \in Nat
  BY <1>1
<1>3. q * (1 + n) = q + q * n
  OBVIOUS
<1>4. q * (1 + m) = q * (1 + n) + q * (m - n)
  OBVIOUS
<1>5. m = n + 1 => q * (1 + m) = q * (1 + n) + q
  OBVIOUS
<1>6. QED  BY <1>2, <1>3, <1>4, <1>5

\* A commit adds the units of its rows.
LEMMA CommitUnits ==
    ASSUME IInv, NEW c \in Calls, refunds' = refunds \cup call[c].drafts, NEW i \in Items
    PROVE  /\ RefundedUnits(i)' = RefundedUnits(i) + UnitsOf(call[c].drafts, i)
           /\ RefundedUnits(i) \in Nat /\ UnitsOf(call[c].drafts, i) \in Nat
<1>1. /\ refunds \in SUBSET RefundRow /\ IsFiniteSet(refunds)
      /\ call[c].drafts \in SUBSET RefundRow /\ IsFiniteSet(call[c].drafts)
      /\ refunds \cap call[c].drafts = {}
  BY RefundsFinite
<1>2. UnitsOf(refunds \cup call[c].drafts, i) = UnitsOf(refunds, i) + UnitsOf(call[c].drafts, i)
  BY <1>1, UnitsDisjoint
<1>3. UnitsOf(refunds, i) \in Nat /\ UnitsOf(call[c].drafts, i) \in Nat
  BY <1>1, UnitsNat
<1>4. RefundedUnits(i)' = UnitsOf(refunds \cup call[c].drafts, i)
  BY Zenon DEF RefundedUnits, UnitsOf, Units
<1>5. QED  BY <1>2, <1>3, <1>4 DEF RefundedUnits

\* A decision for the customer repays an item by one line at most, and counts.
LEMMA DecideBounded ==
    ASSUME IInv, NEW c \in Calls, call[c].at \in {"decide", "close"}, DecisionFree(c),
           refunds' = refunds \cup call[c].drafts, DisputesKept,
           decisions' = decisions \cup {<<call[c].dispute, call[c].verdict>>}
    PROVE  OverRefundBounded' /\ IsFiniteSet(decisions')
<1> DEFINE k == call[c]
           ds == k.drafts
           before(i) == Cardinality(DecidedFor(i))
           after(i) == Cardinality(DecidedFor(i)')
<1>1. IsFiniteSet(decisions) /\ IsFiniteSet(decisions')
  BY FS_AddElement DEF IInv, RowsAgree
<1>2. k.dispute \in Disputes /\ dispute[k.dispute].status # "none" /\ dispute[k.dispute].sub = k.sub
      /\ (k.at = "decide" => k.verdict = "RESOLVED_FOR_CUSTOMER")
      /\ (k.at = "close" => ds = {})
      /\ \A r, q \in ds : r.item = q.item => r = q
  BY DEF IInv, CallInv, ResolveInv, Resolving
<1>3. \A r \in ds : SubOf[r.item] = k.sub /\ r.quantity =< Quantity[r.item]
  BY DEF IInv, CallInv, RowsInv
<1>4. ds \in SUBSET RefundRow
  BY RefundsFinite
<1> SUFFICES ASSUME NEW i \in Items
             PROVE  RefundedUnits(i)' =< Quantity[i] * (1 + after(i))
  BY <1>1 DEF OverRefundBounded
<1>5. Quantity[i] \in Nat
  BY DisputesAssumption
<1>6. DecidedFor(i) \subseteq DecidedFor(i)'
  BY DEF IInv, RowsAgree, DecidedFor, DisputesKept, Verdicts
<1>7. IsFiniteSet(DecidedFor(i)')
  <2>1. \A d \in DecidedFor(i)' : <<d, "RESOLVED_FOR_CUSTOMER">> \in decisions'
    BY DEF DecidedFor
  <2>2. QED  BY <1>1, <2>1, DecidedFinite
<1>8. before(i) \in Nat /\ after(i) \in Nat /\ before(i) =< after(i) /\ IsFiniteSet(DecidedFor(i))
  BY <1>6, <1>7, FS_Subset, FS_CardinalityType
<1>9. RefundedUnits(i) =< Quantity[i] * (1 + before(i))
  BY DEF IInv, RowsAgree, OverRefundBounded
<1>10. /\ RefundedUnits(i)' = RefundedUnits(i) + UnitsOf(ds, i)
       /\ RefundedUnits(i) \in Nat /\ UnitsOf(ds, i) \in Nat
  BY CommitUnits
<1>11. /\ Quantity[i] * (1 + before(i)) \in Nat /\ Quantity[i] * (1 + after(i)) \in Nat
       /\ Quantity[i] * (1 + before(i)) =< Quantity[i] * (1 + after(i))
       /\ after(i) = before(i) + 1 =>
             Quantity[i] * (1 + after(i)) = Quantity[i] * (1 + before(i)) + Quantity[i]
  <2> HIDE DEF before, after
  <2> QED  BY <1>5, <1>8, Bound
<1>12. CASE k.at = "close" \/ SubOf[i] # k.sub
  <2>1. UnitsOf(ds, i) =< 0
    <3>1. \A r \in ds : r.item # i
      BY <1>2, <1>3, <1>12
    <3> HIDE DEF ds
    <3>2. QED  BY <1>4, <3>1, UnitsOfOne
  <2> HIDE DEF before, after, ds
  <2>2. RefundedUnits(i)' = RefundedUnits(i)
    BY <1>10, <2>1
  <2>3. QED  BY <1>9, <1>10, <1>11, <2>2
<1>13. CASE k.at = "decide" /\ SubOf[i] = k.sub
  <2>1. UnitsOf(ds, i) =< Quantity[i]
    <3>1. \A r \in ds : r.item = i => r.quantity =< Quantity[i]
      BY <1>3
    <3>2. \A r, q \in ds : r.item = i /\ q.item = i => r = q
      BY <1>2
    <3> HIDE DEF ds
    <3>3. QED  BY <1>4, <1>5, <3>1, <3>2, UnitsOfOne
  <2>2. DecidedFor(i)' = DecidedFor(i) \cup {k.dispute}
    <3>1. dispute'[k.dispute].sub = k.sub
      BY <1>2 DEF DisputesKept
    <3>2. <<k.dispute, "RESOLVED_FOR_CUSTOMER">> \in decisions'
      BY <1>2, <1>13
    <3>3. k.dispute \in DecidedFor(i)'
      BY <1>2, <1>13, <3>1, <3>2 DEF DecidedFor
    <3>4. ASSUME NEW e \in DecidedFor(i)', e # k.dispute PROVE e \in DecidedFor(i)
      <4>1. e \in Disputes /\ dispute'[e].sub = SubOf[i]
            /\ <<e, "RESOLVED_FOR_CUSTOMER">> \in decisions
        BY <3>4 DEF DecidedFor
      <4>2. dispute[e].status # "none"
        BY <4>1 DEF IInv, RowsAgree, Verdicts
      <4>3. dispute[e].sub = SubOf[i]
        BY <4>1, <4>2 DEF DisputesKept
      <4>4. QED  BY <4>1, <4>3 DEF DecidedFor
    <3>5. QED  BY <1>6, <3>3, <3>4
  <2>3. k.dispute \notin DecidedFor(i)
    BY <1>2, <1>13 DEF DecisionFree, DecidedFor
  <2>4. after(i) = before(i) + 1
    BY <1>8, <2>2, <2>3, FS_AddElement
  <2> HIDE DEF before, after, ds
  <2>5. QED  BY <1>5, <1>9, <1>10, <1>11, <2>1, <2>4
<1>14. QED  BY <1>12, <1>13

\* A refund the customer asked for stays within the line.
LEMMA SettleBounded ==
    ASSUME IInv, NEW c \in Calls, call[c].at = "settle",
           refunds' = refunds \cup call[c].drafts, UNCHANGED <<dispute, decisions>>
    PROVE  OverRefundBounded'
<1> DEFINE k == call[c]
           ds == k.drafts
           decided(i) == Cardinality(DecidedFor(i))
<1>1. /\ k.item \in ItemsOf(k.sub) /\ ds # {}
      /\ ds \subseteq {[key |-> k.key, item |-> k.item, quantity |-> k.quantity]}
      /\ RefundedUnits(k.item) + k.quantity =< Quantity[k.item]
  BY DEF IInv, CallInv, RefundInv, Refunding
<1>2. ds \in SUBSET RefundRow /\ k.quantity \in Nat
  BY RefundsFinite, CallFields DEF IInv
<1>3. \A r \in ds : r.item = k.item /\ r.quantity =< k.quantity
  BY <1>1, <1>2
<1>4. \A r, q \in ds : r = q
  BY <1>1
<1> SUFFICES ASSUME NEW i \in Items
             PROVE  RefundedUnits(i)' =< Quantity[i] * (1 + decided(i))
  BY DEF OverRefundBounded, DecidedFor
<1>5. Quantity[i] \in Nat /\ decided(i) \in Nat
  <2>1. \A d \in DecidedFor(i) : <<d, "RESOLVED_FOR_CUSTOMER">> \in decisions
    BY DEF DecidedFor
  <2>2. IsFiniteSet(decisions)
    BY DEF IInv, RowsAgree
  <2>3. IsFiniteSet(DecidedFor(i))
    BY <2>1, <2>2, DecidedFinite
  <2>4. QED  BY <2>3, FS_CardinalityType, DisputesAssumption
<1>6. RefundedUnits(i) =< Quantity[i] * (1 + decided(i))
  BY DEF IInv, RowsAgree, OverRefundBounded
<1>7. /\ RefundedUnits(i)' = RefundedUnits(i) + UnitsOf(ds, i)
      /\ RefundedUnits(i) \in Nat /\ UnitsOf(ds, i) \in Nat
  BY CommitUnits
<1> HIDE DEF ds, decided
<1>8. Quantity[i] * (1 + decided(i)) \in Nat /\ Quantity[i] =< Quantity[i] * (1 + decided(i))
  BY <1>5, Bound
<1>9. CASE i = k.item
  <2>1. UnitsOf(ds, i) =< k.quantity
    BY <1>2, <1>3, <1>4, UnitsOfOne
  <2>2. RefundedUnits(i) + k.quantity =< Quantity[i]
    BY <1>1, <1>9
  <2>3. QED  BY <1>2, <1>5, <1>7, <1>8, <2>1, <2>2
<1>10. CASE i # k.item
  <2>1. UnitsOf(ds, i) =< 0
    BY <1>2, <1>3, <1>4, <1>10, UnitsOfOne
  <2>2. QED  BY <1>6, <1>7, <1>8, <2>1
<1>11. QED  BY <1>9, <1>10

\* A commit ends its transaction and leaves the others as they were.
LEMMA CommitCalls ==
    ASSUME IInv, NEW c \in Calls, call[c].at \in {"decide", "close", "settle"},
           refunds' = refunds \cup call[c].drafts, DisputesKept,
           call' = [call EXCEPT ![c] = Idle]
    PROVE  /\ call' \in [Calls -> CallRecord]
           /\ \A o \in Calls : CallInv(o)' /\ Fresh(call[o])'
           /\ \A p \in Calls : \A o \in Calls \ {p} :
                  Compatible(call[p], call[o])' /\ Apart(call[p], call[o])'
<1>1. call \in [Calls -> CallRecord]
  BY DEF IInv, TypeOK
<1>2. call'[c] = Idle /\ \A o \in Calls \ {c} : call'[o] = call[o]
  BY <1>1
<1>3. CallInv(c)' /\ Fresh(call[c])'
  BY <1>2, EmptyInv
<1>4. \A o \in Calls \ {c} : CallInv(o)' /\ Fresh(call[o])'
  BY <1>2, OthersAfterCommit
<1>5. \A p \in Calls : \A o \in Calls \ {p} :
          Compatible(call[p], call[o])' /\ Apart(call[p], call[o])'
  BY <1>2, IdlePairs
<1>6. call' \in [Calls -> CallRecord]
  BY <1>1, IdleType
<1>7. QED  BY <1>3, <1>4, <1>5, <1>6

\* The columns stay numbers when totals are added to them or taken away.
LEMMA CommitRefunded ==
    ASSUME IInv, NEW c \in Calls, call[c].at \in {"decide", "close", "settle"},
           refunded' = [refunded EXCEPT ![call[c].sub] = AddToRefunded(c)]
    PROVE  refunded' \in [SubOrders -> Int]
<1>1. TotalOf(call[c].drafts) \in Nat
  BY RefundsFinite, TotalNat
<1>2. refunded \in [SubOrders -> Int] /\ call[c].sub \in SubOrders
  BY DEF IInv, TypeOK, CallInv, RowsInv
<1>3. AddToRefunded(c) \in Int
  BY <1>1, <1>2 DEF AddToRefunded
<1>4. QED  BY <1>2, <1>3

\* The decision commits its refunds, the payment's status and the verdict.
LEMMA DecideStep == ASSUME IInv, NEW c \in Calls, Decide(c) PROVE IInv'
<1> DEFINE k == call[c]
<1>1. /\ k.at \in {"decide", "close"} /\ DecisionFree(c)
      /\ dispute' = [dispute EXCEPT ![k.dispute].status = k.verdict]
      /\ decisions' = decisions \cup {<<k.dispute, k.verdict>>}
      /\ refunds' = refunds \cup k.drafts
      /\ refunded' = [refunded EXCEPT ![k.sub] = AddToRefunded(c)]
      /\ payment' = IF Paying(k) THEN PaymentAfter(k.sum) ELSE payment
      /\ call' = [call EXCEPT ![c] = Idle]
      /\ UNCHANGED <<status, kept, begun>>
  BY DEF Decide, Return, Continue
<1>2. board' = [board EXCEPT ![k.by] = {d \in Disputes : dispute'[d].status = "OPEN"}]
  BY DEF Decide, OpenDisputes
<1>3. /\ k.dispute \in Disputes /\ k.verdict \in Verdicts
      /\ \A r \in k.drafts : r.key = <<k.dispute, r.item>>
  BY <1>1 DEF IInv, CallInv, ResolveInv, Resolving
<1>4. TypeOK
  BY DEF IInv
<1>5. /\ dispute' \in [Disputes -> [sub : SubOrders \cup {None},
                                    status : {"none", "OPEN"} \cup Verdicts]]
      /\ dispute'[k.dispute].status = k.verdict /\ k.verdict # "none"
      /\ \A e \in Disputes : dispute'[e].sub = dispute[e].sub
      /\ \A e \in Disputes \ {k.dispute} : dispute'[e] = dispute[e]
  BY <1>1, <1>3, <1>4 DEF TypeOK, Verdicts
<1>6. DisputesKept
  BY <1>5 DEF DisputesKept
<1>7. ColumnsFollowRefunds'
  <2>1. k.drafts \in SUBSET RefundRow
    BY RefundsFinite
  <2>2. \A r \in k.drafts : ByDispute(r)
    <3>1. ASSUME NEW r \in k.drafts PROVE ~(r.key \in Keys)
      <4>1. r.item \in Items
        BY <2>1 DEF RefundRow
      <4>2. r.key \in Disputes \X Items
        BY <1>3, <4>1
      <4>3. Keys \cap (Disputes \X Items) = {}
        BY DisputesAssumption
      <4>4. QED  BY <4>2, <4>3, Zenon
    <3>2. QED  BY <3>1 DEF ByDispute
  <2>3. QED  BY <1>1, <2>2, CommitColumns
<1>8. PaymentFollowsRefunds' /\ payment' \in PaymentStatus
  <2>1. payment' = IF k.at = "close" THEN payment ELSE PaymentAfter(k.sum)
    BY <1>1 DEF Paying
  <2>2. QED  BY <1>1, <2>1, CommitPayment
<1>9. OverRefundBounded' /\ IsFiniteSet(decisions')
  BY <1>1, <1>6, DecideBounded
<1>10. refunds' \in SUBSET RefundRow /\ IsFiniteSet(refunds')
  BY <1>1, CommitRefunds
<1>11. refunded' \in [SubOrders -> Int]
  BY <1>1, CommitRefunded
<1>12. RowsAgree'
  <2>1. \A e \in Disputes : dispute'[e].status # "none" => dispute'[e].sub \in SubOrders
    <3>1. dispute[k.dispute].sub \in SubOrders
      BY <1>1, <1>3 DEF IInv, RowsAgree, CallInv, ResolveInv, Resolving
    <3>2. QED  BY <1>5, <3>1 DEF IInv, RowsAgree
  <2>2. \A e \in Disputes, v \in Verdicts : <<e, v>> \in decisions' => dispute'[e].status # "none"
    BY <1>1, <1>5 DEF IInv, RowsAgree
  <2>3. QED  BY <1>7, <1>8, <1>9, <1>10, <2>1, <2>2 DEF RowsAgree
<1>13. TypeOK'
  <2>1. board' \in [Admins -> SUBSET Disputes]
    BY <1>2, <1>4 DEF TypeOK
  <2>2. decisions' \subseteq Disputes \X Verdicts
    BY <1>1, <1>3, <1>4 DEF TypeOK
  <2>3. call' \in [Calls -> CallRecord]
    BY <1>1, <1>6, CommitCalls
  <2>4. QED  BY <1>1, <1>4, <1>5, <1>8, <1>10, <1>11, <2>1, <2>2, <2>3 DEF TypeOK
<1>14. QED  BY <1>1, <1>6, <1>12, <1>13, CommitCalls DEF IInv

\* The direct refund commits its row and the payment's status.
LEMMA RefundSettleStep == ASSUME IInv, NEW c \in Calls, RefundSettle(c) PROVE IInv'
<1> DEFINE k == call[c]
<1>1. /\ k.at = "settle"
      /\ refunds' = refunds \cup k.drafts
      /\ refunded' = [refunded EXCEPT ![k.sub] = AddToRefunded(c)]
      /\ kept' = [kept EXCEPT ![k.sub] = @ - TotalOf(k.drafts)]
      /\ payment' = PaymentAfter(k.sum)
      /\ call' = [call EXCEPT ![c] = Idle]
      /\ UNCHANGED <<status, dispute, decisions, board, begun>>
  BY DEF RefundSettle, Return, Continue
<1>2. TypeOK
  BY DEF IInv
<1>3. DisputesKept
  BY <1>1 DEF DisputesKept
<1>4. ColumnsFollowRefunds'
  <2>1. /\ k.key \in Keys
        /\ k.drafts \subseteq {[key |-> k.key, item |-> k.item, quantity |-> k.quantity]}
    BY <1>1 DEF IInv, CallInv, RefundInv, Refunding
  <2>2. \A r \in k.drafts : ~ByDispute(r)
    BY <2>1 DEF ByDispute
  <2>3. QED  BY <1>1, <2>2, CommitColumns
<1>5. PaymentFollowsRefunds' /\ payment' \in PaymentStatus
  BY <1>1, CommitPayment
<1>6. OverRefundBounded'
  BY <1>1, SettleBounded
<1>7. refunds' \in SUBSET RefundRow /\ IsFiniteSet(refunds')
  BY <1>1, CommitRefunds
<1>8. refunded' \in [SubOrders -> Int]
  BY <1>1, CommitRefunded
<1>9. kept' \in [SubOrders -> Int]
  <2>1. TotalOf(k.drafts) \in Nat
    BY RefundsFinite, TotalNat
  <2>2. kept \in [SubOrders -> Int]
    BY <1>2 DEF TypeOK
  <2>3. kept' = [kept EXCEPT ![k.sub] = @ - TotalOf(k.drafts)]
    BY <1>1
  <2>4. k.sub \in SubOrders
    BY <1>1, CommitRefunds
  <2>5. kept[k.sub] - TotalOf(k.drafts) \in Int
    BY <2>1, <2>2, <2>4
  <2> DEFINE rest == kept[k.sub] - TotalOf(k.drafts)
  <2>6. kept' = [kept EXCEPT ![k.sub] = rest]
    BY <2>3
  <2> HIDE DEF rest
  <2>7. rest \in Int
    BY <2>5 DEF rest
  <2>8. QED  BY <2>2, <2>6, <2>7
<1>10. RowsAgree'
  BY <1>1, <1>4, <1>5, <1>6, <1>7 DEF IInv, RowsAgree
<1>11. TypeOK'
  <2>1. call' \in [Calls -> CallRecord]
    BY <1>1, <1>3, CommitCalls
  <2>2. QED  BY <1>1, <1>2, <1>5, <1>7, <1>8, <1>9, <2>1 DEF TypeOK
<1>12. QED  BY <1>1, <1>3, <1>10, <1>11, CommitCalls DEF IInv

-----------------------------------------------------------------------------
(* The invariant *)

\* A step that changes neither the rows refunds depend on nor a transaction.
LEMMA QuietStep ==
    ASSUME IInv, status' \in [SubOrders -> {"SHIPPED", "COMPLETED"}],
           board' \in [Admins -> SUBSET Disputes],
           UNCHANGED <<dispute, decisions, refunds, refunded, kept, payment, call, begun>>
    PROVE  IInv'
<1>1. TypeOK'
  BY DEF IInv, TypeOK
<1>2. RowsAgree'
  BY DEF IInv, RowsAgree, ColumnsFollowRefunds, OverRefundBounded, DecidedFor,
         PaymentFollowsRefunds, RefundedUnits, RefundsOf
<1>3. \A o \in Calls : CallInv(o)' /\ Fresh(call[o])'
  BY OthersKeep DEF IInv, DisputesKept
<1>4. \A p \in Calls : \A o \in Calls \ {p} :
          Compatible(call[p], call[o])' /\ Apart(call[p], call[o])'
  BY DEF IInv, Compatible, Apart, Paying, Owning
<1>5. QED  BY <1>1, <1>2, <1>3, <1>4 DEF IInv

\* A paid order with no dispute and no refund.
LEMMA InitInv == ASSUME Init PROVE IInv
<1>1. TypeOK
  <2>1. \A s \in SubOrders : Subtotal(s) \in Int
    <3>1. ASSUME NEW s \in SubOrders PROVE Subtotal(s) \in Int
      <4> DEFINE is == ItemsOf(s)
      <4>1. IsFiniteSet(is) /\ \A i \in is : Cost[i] \in Nat
        BY Values, DisputesAssumption, FS_Subset DEF ItemsOf
      <4>2. SumFunctionOnSet(Cost, is) \in Nat
        <5> HIDE DEF is
        <5> QED  BY <4>1, SumNat
      <4>3. QED  BY <4>2 DEF Subtotal
    <3>2. QED  BY <3>1
  <2>2. call \in [Calls -> CallRecord]
    BY IdleType DEF Init
  <2>3. begun \in 0..MaxCalls /\ payment \in PaymentStatus
    BY DisputesAssumption DEF Init, PaymentStatus, Refundable
  <2>4. QED  BY <2>1, <2>2, <2>3 DEF Init, TypeOK
<1>2. RowsAgree
  <2>1. IsFiniteSet({}) /\ TotalOf({}) = 0
    BY FS_EmptySet, TotalEmpty
  <2>2. ColumnsFollowRefunds
    <3>1. ASSUME NEW s \in SubOrders
          PROVE  /\ RefundsOf(s) = {} /\ {r \in RefundsOf(s) : ~ByDispute(r)} = {}
                 /\ Subtotal(s) \in Int /\ kept[s] = Subtotal(s) /\ refunded[s] = 0
      BY <1>1 DEF Init, RefundsOf, TypeOK
    <3>2. QED  BY <2>1, <3>1 DEF ColumnsFollowRefunds
  <2>3. OverRefundBounded
    <3> SUFFICES ASSUME NEW i \in Items
                 PROVE  RefundedUnits(i) =< Quantity[i] * (1 + Cardinality(DecidedFor(i)))
      BY DEF OverRefundBounded
    <3>1. RefundedUnits(i) = 0
      <4>1. {r \in refunds : r.item = i} = {}
        BY DEF Init
      <4>2. QED  BY <4>1, SumEmpty DEF RefundedUnits, UnitsOf
    <3>2. DecidedFor(i) = {}
      BY DEF Init, DecidedFor
    <3>3. Cardinality(DecidedFor(i)) = 0 /\ Quantity[i] \in Nat
      BY <3>2, FS_EmptySet, DisputesAssumption
    <3>4. Quantity[i] * (1 + 0) \in Nat
      BY <3>3, Bound
    <3>5. QED  BY <3>1, <3>3, <3>4
  <2>4. PaymentFollowsRefunds
    <3>1. {SubOf[r.item] : r \in refunds} = {}
      BY DEF Init
    <3>2. Cardinality({SubOf[r.item] : r \in refunds}) = 0
      BY <3>1, FS_EmptySet
    <3>3. QED  BY <3>2 DEF Init, PaymentFollowsRefunds
  <2>5. QED  BY <2>1, <2>2, <2>3, <2>4 DEF Init, RowsAgree
<1>3. \A c \in Calls : CallInv(c) /\ Fresh(call[c])
  <2>1. \A c \in Calls : call[c] = Idle
    BY DEF Init
  <2>2. Idle.at = "idle" /\ Idle.drafts = {}
    BY DEF Idle
  <2> HIDE DEF Idle
  <2>3. ResolveInv(Idle) /\ RefundInv(Idle) /\ SumInv(Idle) /\ Fresh(Idle)
    BY <2>2 DEF ResolveInv, RefundInv, SumInv, Resolving, Refunding, Summed, Fresh
  <2>4. RowsInv(Idle)
    BY <2>2, FS_EmptySet DEF RowsInv, Touching, Paying
  <2>5. QED  BY <2>1, <2>3, <2>4 DEF CallInv
<1>4. \A c \in Calls : \A o \in Calls \ {c} :
          Compatible(call[c], call[o]) /\ Apart(call[c], call[o])
  BY DEF Init, Idle, Compatible, Apart, Paying, Owning
<1>5. QED  BY <1>1, <1>2, <1>3, <1>4 DEF IInv

\* Every step preserves the invariant.
LEMMA StepInv == ASSUME IInv, Next PROVE IInv'
<1>1. ASSUME NEW c \in Calls, Open(c) PROVE IInv'
  BY <1>1, OpenLookStep, OpenInsertStep DEF Open
<1>2. ASSUME NEW c \in Calls, Resolve(c) PROVE IInv'
  <2>1. CASE Sum(c)
    BY <2>1, SumRefundsStep DEF Sum
  <2>2. QED  BY <1>2, <2>1, ResolveReadStep, MeasureStep, DraftStep, IncrementStep, DecideStep
             DEF Resolve
<1>3. ASSUME NEW c \in Calls, Refund(c) PROVE IInv'
  <2>1. CASE RefundSum(c)
    BY <2>1, SumRefundsStep DEF RefundSum
  <2>2. QED  BY <1>3, <2>1, RefundReadStep, RefundLockStep, RefundCheckStep, RefundSettleStep
             DEF Refund
<1>4. ASSUME NEW c \in Calls, Fail(c) PROVE IInv'
  BY <1>4, AbortStep DEF Fail
<1>5. ASSUME NEW s \in SubOrders, Complete(s) PROVE IInv'
  <2>1. /\ status' \in [SubOrders -> {"SHIPPED", "COMPLETED"}]
        /\ board' \in [Admins -> SUBSET Disputes]
    BY <1>5 DEF Complete, IInv, TypeOK
  <2>2. QED  BY <1>5, <2>1, QuietStep DEF Complete
<1>6. ASSUME NEW a \in Admins, Load(a) PROVE IInv'
  <2>1. /\ status' \in [SubOrders -> {"SHIPPED", "COMPLETED"}]
        /\ board' \in [Admins -> SUBSET Disputes]
    BY <1>6 DEF Load, OpenDisputes, rows, IInv, TypeOK
  <2>2. QED  BY <1>6, <2>1, QuietStep DEF Load, rows
<1>7. QED  BY <1>1, <1>2, <1>3, <1>4, <1>5, <1>6 DEF Next

\* Whatever overlaps, a transaction's reads and locks keep the rows of refunds, the
\* columns of sub-orders, the status of the payment and the decisions together.
THEOREM Invariant == Spec => []IInv
<1>1. ASSUME IInv, UNCHANGED vars PROVE IInv'
  <2>1. UNCHANGED <<dispute, decisions, refunds, refunded, kept, payment, call, begun>>
    BY <1>1 DEF vars
  <2>2. /\ status' \in [SubOrders -> {"SHIPPED", "COMPLETED"}]
        /\ board' \in [Admins -> SUBSET Disputes]
    BY <1>1 DEF vars, IInv, TypeOK
  <2>3. QED  BY <1>1, <2>1, <2>2, QuietStep
<1>2. QED  BY InitInv, StepInv, <1>1, PTL DEF Spec

\* The state of a dispute, of a refund and of the payment is of its type.
THEOREM TypeCorrect == Spec => []TypeOK
BY Invariant, PTL DEF IInv

\* refundedAmount is the sum of the refunds and what platform and seller keep is the
\* rest of the subtotal, refunds of disputes aside.
THEOREM ColumnsCorrect == Spec => []ColumnsFollowRefunds
BY Invariant, PTL DEF IInv, RowsAgree

\* Units of an item repaid beyond the line are owed to decisions of disputes.
THEOREM OverRefunds == Spec => []OverRefundBounded
BY Invariant, PTL DEF IInv, RowsAgree

\* A payment is called REFUNDED only when all of it was repaid.
THEOREM PaymentStatusCorrect == Spec => []PaymentFollowsRefunds
BY Invariant, PTL DEF IInv, RowsAgree
=============================================================================
