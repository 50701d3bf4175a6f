---------------------------- MODULE OrderProofs ----------------------------
(***************************************************************************)
(* Proofs about OrderPayment and FigureOrders, for every number of orders, *)
(* models, vouchers and sessions.                                          *)
(*                                                                         *)
(* The charge argument: an order bound to a voucher is the order PayPal    *)
(* has for it (VoucherInv); a confirmation under way has set               *)
(* capture_started, after which nothing unbinds the voucher, edits the     *)
(* basket or cancels the order (AttemptInv); so a captured voucher is the  *)
(* one its order is bound to (ChargeInv), and cannot have a rival.  It is  *)
(* carried through review and refund (FigureInv).  What is added to the    *)
(* price comes with an item, and an item that goes takes its price along,  *)
(* so the price is never above the basket's (PriceInv).                    *)
(*                                                                         *)
(* The stock argument: a hold outlives capture_started and is consumed     *)
(* with it, and only unpaid or paid orders have units (HoldInv). A step    *)
(* moves units between the shelf and one order (Moves), so that shelf and  *)
(* orders add up to what there was (StockConserved).                       *)
(*                                                                         *)
(* The decision argument: money goes back for rejected orders only, as     *)
(* long as no confirmation records a payment for an order that is already  *)
(* paid (RejectionInv); with one session none does (OneAttempt).           *)
(*                                                                         *)
(* The refinement: each step of the code moves one order of the abstract   *)
(* checkout from one phase to the next, or no order at all.  Legacy orders *)
(* may start out charged, so they are excluded from it.                    *)
(***************************************************************************)
EXTENDS FigureOrders, SumTheorems, TLAPS

\* All that reading an item, or giving up its deletion, leaves alone.
quietVars == <<orderVars, holdVars, outcomeVars, payPalVars, attempts, expiring>>

\* A bound voucher exists at PayPal and is bound to the same order there.
VoucherInv ==
    \A o \in Orders : paypal_order_id[o] # NoVoucher =>
        /\ voucher_status[paypal_order_id[o]] # "unused"
        /\ voucher_order[paypal_order_id[o]] = o

\* A confirmation under way pins its order.
AttemptInv ==
    \A a \in attempts :
        /\ capture_started[a.order]
        /\ status[a.order] \in {"pending_payment"} \cup PaidFor
        /\ paypal_order_id[a.order] = a.voucher
        /\ Matches(a.voucher, a.order)
        /\ a.seen = "COMPLETED" => Captured(a.voucher)

\* A captured voucher is the one its order is bound to.
ChargeInv ==
    \A v \in Vouchers : Captured(v) /\ voucher_order[v] \notin Legacy =>
        /\ voucher_order[v] \in Orders
        /\ capture_started[voucher_order[v]]
        /\ paypal_order_id[voucher_order[v]] = v
        /\ voucher_price[v] = price[voucher_order[v]]
        /\ status[voucher_order[v]] \in {"pending_payment"} \cup PaidFor

\* No order costs more than its basket.
PriceInv == \A o \in Orders : price[o] <= BasketPrice(items[o])

PayInv ==
    /\ TypeOK
    /\ PriceInv
    /\ VoucherInv
    /\ AttemptInv
    /\ ChargeInv
    /\ PaidMeansCharged

\* Orders with units of stock, and the hold that a started capture keeps.
HoldInv ==
    \A o \in Orders :
        /\ status[o] \notin {"refund_pending", "refunded"}
        /\ inventory_consumed[o] => status[o] \in Settled
        /\ inventory_reserved[o] => status[o] = "pending_payment"
        /\ o \in PrintOrders \ Legacy /\ capture_started[o] /\ status[o] = "pending_payment" =>
               inventory_reserved[o]
        /\ o \in Subscriptions => ~inventory_reserved[o]
        /\ status[o] = "absent" => ~capture_started[o]

StockInv == HoldInv /\ PaidOrderHasStock /\ ProGrantedOncePerPayment

-----------------------------------------------------------------------------

LEMMA EmptyIsBasket == Empty \in Basket /\ \A m \in Models, n \in Nat : [Empty EXCEPT ![m] = n] \in Basket
  BY DEF Empty, Basket

\* The price of a basket changes with one of its numbers.
LEMMA BasketPriceChanges ==
  ASSUME NEW b \in Basket, NEW m \in Models, NEW n \in Nat
  PROVE  /\ BasketPrice(b) \in Nat
         /\ BasketPrice([b EXCEPT ![m] = n]) = BasketPrice(b) - b[m] * Price[m] + n * Price[m]
<1> DEFINE f == [k \in Models |-> b[k] * Price[k]]
           g == [k \in Models |-> [b EXCEPT ![m] = n][k] * Price[k]]
<1>1. IsFiniteSet(Models) /\ Price \in [Models -> Nat] /\ b \in [Models -> Nat]
  BY PriceAssumption DEF Basket
<1>2. /\ BasketPrice(b) = SumFunctionOnSet(f, Models)
      /\ BasketPrice([b EXCEPT ![m] = n]) = SumFunctionOnSet(g, Models)
  BY DEF BasketPrice, SumFunction
<1>3. \A i, j \in Nat : i * j \in Nat
  OBVIOUS
<1>4. \A k \in Models : f[k] \in Nat /\ g[k] \in Nat
  BY <1>1, <1>3
<1>5. \A k \in Models \ {m} : g[k] = f[k]
  BY <1>1
<1>6. f[m] = b[m] * Price[m] /\ g[m] = n * Price[m]
  BY <1>1
<1> HIDE DEF f, g
<1>7. SumFunctionOnSet(f, Models) \in Nat
  BY <1>1, <1>4, SumIsNatural
<1>9. \A k \in Models : f[k] \in Int /\ g[k] \in Int
  BY <1>4
<1>8. SumFunctionOnSet(g, Models) = SumFunctionOnSet(f, Models) - f[m] + g[m]
  BY <1>1, <1>5, <1>9, SumChanges
<1> QED BY <1>2, <1>6, <1>7, <1>8

LEMMA BasketPriceNatural == \A b \in Basket : BasketPrice(b) \in Nat
<1> SUFFICES ASSUME NEW b \in Basket PROVE BasketPrice(b) \in Nat
  OBVIOUS
<1> DEFINE f == [k \in Models |-> b[k] * Price[k]]
<1>1. \A i, j \in Nat : i * j \in Nat
  OBVIOUS
<1>2. \A k \in Models : f[k] \in Nat
  BY <1>1, PriceAssumption DEF Basket
<1>3. BasketPrice(b) = SumFunctionOnSet(f, Models)
  BY DEF BasketPrice, SumFunction
<1> HIDE DEF f
<1> QED BY <1>2, <1>3, SumIsNatural, PriceAssumption

LEMMA EmptyCostsNothing ==
  ASSUME NEW m \in Models, NEW n \in Nat
  PROVE  BasketPrice(Empty) = 0 /\ BasketPrice([Empty EXCEPT ![m] = n]) = n * Price[m]
<1> DEFINE f == [k \in Models |-> Empty[k] * Price[k]]
<1>1. \A k \in Models : f[k] = 0
  BY PriceAssumption DEF Empty
<1>2. BasketPrice(Empty) = SumFunctionOnSet(f, Models)
  BY DEF BasketPrice, SumFunction
<1> HIDE DEF f
<1>3. BasketPrice(Empty) = 0
  BY <1>1, <1>2, SumZero, PriceAssumption
<1>4. Empty[m] = 0 /\ Price[m] \in Nat
  BY PriceAssumption DEF Empty
<1>5. n * Price[m] \in Nat /\ 0 * Price[m] = 0
  BY <1>4
<1> QED BY <1>3, <1>4, <1>5, BasketPriceChanges, EmptyIsBasket

\* What a unit costs, when it comes and when it goes.
LEMMA UnitPrice ==
  ASSUME NEW b \in Basket, NEW m \in Models
  PROVE  /\ BasketPrice([b EXCEPT ![m] = @ + 1]) = BasketPrice(b) + Price[m]
         /\ b[m] > 0 => BasketPrice([b EXCEPT ![m] = @ - 1]) = BasketPrice(b) - Price[m]
<1>1. Price[m] \in Nat /\ b[m] \in Nat /\ BasketPrice(b) \in Nat
  BY PriceAssumption, BasketPriceChanges DEF Basket
<1>2. (b[m] + 1) * Price[m] = b[m] * Price[m] + Price[m] /\ b[m] * Price[m] \in Nat
  BY <1>1
<1>3. BasketPrice([b EXCEPT ![m] = b[m] + 1]) = BasketPrice(b) + Price[m]
  BY <1>1, <1>2, BasketPriceChanges
<1>4. ASSUME b[m] > 0
      PROVE  BasketPrice([b EXCEPT ![m] = b[m] - 1]) = BasketPrice(b) - Price[m]
  <2>1. b[m] - 1 \in Nat /\ (b[m] - 1) * Price[m] = b[m] * Price[m] - Price[m]
    BY <1>1, <1>4
  <2> QED BY <1>1, <1>2, <2>1, BasketPriceChanges
<1> QED BY <1>3, <1>4

\* The initial states: only Legacy orders have vouchers, each its own.
LEMMA InitPayInv == Init => PayInv
<1> SUFFICES ASSUME Init PROVE PayInv
  OBVIOUS
<1> USE KindAssumption, StockAssumption, VoucherAssumption
<1>1. ASSUME NEW v \in Vouchers, \E o \in Legacy : paypal_order_id[o] = v
      PROVE  voucher_order[v] \in Legacy /\ paypal_order_id[voucher_order[v]] = v
  <2>1. voucher_order[v] = CHOOSE o \in Legacy : paypal_order_id[o] = v
    BY <1>1 DEF Init
  <2> QED BY <1>1, <2>1
<1>2. ASSUME NEW v \in Vouchers, ~ \E o \in Legacy : paypal_order_id[o] = v
      PROVE  voucher_order[v] = NoVoucher
  BY <1>2 DEF Init
<1>3. voucher_order \in [Vouchers -> Orders \cup {NoVoucher}]
  BY <1>1, <1>2 DEF Init
<1>4. items \in [Orders -> Basket]
  <2>1. {Empty} \cup {[Empty EXCEPT ![m] = 1] : m \in Models} \subseteq Basket
    BY EmptyIsBasket
  <2> QED BY <2>1 DEF Init
<1>5. \A o \in Orders : price[o] = BasketPrice(items[o]) /\ price[o] \in Nat
  <2>1. \A o \in Orders : BasketPrice(items[o]) \in Nat
    <3> SUFFICES ASSUME NEW o \in Orders PROVE BasketPrice(items[o]) \in Nat
      OBVIOUS
    <3> QED BY <1>4, BasketPriceNatural
  <2> QED BY <2>1 DEF Init
<1>9. price \in [Orders -> Nat] /\ voucher_price \in [Vouchers -> Nat]
  <2>1. price = [o \in Orders |-> price[o]] /\ voucher_price = [v \in Vouchers |-> voucher_price[v]]
    BY DEF Init
  <2>2. ASSUME NEW v \in Vouchers PROVE voucher_price[v] \in Nat
    BY <1>3, <1>5 DEF Init
  <2> QED BY <1>5, <2>1, <2>2
<1>10. PriceInv
  BY <1>5 DEF PriceInv
<1>6. TypeOK
  BY <1>3, <1>4, <1>9 DEF Init, TypeOK, Statuses
<1>7. VoucherInv
  <2> SUFFICES ASSUME NEW o \in Orders, paypal_order_id[o] # NoVoucher
               PROVE  /\ voucher_status[paypal_order_id[o]] # "unused"
                      /\ voucher_order[paypal_order_id[o]] = o
    BY DEF VoucherInv
  <2>1. o \in Legacy /\ paypal_order_id[o] \in Vouchers
    BY DEF Init
  <2>2. voucher_order[paypal_order_id[o]] = o
    BY <1>1, <2>1 DEF Init
  <2> QED BY <2>1, <2>2 DEF Init
<1>8. ChargeInv
  BY <1>1, <1>2 DEF Init, ChargeInv, Captured
<1> QED BY <1>6, <1>7, <1>8, <1>10 DEF Init, PayInv, AttemptInv, PaidMeansCharged, PaidFor, Settled

-----------------------------------------------------------------------------
(* Type correctness, one step per action.                                    *)

LEMMA ReserveType ==
  ASSUME TypeOK, NEW o \in Orders, NeedsHold(o) => InStock(o), Reserve(o)
  PROVE  /\ stock' \in [Models -> Nat]
         /\ inventory_reserved' \in [Orders -> BOOLEAN]
<1>1. CASE NeedsHold(o)
  <2>1. \A m \in Models : stock[m] - items[o][m] \in Nat
    BY <1>1 DEF TypeOK, Basket, InStock
  <2>2. stock' = [m \in Models |-> stock[m] - items[o][m]]
    BY <1>1 DEF Reserve
  <2>3. inventory_reserved' \in [Orders -> BOOLEAN]
    BY <1>1 DEF TypeOK, Reserve
  <2> QED BY <2>1, <2>2, <2>3
<1>2. CASE ~NeedsHold(o)
  BY <1>2 DEF TypeOK, Reserve
<1> QED BY <1>1, <1>2

LEMMA HoldForCheckoutType ==
  ASSUME TypeOK, NEW o \in Orders, Checkout(o), HoldForCheckout(o)
  PROVE  /\ stock' \in [Models -> Nat]
         /\ inventory_reserved' \in [Orders -> BOOLEAN]
         /\ inventory_reserved_until' \in [Orders -> {"none", "running", "over"}]
<1>1. Reserve(o) /\ (NeedsHold(o) => InStock(o))
  BY DEF Checkout, HoldForCheckout
<1>2. inventory_reserved_until' \in [Orders -> {"none", "running", "over"}]
  BY DEF TypeOK, HoldForCheckout
<1> QED BY <1>1, <1>2, ReserveType

LEMMA ReleaseType ==
  ASSUME TypeOK, NEW o \in Orders, Release(o)
  PROVE  /\ stock' \in [Models -> Nat]
         /\ inventory_reserved' \in [Orders -> BOOLEAN]
         /\ inventory_reserved_until' \in [Orders -> {"none", "running", "over"}]
         /\ inventory_consumed' \in [Orders -> BOOLEAN]
<1>1. \A m \in Models : stock[m] + items[o][m] \in Nat
  BY DEF TypeOK, Basket
<1> QED BY <1>1 DEF TypeOK, Release

LEMMA FinishType ==
  ASSUME TypeOK, NEW d, NEW x \in deletions, NEW gone \in BOOLEAN, Finish(d, x, gone)
  PROVE  deletions' \subseteq Deletion
<1>1. [x EXCEPT !.readers = @ \ {d}, !.gone = gone] \in Deletion
  BY DEF TypeOK, Deletion
<1> QED BY <1>1 DEF TypeOK, Finish

LEMMA ReadItemType ==
  ASSUME TypeOK, NEW d \in Deleters, NEW o \in Orders, NEW m \in Models, ReadItem(d, o, m)
  PROVE  deletions' \subseteq Deletion
<1>1. [order |-> o, model |-> m, readers |-> {d}, gone |-> FALSE] \in Deletion
  BY DEF Deletion
<1>2. \A x \in deletions : [x EXCEPT !.readers = @ \cup {d}] \in Deletion
  BY DEF TypeOK, Deletion
<1>3. deletions \subseteq Deletion
  BY DEF TypeOK
<1> QED BY <1>1, <1>2, <1>3 DEF ReadItem

LEMMA TypeOKStep == TypeOK /\ [Next]_vars => TypeOK'
<1> SUFFICES ASSUME TypeOK, [Next]_vars PROVE TypeOK'
  OBVIOUS
<1> USE VoucherAssumption, StockAssumption DEF TypeOK, Statuses, Settled, Basket,
        orderVars, holdVars, outcomeVars, payPalVars, jobVars
<1>1. ASSUME NEW o \in Orders, NEW m \in Models, NEW n \in 1..ItemLimit, CreateOrder(o, m, n)
      PROVE  TypeOK'
  <2>1. [Empty EXCEPT ![m] = n] \in Basket
    BY EmptyIsBasket
  <2>2. n * Price[m] \in Nat
    BY PriceAssumption
  <2> QED BY <1>1, <2>1, <2>2 DEF CreateOrder
<1>2. ASSUME NEW o \in Orders, NEW m \in Models, MergeIntoOrder(o, m)
      PROVE  TypeOK'
  <2>1. price[o] + Price[m] \in Nat
    BY PriceAssumption
  <2> QED BY <1>2, <2>1, ReleaseType DEF MergeIntoOrder
<1>3. ASSUME NEW d \in Deleters, NEW x \in deletions, DeleteItem(d, x)
      PROVE  TypeOK'
  <2>1. x.order \in Orders /\ x.model \in Models
    BY DEF Deletion
  <2>2. Deduct(price[x.order], x.model) \in Nat
    BY <2>1, PriceAssumption DEF Deduct
  <2>3. deletions' \subseteq Deletion
    BY <1>3, FinishType DEF DeleteItem
  <2>4. items' \in [Orders -> [Models -> Nat]]
    BY <1>3, <2>1 DEF DeleteItem, IsRow
  <2> QED BY <1>3, <2>1, <2>2, <2>3, <2>4, ReleaseType DEF DeleteItem
<1>4. ASSUME NEW o \in Orders, CancelOrder(o) PROVE TypeOK'
  BY <1>4, ReleaseType DEF CancelOrder
<1>5. ASSUME NEW o \in Orders, DeleteOrder(o) PROVE TypeOK'
  BY <1>5 DEF DeleteOrder, Empty
<1>6. ASSUME NEW o \in Orders, ReuseVoucher(o) PROVE TypeOK'
  BY <1>6, HoldForCheckoutType DEF ReuseVoucher
<1>7. ASSUME NEW o \in Orders, NEW v \in Vouchers, NEW answered \in BOOLEAN, CreateVoucher(o, v,
    answered)
      PROVE  TypeOK'
  <2> HIDE DEF TypeOK
  <2>1. CASE answered
    <3>1. /\ stock' \in [Models -> Nat]
          /\ inventory_reserved' \in [Orders -> BOOLEAN]
          /\ inventory_reserved_until' \in [Orders -> {"none", "running", "over"}]
      BY <1>7, <2>1, HoldForCheckoutType DEF CreateVoucher
    <3>2. /\ paypal_order_id' \in [Orders -> Vouchers \cup {NoVoucher}]
          /\ voucher_status' \in [Vouchers -> {"unused", "CREATED", "APPROVED", "COMPLETED"}]
          /\ voucher_order' \in [Vouchers -> Orders \cup {NoVoucher}]
          /\ voucher_price' \in [Vouchers -> Nat]
          /\ voucher_locked' \in [Vouchers -> BOOLEAN]
      BY <1>7, <2>1 DEF CreateVoucher, TypeOK
    <3>3. UNCHANGED <<status, items, price, capture_started, address_snapshot, outcomeVars,
                      inventory_consumed, voucher_address, jobVars>>
      BY <1>7 DEF CreateVoucher
    <3> QED BY <3>1, <3>2, <3>3 DEF TypeOK
  <2>2. CASE ~answered
    BY <1>7, <2>2 DEF CreateVoucher, TypeOK
  <2> QED BY <2>1, <2>2
<1>8. ASSUME NEW v \in Vouchers, NEW address \in {"ok", "bad"}, BuyerApproves(v, address)
      PROVE  TypeOK'
  BY <1>8 DEF BuyerApproves
<1>9. CASE ExpireScan
  BY <1>9 DEF ExpireScan
<1>10. ASSUME NEW o \in Orders, HoldTimesOut(o) PROVE TypeOK'
  BY <1>10 DEF HoldTimesOut
<1>11. ASSUME NEW o \in Orders, ExpireOne(o) PROVE TypeOK'
  BY <1>11, ReleaseType DEF ExpireOne
<1>12. ASSUME NEW s \in Sessions, NEW o \in Orders, ConfirmBegin(s, o) PROVE TypeOK'
  <2>1. [session |-> s, order |-> o, voucher |-> paypal_order_id[o],
         seen |-> voucher_status[paypal_order_id[o]],
         backordered |-> NeedsHold(o) /\ ~InStock(o)] \in Attempt
    BY <1>12 DEF ConfirmBegin, StartCapture, Payable, Deliverable, Attempt
  <2>2. CASE NeedsHold(o) /\ ~InStock(o)
    BY <1>12, <2>1, <2>2 DEF ConfirmBegin, StartCapture, Payable, Deliverable
  <2>3. CASE NeedsHold(o) => InStock(o)
    <3>1. Reserve(o)
      BY <1>12, <2>3 DEF ConfirmBegin, StartCapture, Payable, Deliverable
    <3> QED BY <1>12, <2>1, <2>3, <3>1, ReserveType DEF ConfirmBegin, StartCapture, Payable,
        Deliverable
  <2> QED BY <2>2, <2>3
<1>13. ASSUME NEW a \in attempts, ConfirmNothingLeft(a) PROVE TypeOK'
  BY <1>13 DEF ConfirmNothingLeft
<1>14. ASSUME NEW a \in attempts, ConfirmRecord(a) PROVE TypeOK'
  BY <1>14 DEF ConfirmRecord, Capture, GoodsStatus, ActivateBenefits, Attempt
<1>15. ASSUME NEW a \in attempts, ConfirmAnswerLost(a) PROVE TypeOK'
  BY <1>15 DEF ConfirmAnswerLost, Capture, Attempt
<1>16. ASSUME NEW a \in attempts, ConfirmAbandoned(a) PROVE TypeOK'
  BY <1>16 DEF ConfirmAbandoned
<1>17. ASSUME UNCHANGED quietVars, deletions' \subseteq Deletion PROVE TypeOK'
  BY <1>17 DEF quietVars
<1>18. ASSUME NEW d \in Deleters, NEW o \in Orders, NEW m \in Models, ReadItem(d, o, m)
      PROVE  TypeOK'
  BY <1>17, <1>18, ReadItemType DEF ReadItem, quietVars
<1>19. ASSUME NEW d \in Deleters, NEW x \in deletions, DropDeletion(d, x) PROVE TypeOK'
  <2>1. x.gone \in BOOLEAN
    BY DEF Deletion
  <2> QED BY <1>17, <1>19, <2>1, FinishType DEF DropDeletion, quietVars
<1>20. CASE UNCHANGED vars
  BY <1>20 DEF vars
<1> HIDE DEF TypeOK
<1> QED
  BY <1>1, <1>2, <1>3, <1>4, <1>5, <1>6, <1>7, <1>8, <1>9, <1>10, <1>11, <1>12,
     <1>13, <1>14, <1>15, <1>16, <1>18, <1>19, <1>20
     DEF Next, CartStep, VoucherStep, ExpiryStep, ConfirmStep, DeletionStep

\* What is added to the price comes with an item, and an item that goes takes
\* its price along.
LEMMA PriceInvStep ==
  ASSUME TypeOK, PriceInv, [Next]_vars
  PROVE  PriceInv'
<1> USE DEF TypeOK, PriceInv, orderVars, holdVars, outcomeVars, payPalVars, jobVars
<1>1. \A m \in Models : Price[m] \in Nat
  BY PriceAssumption
<1>2. ASSUME NEW o \in Orders, NEW m \in Models, NEW n \in 1..ItemLimit, CreateOrder(o, m, n)
      PROVE  PriceInv'
  <2>1. n \in Nat /\ n * Price[m] \in Nat
    BY <1>1, StockAssumption
  <2>2. items'[o] = [Empty EXCEPT ![m] = n] /\ price'[o] = n * Price[m]
    BY <1>2 DEF CreateOrder
  <2>3. \A p \in Orders \ {o} : items'[p] = items[p] /\ price'[p] = price[p]
    BY <1>2 DEF CreateOrder
  <2> QED BY <2>1, <2>2, <2>3, EmptyCostsNothing
<1>3. ASSUME NEW o \in Orders, NEW m \in Models, MergeIntoOrder(o, m)
      PROVE  PriceInv'
  <2>1. items'[o] = [items[o] EXCEPT ![m] = @ + 1] /\ price'[o] = price[o] + Price[m]
    BY <1>3 DEF MergeIntoOrder
  <2>2. \A p \in Orders \ {o} : items'[p] = items[p] /\ price'[p] = price[p]
    BY <1>3 DEF MergeIntoOrder
  <2>3. BasketPrice(items[o]) \in Nat /\ items[o] \in Basket
    BY BasketPriceNatural
  <2>4. BasketPrice(items'[o]) = BasketPrice(items[o]) + Price[m]
    BY <2>1, <2>3, UnitPrice
  <2> QED BY <1>1, <2>1, <2>2, <2>3, <2>4
<1>4. ASSUME NEW d \in Deleters, NEW x \in deletions, DeleteItem(d, x)
      PROVE  PriceInv'
  <2> DEFINE o == x.order
             m == x.model
  <2>1. o \in Orders /\ m \in Models
    BY DEF Deletion
  <2>2. price'[o] = Deduct(price[o], m)
    BY <1>4, <2>1 DEF DeleteItem
  <2>3. \A p \in Orders \ {o} : items'[p] = items[p] /\ price'[p] = price[p]
    BY <1>4, <2>1 DEF DeleteItem
  <2>4. BasketPrice(items[o]) \in Nat /\ items[o] \in Basket
    BY <2>1, BasketPriceNatural
  <2>5. CASE IsRow(x)
    <3>1. items'[o] = [items[o] EXCEPT ![m] = @ - 1] /\ items[o][m] > 0
      BY <1>4, <2>1, <2>5 DEF DeleteItem, IsRow
    <3>2. BasketPrice(items'[o]) = BasketPrice(items[o]) - Price[m]
      BY <2>1, <2>4, <3>1, UnitPrice
    <3>3. items' \in [Orders -> Basket]
      BY <1>4, <2>1, <2>5 DEF DeleteItem, IsRow, Basket
    <3>4. BasketPrice(items'[o]) \in Nat
      BY <2>1, <3>3, BasketPriceNatural
    <3> QED BY <1>1, <2>1, <2>2, <2>3, <2>4, <3>2, <3>4 DEF Deduct
  <2>6. CASE ~IsRow(x)
    <3>1. items'[o] = items[o]
      BY <1>4, <2>6 DEF DeleteItem
    <3> QED BY <1>1, <2>1, <2>2, <2>3, <2>4, <3>1 DEF Deduct
  <2> QED BY <2>5, <2>6
<1>5. ASSUME NEW o \in Orders, DeleteOrder(o)
      PROVE  PriceInv'
  <2>1. items'[o] = Empty /\ price'[o] = 0
    BY <1>5 DEF DeleteOrder
  <2>2. \A p \in Orders \ {o} : items'[p] = items[p] /\ price'[p] = price[p]
    BY <1>5 DEF DeleteOrder
  <2>3. BasketPrice(Empty) \in Nat
    BY EmptyIsBasket, BasketPriceNatural
  <2> QED BY <2>1, <2>2, <2>3
<1>6. CASE UNCHANGED <<items, price>>
  BY <1>6
<1> HIDE DEF TypeOK, PriceInv
<1> QED
  BY <1>2, <1>3, <1>4, <1>5, <1>6
     DEF Next, CartStep, CancelOrder, VoucherStep, ReuseVoucher, CreateVoucher, BuyerApproves,
         ExpiryStep, ExpireScan, HoldTimesOut, ExpireOne, ConfirmStep, ConfirmBegin,
         ConfirmNothingLeft, ConfirmRecord, ConfirmAnswerLost, ConfirmAbandoned, DeletionStep,
         ReadItem, DropDeletion, vars

LEMMA VoucherInvStep ==
  ASSUME PayInv, TypeOK', [Next]_vars
  PROVE  VoucherInv'
<1> USE VoucherAssumption, KindAssumption DEF PayInv, VoucherInv, AttemptInv, TypeOK, Attempt,
    Captured, Matches, PaidFor, Settled, orderVars, holdVars, outcomeVars, payPalVars, jobVars
<1>1. ASSUME NEW o \in Orders, NEW m \in Models, NEW n \in 1..ItemLimit, CreateOrder(o, m, n)
      PROVE  VoucherInv'
  BY <1>1 DEF CreateOrder
<1>2. ASSUME NEW o \in Orders, NEW m \in Models, MergeIntoOrder(o, m)
      PROVE  VoucherInv'
  BY <1>2 DEF MergeIntoOrder, Release
<1>3. ASSUME NEW d \in Deleters, NEW x \in deletions, DeleteItem(d, x)
      PROVE  VoucherInv'
  BY <1>3 DEF DeleteItem, Deletion, Release
<1>4. ASSUME NEW o \in Orders, CancelOrder(o)
      PROVE  VoucherInv'
  BY <1>4 DEF CancelOrder, Release
<1>5. ASSUME NEW o \in Orders, DeleteOrder(o)
      PROVE  VoucherInv'
  BY <1>5 DEF DeleteOrder
<1>6. ASSUME NEW o \in Orders, ReuseVoucher(o)
      PROVE  VoucherInv'
  BY <1>6 DEF ReuseVoucher
<1>7. ASSUME NEW o \in Orders, NEW v \in Vouchers, NEW answered \in BOOLEAN, CreateVoucher(o, v,
    answered)
      PROVE  VoucherInv'
  BY <1>7 DEF CreateVoucher, Checkout
<1>8. ASSUME NEW v \in Vouchers, NEW address \in {"ok", "bad"}, BuyerApproves(v, address)
      PROVE  VoucherInv'
  BY <1>8 DEF BuyerApproves
<1>9. ASSUME ExpireScan
      PROVE  VoucherInv'
  BY <1>9 DEF ExpireScan
<1>10. ASSUME NEW o \in Orders, HoldTimesOut(o)
      PROVE  VoucherInv'
  BY <1>10 DEF HoldTimesOut
<1>11. ASSUME NEW o \in Orders, ExpireOne(o)
      PROVE  VoucherInv'
  BY <1>11 DEF ExpireOne, Release, StillExpired
<1>12. ASSUME NEW s \in Sessions, NEW o \in Orders, ConfirmBegin(s, o)
      PROVE  VoucherInv'
  BY <1>12 DEF ConfirmBegin, StartCapture, Payable, Deliverable
<1>13. ASSUME NEW a \in attempts, ConfirmNothingLeft(a)
      PROVE  VoucherInv'
  BY <1>13 DEF ConfirmNothingLeft
<1>14. ASSUME NEW a \in attempts, ConfirmRecord(a)
      PROVE  VoucherInv'
  BY <1>14 DEF ConfirmRecord, Capture, GoodsStatus, MayCapture, ActivateBenefits
<1>15. ASSUME NEW a \in attempts, ConfirmAnswerLost(a)
      PROVE  VoucherInv'
  BY <1>15 DEF ConfirmAnswerLost, Capture, MayCapture
<1>16. ASSUME NEW a \in attempts, ConfirmAbandoned(a)
      PROVE  VoucherInv'
  BY <1>16 DEF ConfirmAbandoned
<1>17. CASE UNCHANGED quietVars
  BY <1>17 DEF quietVars
<1> HIDE DEF PayInv, VoucherInv, AttemptInv, TypeOK, Attempt, Captured, Matches, PaidFor,
    Settled, orderVars, holdVars, outcomeVars, payPalVars, jobVars
<1> QED
  BY <1>1, <1>2, <1>3, <1>4, <1>5, <1>6, <1>7, <1>8, <1>9, <1>10, <1>11, <1>12, <1>13, <1>14,
      <1>15, <1>16, <1>17
     DEF Next, CartStep, VoucherStep, ExpiryStep, ConfirmStep, DeletionStep, ReadItem,
         DropDeletion, quietVars, vars, jobVars

LEMMA AttemptInvStep ==
  ASSUME PayInv, TypeOK', [Next]_vars
  PROVE  AttemptInv'
<1> USE VoucherAssumption, KindAssumption DEF PayInv, VoucherInv, AttemptInv, TypeOK, Attempt,
    Captured, Matches, PaidFor, Settled, orderVars, holdVars, outcomeVars, payPalVars, jobVars
<1>1. ASSUME NEW o \in Orders, NEW m \in Models, NEW n \in 1..ItemLimit, CreateOrder(o, m, n)
      PROVE  AttemptInv'
  BY <1>1 DEF CreateOrder
<1>2. ASSUME NEW o \in Orders, NEW m \in Models, MergeIntoOrder(o, m)
      PROVE  AttemptInv'
  BY <1>2 DEF MergeIntoOrder, Release
<1>3. ASSUME NEW d \in Deleters, NEW x \in deletions, DeleteItem(d, x)
      PROVE  AttemptInv'
  BY <1>3 DEF DeleteItem, Deletion, Release
<1>4. ASSUME NEW o \in Orders, CancelOrder(o)
      PROVE  AttemptInv'
  BY <1>4 DEF CancelOrder, Release
<1>5. ASSUME NEW o \in Orders, DeleteOrder(o)
      PROVE  AttemptInv'
  BY <1>5 DEF DeleteOrder
<1>6. ASSUME NEW o \in Orders, ReuseVoucher(o)
      PROVE  AttemptInv'
  BY <1>6 DEF ReuseVoucher
<1>7. ASSUME NEW o \in Orders, NEW v \in Vouchers, NEW answered \in BOOLEAN, CreateVoucher(o, v,
    answered)
      PROVE  AttemptInv'
  BY <1>7 DEF CreateVoucher, Checkout
<1>8. ASSUME NEW v \in Vouchers, NEW address \in {"ok", "bad"}, BuyerApproves(v, address)
      PROVE  AttemptInv'
  BY <1>8 DEF BuyerApproves
<1>9. ASSUME ExpireScan
      PROVE  AttemptInv'
  BY <1>9 DEF ExpireScan
<1>10. ASSUME NEW o \in Orders, HoldTimesOut(o)
      PROVE  AttemptInv'
  BY <1>10 DEF HoldTimesOut
<1>11. ASSUME NEW o \in Orders, ExpireOne(o)
      PROVE  AttemptInv'
  BY <1>11 DEF ExpireOne, Release, StillExpired
<1>12. ASSUME NEW s \in Sessions, NEW o \in Orders, ConfirmBegin(s, o)
      PROVE  AttemptInv'
  BY <1>12 DEF ConfirmBegin, StartCapture, Payable, Deliverable
<1>13. ASSUME NEW a \in attempts, ConfirmNothingLeft(a)
      PROVE  AttemptInv'
  BY <1>13 DEF ConfirmNothingLeft
<1>14. ASSUME NEW a \in attempts, ConfirmRecord(a)
      PROVE  AttemptInv'
  BY <1>14 DEF ConfirmRecord, Capture, GoodsStatus, MayCapture, ActivateBenefits
<1>15. ASSUME NEW a \in attempts, ConfirmAnswerLost(a)
      PROVE  AttemptInv'
  BY <1>15 DEF ConfirmAnswerLost, Capture, MayCapture
<1>16. ASSUME NEW a \in attempts, ConfirmAbandoned(a)
      PROVE  AttemptInv'
  BY <1>16 DEF ConfirmAbandoned
<1>17. CASE UNCHANGED quietVars
  BY <1>17 DEF quietVars
<1> HIDE DEF PayInv, VoucherInv, AttemptInv, TypeOK, Attempt, Captured, Matches, PaidFor,
    Settled, orderVars, holdVars, outcomeVars, payPalVars, jobVars
<1> QED
  BY <1>1, <1>2, <1>3, <1>4, <1>5, <1>6, <1>7, <1>8, <1>9, <1>10, <1>11, <1>12, <1>13, <1>14,
      <1>15, <1>16, <1>17
     DEF Next, CartStep, VoucherStep, ExpiryStep, ConfirmStep, DeletionStep, ReadItem,
         DropDeletion, quietVars, vars, jobVars

LEMMA ChargeInvStep ==
  ASSUME PayInv, TypeOK', [Next]_vars
  PROVE  ChargeInv'
<1> USE VoucherAssumption, KindAssumption DEF PayInv, VoucherInv, AttemptInv, ChargeInv, TypeOK,
    Attempt, Captured, Matches, PaidFor, Settled, orderVars, holdVars, outcomeVars, payPalVars,
    jobVars
<1>1. ASSUME NEW o \in Orders, NEW m \in Models, NEW n \in 1..ItemLimit, CreateOrder(o, m, n)
      PROVE  ChargeInv'
  BY <1>1 DEF CreateOrder
<1>2. ASSUME NEW o \in Orders, NEW m \in Models, MergeIntoOrder(o, m)
      PROVE  ChargeInv'
  BY <1>2 DEF MergeIntoOrder, Release
<1>3. ASSUME NEW d \in Deleters, NEW x \in deletions, DeleteItem(d, x)
      PROVE  ChargeInv'
  BY <1>3 DEF DeleteItem, Deletion, Release
<1>4. ASSUME NEW o \in Orders, CancelOrder(o)
      PROVE  ChargeInv'
  BY <1>4 DEF CancelOrder, Release
<1>5. ASSUME NEW o \in Orders, DeleteOrder(o)
      PROVE  ChargeInv'
  BY <1>5 DEF DeleteOrder
<1>6. ASSUME NEW o \in Orders, ReuseVoucher(o)
      PROVE  ChargeInv'
  BY <1>6 DEF ReuseVoucher
<1>7. ASSUME NEW o \in Orders, NEW v \in Vouchers, NEW answered \in BOOLEAN, CreateVoucher(o, v,
    answered)
      PROVE  ChargeInv'
  BY <1>7 DEF CreateVoucher, Checkout
<1>8. ASSUME NEW v \in Vouchers, NEW address \in {"ok", "bad"}, BuyerApproves(v, address)
      PROVE  ChargeInv'
  BY <1>8 DEF BuyerApproves
<1>9. ASSUME ExpireScan
      PROVE  ChargeInv'
  BY <1>9 DEF ExpireScan
<1>10. ASSUME NEW o \in Orders, HoldTimesOut(o)
      PROVE  ChargeInv'
  BY <1>10 DEF HoldTimesOut
<1>11. ASSUME NEW o \in Orders, ExpireOne(o)
      PROVE  ChargeInv'
  BY <1>11 DEF ExpireOne, Release, StillExpired
<1>12. ASSUME NEW s \in Sessions, NEW o \in Orders, ConfirmBegin(s, o)
      PROVE  ChargeInv'
  BY <1>12 DEF ConfirmBegin, StartCapture, Payable, Deliverable
<1>13. ASSUME NEW a \in attempts, ConfirmNothingLeft(a)
      PROVE  ChargeInv'
  BY <1>13 DEF ConfirmNothingLeft
<1>14. ASSUME NEW a \in attempts, ConfirmRecord(a)
      PROVE  ChargeInv'
  BY <1>14 DEF ConfirmRecord, Capture, GoodsStatus, MayCapture, ActivateBenefits
<1>15. ASSUME NEW a \in attempts, ConfirmAnswerLost(a)
      PROVE  ChargeInv'
  BY <1>15 DEF ConfirmAnswerLost, Capture, MayCapture
<1>16. ASSUME NEW a \in attempts, ConfirmAbandoned(a)
      PROVE  ChargeInv'
  BY <1>16 DEF ConfirmAbandoned
<1>17. CASE UNCHANGED quietVars
  BY <1>17 DEF quietVars
<1> HIDE DEF PayInv, VoucherInv, AttemptInv, ChargeInv, TypeOK, Attempt, Captured, Matches,
    PaidFor, Settled, orderVars, holdVars, outcomeVars, payPalVars, jobVars
<1> QED
  BY <1>1, <1>2, <1>3, <1>4, <1>5, <1>6, <1>7, <1>8, <1>9, <1>10, <1>11, <1>12, <1>13, <1>14,
      <1>15, <1>16, <1>17
     DEF Next, CartStep, VoucherStep, ExpiryStep, ConfirmStep, DeletionStep, ReadItem,
         DropDeletion, quietVars, vars, jobVars

LEMMA PaidMeansChargedStep ==
  ASSUME PayInv, TypeOK', [Next]_vars
  PROVE  PaidMeansCharged'
<1> USE VoucherAssumption, KindAssumption DEF PayInv, VoucherInv, AttemptInv, PaidMeansCharged,
    TypeOK, Attempt, Captured, Matches, PaidFor, Settled, orderVars, holdVars, outcomeVars,
    payPalVars, jobVars
<1>1. ASSUME NEW o \in Orders, NEW m \in Models, NEW n \in 1..ItemLimit, CreateOrder(o, m, n)
      PROVE  PaidMeansCharged'
  BY <1>1 DEF CreateOrder
<1>2. ASSUME NEW o \in Orders, NEW m \in Models, MergeIntoOrder(o, m)
      PROVE  PaidMeansCharged'
  BY <1>2 DEF MergeIntoOrder, Release
<1>3. ASSUME NEW d \in Deleters, NEW x \in deletions, DeleteItem(d, x)
      PROVE  PaidMeansCharged'
  BY <1>3 DEF DeleteItem, Deletion, Release
<1>4. ASSUME NEW o \in Orders, CancelOrder(o)
      PROVE  PaidMeansCharged'
  BY <1>4 DEF CancelOrder, Release
<1>5. ASSUME NEW o \in Orders, DeleteOrder(o)
      PROVE  PaidMeansCharged'
  BY <1>5 DEF DeleteOrder
<1>6. ASSUME NEW o \in Orders, ReuseVoucher(o)
      PROVE  PaidMeansCharged'
  BY <1>6 DEF ReuseVoucher
<1>7. ASSUME NEW o \in Orders, NEW v \in Vouchers, NEW answered \in BOOLEAN, CreateVoucher(o, v,
    answered)
      PROVE  PaidMeansCharged'
  BY <1>7 DEF CreateVoucher, Checkout
<1>8. ASSUME NEW v \in Vouchers, NEW address \in {"ok", "bad"}, BuyerApproves(v, address)
      PROVE  PaidMeansCharged'
  BY <1>8 DEF BuyerApproves
<1>9. ASSUME ExpireScan
      PROVE  PaidMeansCharged'
  BY <1>9 DEF ExpireScan
<1>10. ASSUME NEW o \in Orders, HoldTimesOut(o)
      PROVE  PaidMeansCharged'
  BY <1>10 DEF HoldTimesOut
<1>11. ASSUME NEW o \in Orders, ExpireOne(o)
      PROVE  PaidMeansCharged'
  BY <1>11 DEF ExpireOne, Release, StillExpired
<1>12. ASSUME NEW s \in Sessions, NEW o \in Orders, ConfirmBegin(s, o)
      PROVE  PaidMeansCharged'
  BY <1>12 DEF ConfirmBegin, StartCapture, Payable, Deliverable
<1>13. ASSUME NEW a \in attempts, ConfirmNothingLeft(a)
      PROVE  PaidMeansCharged'
  BY <1>13 DEF ConfirmNothingLeft
<1>14. ASSUME NEW a \in attempts, ConfirmRecord(a)
      PROVE  PaidMeansCharged'
  BY <1>14 DEF ConfirmRecord, Capture, GoodsStatus, MayCapture, ActivateBenefits
<1>15. ASSUME NEW a \in attempts, ConfirmAnswerLost(a)
      PROVE  PaidMeansCharged'
  BY <1>15 DEF ConfirmAnswerLost, Capture, MayCapture
<1>16. ASSUME NEW a \in attempts, ConfirmAbandoned(a)
      PROVE  PaidMeansCharged'
  BY <1>16 DEF ConfirmAbandoned
<1>17. CASE UNCHANGED quietVars
  BY <1>17 DEF quietVars
<1> HIDE DEF PayInv, VoucherInv, AttemptInv, PaidMeansCharged, TypeOK, Attempt, Captured,
    Matches, PaidFor, Settled, orderVars, holdVars, outcomeVars, payPalVars, jobVars
<1> QED
  BY <1>1, <1>2, <1>3, <1>4, <1>5, <1>6, <1>7, <1>8, <1>9, <1>10, <1>11, <1>12, <1>13, <1>14,
      <1>15, <1>16, <1>17
     DEF Next, CartStep, VoucherStep, ExpiryStep, ConfirmStep, DeletionStep, ReadItem,
         DropDeletion, quietVars, vars, jobVars

LEMMA HoldInvStep ==
  ASSUME PayInv, StockInv, TypeOK', [Next]_vars
  PROVE  HoldInv'
<1> USE VoucherAssumption, KindAssumption DEF PayInv, StockInv, HoldInv, AttemptInv,
    PrintOrders, TypeOK, Attempt, Captured, Matches, PaidFor, Settled, orderVars, holdVars,
    outcomeVars, payPalVars, jobVars
<1>1. ASSUME NEW o \in Orders, NEW m \in Models, NEW n \in 1..ItemLimit, CreateOrder(o, m, n)
      PROVE  HoldInv'
  BY <1>1 DEF CreateOrder
<1>2. ASSUME NEW o \in Orders, NEW m \in Models, MergeIntoOrder(o, m)
      PROVE  HoldInv'
  BY <1>2 DEF MergeIntoOrder, Release
<1>3. ASSUME NEW d \in Deleters, NEW x \in deletions, DeleteItem(d, x)
      PROVE  HoldInv'
  BY <1>3 DEF DeleteItem, Deletion, Release
<1>4. ASSUME NEW o \in Orders, CancelOrder(o)
      PROVE  HoldInv'
  BY <1>4 DEF CancelOrder, Release
<1>5. ASSUME NEW o \in Orders, DeleteOrder(o)
      PROVE  HoldInv'
  BY <1>5 DEF DeleteOrder
<1>6. ASSUME NEW o \in Orders, ReuseVoucher(o)
      PROVE  HoldInv'
  BY <1>6 DEF ReuseVoucher, Checkout, HoldForCheckout, Reserve, NeedsHold
<1>7. ASSUME NEW o \in Orders, NEW v \in Vouchers, NEW answered \in BOOLEAN, CreateVoucher(o, v,
    answered)
      PROVE  HoldInv'
  BY <1>7 DEF CreateVoucher, Checkout, HoldForCheckout, Reserve, NeedsHold
<1>8. ASSUME NEW v \in Vouchers, NEW address \in {"ok", "bad"}, BuyerApproves(v, address)
      PROVE  HoldInv'
  BY <1>8 DEF BuyerApproves
<1>9. ASSUME ExpireScan
      PROVE  HoldInv'
  BY <1>9 DEF ExpireScan
<1>10. ASSUME NEW o \in Orders, HoldTimesOut(o)
      PROVE  HoldInv'
  BY <1>10 DEF HoldTimesOut
<1>11. ASSUME NEW o \in Orders, ExpireOne(o)
      PROVE  HoldInv'
  BY <1>11 DEF ExpireOne, Release, StillExpired
<1>12. ASSUME NEW s \in Sessions, NEW o \in Orders, ConfirmBegin(s, o)
      PROVE  HoldInv'
  <2>1. CASE o \in PrintOrders \ Legacy
    <3>1. NeedsHold(o) => InStock(o)
      BY <1>12, <2>1 DEF ConfirmBegin, StartCapture, Payable, Deliverable, NeedsHold,
          VoucherInv, ChargeInv
    <3>2. Reserve(o)
      BY <1>12, <3>1 DEF ConfirmBegin, StartCapture, Payable, Deliverable
    <3> QED BY <1>12, <2>1, <3>2 DEF ConfirmBegin, StartCapture, Payable, Deliverable, Reserve,
        NeedsHold
  <2>2. CASE o \notin PrintOrders \ Legacy
    BY <1>12, <2>2 DEF ConfirmBegin, StartCapture, Payable, Deliverable, Reserve, NeedsHold
  <2> QED BY <2>1, <2>2
<1>13. ASSUME NEW a \in attempts, ConfirmNothingLeft(a)
      PROVE  HoldInv'
  BY <1>13 DEF ConfirmNothingLeft
<1>14. ASSUME NEW a \in attempts, ConfirmRecord(a)
      PROVE  HoldInv'
  BY <1>14 DEF ConfirmRecord, Capture, GoodsStatus, MayCapture, ActivateBenefits
<1>15. ASSUME NEW a \in attempts, ConfirmAnswerLost(a)
      PROVE  HoldInv'
  BY <1>15 DEF ConfirmAnswerLost, Capture, MayCapture
<1>16. ASSUME NEW a \in attempts, ConfirmAbandoned(a)
      PROVE  HoldInv'
  BY <1>16 DEF ConfirmAbandoned
<1>17. CASE UNCHANGED quietVars
  BY <1>17 DEF quietVars
<1> HIDE DEF PayInv, StockInv, HoldInv, AttemptInv, PrintOrders, TypeOK, Attempt, Captured,
    Matches, PaidFor, Settled, orderVars, holdVars, outcomeVars, payPalVars, jobVars
<1> QED
  BY <1>1, <1>2, <1>3, <1>4, <1>5, <1>6, <1>7, <1>8, <1>9, <1>10, <1>11, <1>12, <1>13, <1>14,
      <1>15, <1>16, <1>17
     DEF Next, CartStep, VoucherStep, ExpiryStep, ConfirmStep, DeletionStep, ReadItem,
         DropDeletion, quietVars, vars, jobVars

LEMMA PaidOrderHasStockStep ==
  ASSUME PayInv, StockInv, TypeOK', [Next]_vars
  PROVE  PaidOrderHasStock'
<1> USE VoucherAssumption, KindAssumption DEF PayInv, StockInv, HoldInv, PaidOrderHasStock,
    AttemptInv, PrintOrders, TypeOK, Attempt, Captured, Matches, PaidFor, Settled, orderVars,
    holdVars, outcomeVars, payPalVars, jobVars
<1>1. ASSUME NEW o \in Orders, NEW m \in Models, NEW n \in 1..ItemLimit, CreateOrder(o, m, n)
      PROVE  PaidOrderHasStock'
  BY <1>1 DEF CreateOrder
<1>2. ASSUME NEW o \in Orders, NEW m \in Models, MergeIntoOrder(o, m)
      PROVE  PaidOrderHasStock'
  BY <1>2 DEF MergeIntoOrder, Release
<1>3. ASSUME NEW d \in Deleters, NEW x \in deletions, DeleteItem(d, x)
      PROVE  PaidOrderHasStock'
  BY <1>3 DEF DeleteItem, Deletion, Release
<1>4. ASSUME NEW o \in Orders, CancelOrder(o)
      PROVE  PaidOrderHasStock'
  BY <1>4 DEF CancelOrder, Release
<1>5. ASSUME NEW o \in Orders, DeleteOrder(o)
      PROVE  PaidOrderHasStock'
  BY <1>5 DEF DeleteOrder
<1>6. ASSUME NEW o \in Orders, ReuseVoucher(o)
      PROVE  PaidOrderHasStock'
  BY <1>6 DEF ReuseVoucher, Checkout, HoldForCheckout, Reserve, NeedsHold
<1>7. ASSUME NEW o \in Orders, NEW v \in Vouchers, NEW answered \in BOOLEAN, CreateVoucher(o, v,
    answered)
      PROVE  PaidOrderHasStock'
  BY <1>7 DEF CreateVoucher, Checkout, HoldForCheckout, Reserve, NeedsHold
<1>8. ASSUME NEW v \in Vouchers, NEW address \in {"ok", "bad"}, BuyerApproves(v, address)
      PROVE  PaidOrderHasStock'
  BY <1>8 DEF BuyerApproves
<1>9. ASSUME ExpireScan
      PROVE  PaidOrderHasStock'
  BY <1>9 DEF ExpireScan
<1>10. ASSUME NEW o \in Orders, HoldTimesOut(o)
      PROVE  PaidOrderHasStock'
  BY <1>10 DEF HoldTimesOut
<1>11. ASSUME NEW o \in Orders, ExpireOne(o)
      PROVE  PaidOrderHasStock'
  BY <1>11 DEF ExpireOne, Release, StillExpired
<1>12. ASSUME NEW s \in Sessions, NEW o \in Orders, ConfirmBegin(s, o)
      PROVE  PaidOrderHasStock'
  BY <1>12 DEF ConfirmBegin, StartCapture, Payable, Deliverable, Reserve, NeedsHold
<1>13. ASSUME NEW a \in attempts, ConfirmNothingLeft(a)
      PROVE  PaidOrderHasStock'
  BY <1>13 DEF ConfirmNothingLeft
<1>14. ASSUME NEW a \in attempts, ConfirmRecord(a)
      PROVE  PaidOrderHasStock'
  BY <1>14 DEF ConfirmRecord, Capture, GoodsStatus, MayCapture, ActivateBenefits
<1>15. ASSUME NEW a \in attempts, ConfirmAnswerLost(a)
      PROVE  PaidOrderHasStock'
  BY <1>15 DEF ConfirmAnswerLost, Capture, MayCapture
<1>16. ASSUME NEW a \in attempts, ConfirmAbandoned(a)
      PROVE  PaidOrderHasStock'
  BY <1>16 DEF ConfirmAbandoned
<1>17. CASE UNCHANGED quietVars
  BY <1>17 DEF quietVars
<1> HIDE DEF PayInv, StockInv, HoldInv, PaidOrderHasStock, AttemptInv, PrintOrders, TypeOK,
    Attempt, Captured, Matches, PaidFor, Settled, orderVars, holdVars, outcomeVars, payPalVars,
    jobVars
<1> QED
  BY <1>1, <1>2, <1>3, <1>4, <1>5, <1>6, <1>7, <1>8, <1>9, <1>10, <1>11, <1>12, <1>13, <1>14,
      <1>15, <1>16, <1>17
     DEF Next, CartStep, VoucherStep, ExpiryStep, ConfirmStep, DeletionStep, ReadItem,
         DropDeletion, quietVars, vars, jobVars

LEMMA ProGrantedStep ==
  ASSUME PayInv, StockInv, TypeOK', [Next]_vars
  PROVE  ProGrantedOncePerPayment'
<1> USE VoucherAssumption, KindAssumption DEF PayInv, StockInv, HoldInv,
    ProGrantedOncePerPayment, AttemptInv, PrintOrders, TypeOK, Attempt, Captured, Matches,
    PaidFor, Settled, orderVars, holdVars, outcomeVars, payPalVars, jobVars
<1>1. ASSUME NEW o \in Orders, NEW m \in Models, NEW n \in 1..ItemLimit, CreateOrder(o, m, n)
      PROVE  ProGrantedOncePerPayment'
  BY <1>1 DEF CreateOrder
<1>2. ASSUME NEW o \in Orders, NEW m \in Models, MergeIntoOrder(o, m)
      PROVE  ProGrantedOncePerPayment'
  BY <1>2 DEF MergeIntoOrder, Release
<1>3. ASSUME NEW d \in Deleters, NEW x \in deletions, DeleteItem(d, x)
      PROVE  ProGrantedOncePerPayment'
  BY <1>3 DEF DeleteItem, Deletion, Release
<1>4. ASSUME NEW o \in Orders, CancelOrder(o)
      PROVE  ProGrantedOncePerPayment'
  BY <1>4 DEF CancelOrder, Release
<1>5. ASSUME NEW o \in Orders, DeleteOrder(o)
      PROVE  ProGrantedOncePerPayment'
  BY <1>5 DEF DeleteOrder
<1>6. ASSUME NEW o \in Orders, ReuseVoucher(o)
      PROVE  ProGrantedOncePerPayment'
  BY <1>6 DEF ReuseVoucher, Checkout, HoldForCheckout, Reserve, NeedsHold
<1>7. ASSUME NEW o \in Orders, NEW v \in Vouchers, NEW answered \in BOOLEAN, CreateVoucher(o, v,
    answered)
      PROVE  ProGrantedOncePerPayment'
  BY <1>7 DEF CreateVoucher, Checkout, HoldForCheckout, Reserve, NeedsHold
<1>8. ASSUME NEW v \in Vouchers, NEW address \in {"ok", "bad"}, BuyerApproves(v, address)
      PROVE  ProGrantedOncePerPayment'
  BY <1>8 DEF BuyerApproves
<1>9. ASSUME ExpireScan
      PROVE  ProGrantedOncePerPayment'
  BY <1>9 DEF ExpireScan
<1>10. ASSUME NEW o \in Orders, HoldTimesOut(o)
      PROVE  ProGrantedOncePerPayment'
  BY <1>10 DEF HoldTimesOut
<1>11. ASSUME NEW o \in Orders, ExpireOne(o)
      PROVE  ProGrantedOncePerPayment'
  BY <1>11 DEF ExpireOne, Release, StillExpired
<1>12. ASSUME NEW s \in Sessions, NEW o \in Orders, ConfirmBegin(s, o)
      PROVE  ProGrantedOncePerPayment'
  BY <1>12 DEF ConfirmBegin, StartCapture, Payable, Deliverable, Reserve, NeedsHold
<1>13. ASSUME NEW a \in attempts, ConfirmNothingLeft(a)
      PROVE  ProGrantedOncePerPayment'
  BY <1>13 DEF ConfirmNothingLeft
<1>14. ASSUME NEW a \in attempts, ConfirmRecord(a)
      PROVE  ProGrantedOncePerPayment'
  BY <1>14 DEF ConfirmRecord, Capture, GoodsStatus, MayCapture, ActivateBenefits
<1>15. ASSUME NEW a \in attempts, ConfirmAnswerLost(a)
      PROVE  ProGrantedOncePerPayment'
  BY <1>15 DEF ConfirmAnswerLost, Capture, MayCapture
<1>16. ASSUME NEW a \in attempts, ConfirmAbandoned(a)
      PROVE  ProGrantedOncePerPayment'
  BY <1>16 DEF ConfirmAbandoned
<1>17. CASE UNCHANGED quietVars
  BY <1>17 DEF quietVars
<1> HIDE DEF PayInv, StockInv, HoldInv, ProGrantedOncePerPayment, AttemptInv, PrintOrders,
    TypeOK, Attempt, Captured, Matches, PaidFor, Settled, orderVars, holdVars, outcomeVars,
    payPalVars, jobVars
<1> QED
  BY <1>1, <1>2, <1>3, <1>4, <1>5, <1>6, <1>7, <1>8, <1>9, <1>10, <1>11, <1>12, <1>13, <1>14,
      <1>15, <1>16, <1>17
     DEF Next, CartStep, VoucherStep, ExpiryStep, ConfirmStep, DeletionStep, ReadItem,
         DropDeletion, quietVars, vars, jobVars

-----------------------------------------------------------------------------
(* Action properties.                                                        *)

\* The step moves units between the shelf and order o, and no others.
Moves(o) ==
    \A m \in Models :
        /\ stock'[m] + Taken(o, m)' = stock[m] + Taken(o, m)
        /\ \A p \in Orders \ {o} : Taken(p, m)' = Taken(p, m)

\* An unpaid order whose hold is given back, whatever becomes of its basket.
LEMMA ReleaseMoves ==
  ASSUME TypeOK, NEW o \in Orders, ~inventory_consumed[o], Release(o),
         items' \in [Orders -> Basket], \A p \in Orders \ {o} : items'[p] = items[p]
  PROVE  Moves(o)
<1> SUFFICES ASSUME NEW m \in Models
             PROVE  /\ stock'[m] + Taken(o, m)' = stock[m] + Taken(o, m)
                    /\ \A p \in Orders \ {o} : Taken(p, m)' = Taken(p, m)
  BY DEF Moves
<1>1. ~inventory_reserved'[o] /\ ~inventory_consumed'[o]
  BY DEF Release, TypeOK
<1>2. stock'[m] = IF inventory_reserved[o] THEN stock[m] + items[o][m] ELSE stock[m]
  BY DEF Release, TypeOK
<1>3. stock[m] \in Nat /\ items[o][m] \in Nat
  BY DEF TypeOK, Basket
<1>4. \A p \in Orders \ {o} : Taken(p, m)' = Taken(p, m)
  BY DEF Release, Taken, TypeOK
<1> QED BY <1>1, <1>2, <1>3, <1>4 DEF Taken

\* A hold taken for the whole basket.
LEMMA ReserveMoves ==
  ASSUME TypeOK, NEW o \in Orders, ~inventory_consumed[o], Reserve(o),
         UNCHANGED <<items, inventory_consumed>>
  PROVE  Moves(o)
<1> SUFFICES ASSUME NEW m \in Models
             PROVE  /\ stock'[m] + Taken(o, m)' = stock[m] + Taken(o, m)
                    /\ \A p \in Orders \ {o} : Taken(p, m)' = Taken(p, m)
  BY DEF Moves
<1>1. stock[m] \in Nat /\ items[o][m] \in Nat
  BY DEF TypeOK, Basket
<1>2. CASE NeedsHold(o)
  <2>1. stock'[m] = stock[m] - items[o][m] /\ inventory_reserved'[o] /\ ~inventory_reserved[o]
    BY <1>2 DEF Reserve, NeedsHold, TypeOK
  <2>2. \A p \in Orders \ {o} : Taken(p, m)' = Taken(p, m)
    BY <1>2 DEF Reserve, Taken, TypeOK
  <2> QED BY <1>1, <2>1, <2>2 DEF Taken
<1>3. CASE ~NeedsHold(o)
  BY <1>3 DEF Reserve, Taken
<1> QED BY <1>2, <1>3

\* An order without units: its basket may change freely.
LEMMA NothingMoves ==
  ASSUME TypeOK, NEW o \in Orders, UNCHANGED <<stock, inventory_reserved, inventory_consumed>>,
         items' = items \/ (~inventory_reserved[o] /\ ~inventory_consumed[o]),
         \A p \in Orders \ {o} : items'[p] = items[p]
  PROVE  Moves(o)
BY DEF Moves, Taken

\* Only an unpaid order holds units, and only a paid one has consumed them.
UnitsInv ==
    \A o \in Orders :
        /\ inventory_reserved[o] => status[o] = "pending_payment"
        /\ inventory_consumed[o] => status[o] \in Settled \cup {"refund_pending"}

\* A payment is recorded for an unpaid order.
RecordsUnpaid == \A a \in attempts : ConfirmRecord(a) => status[a.order] = "pending_payment"

LEMMA UnitsMoveStep ==
  ASSUME PayInv, UnitsInv, RecordsUnpaid, TypeOK', [Next]_vars
  PROVE  \E p \in Orders : Moves(p)
<1> USE VoucherAssumption, KindAssumption DEF Taken, PayInv, UnitsInv, RecordsUnpaid, AttemptInv,
    PrintOrders, Basket, Empty, TypeOK, Attempt, Captured, Matches, PaidFor, Settled, orderVars,
    holdVars, outcomeVars, payPalVars, jobVars
<1>1. ASSUME NEW o \in Orders, NEW m \in Models, NEW n \in 1..ItemLimit, CreateOrder(o, m, n)
      PROVE  \E p \in Orders : Moves(p)
  <2>1. Moves(o)
    BY <1>1, NothingMoves DEF CreateOrder
  <2> QED BY <2>1
<1>2. ASSUME NEW o \in Orders, NEW m \in Models, MergeIntoOrder(o, m)
      PROVE  \E p \in Orders : Moves(p)
  <2>1. Moves(o)
    BY <1>2, ReleaseMoves DEF MergeIntoOrder
  <2> QED BY <2>1
<1>3. ASSUME NEW d \in Deleters, NEW x \in deletions, DeleteItem(d, x)
      PROVE  \E p \in Orders : Moves(p)
  <2>1. x.order \in Orders /\ x.model \in Models
    BY DEF Deletion
  <2>2. Release(x.order) /\ ~inventory_consumed[x.order]
    BY <1>3, <2>1 DEF DeleteItem
  <2>3. \A p \in Orders \ {x.order} : items'[p] = items[p]
    BY <1>3, <2>1 DEF DeleteItem
  <2>4. Moves(x.order)
    BY <2>1, <2>2, <2>3, ReleaseMoves
  <2> QED BY <2>1, <2>4
<1>4. ASSUME NEW o \in Orders, CancelOrder(o)
      PROVE  \E p \in Orders : Moves(p)
  <2>1. Moves(o)
    BY <1>4, ReleaseMoves DEF CancelOrder
  <2> QED BY <2>1
<1>5. ASSUME NEW o \in Orders, DeleteOrder(o)
      PROVE  \E p \in Orders : Moves(p)
  <2>1. Moves(o)
    BY <1>5, NothingMoves DEF DeleteOrder
  <2> QED BY <2>1
<1>6. ASSUME NEW o \in Orders, ReuseVoucher(o)
      PROVE  \E p \in Orders : Moves(p)
  <2>1. Moves(o)
    BY <1>6, ReserveMoves DEF ReuseVoucher, Checkout, HoldForCheckout
  <2> QED BY <2>1
<1>7. ASSUME NEW o \in Orders, NEW v \in Vouchers, NEW answered \in BOOLEAN, CreateVoucher(o, v,
    answered)
      PROVE  \E p \in Orders : Moves(p)
  <2>1. Moves(o)
    <3>1. CASE answered
      BY <1>7, <3>1, ReserveMoves DEF CreateVoucher, Checkout, HoldForCheckout
    <3>2. CASE ~answered
      <4>1. UNCHANGED <<stock, inventory_reserved, inventory_consumed, items>>
        BY <1>7, <3>2 DEF CreateVoucher
      <4> QED BY <4>1 DEF Moves
    <3> QED BY <3>1, <3>2
  <2> QED BY <2>1
<1>8. ASSUME NEW v \in Vouchers, NEW address \in {"ok", "bad"}, BuyerApproves(v, address)
      PROVE  \E p \in Orders : Moves(p)
  BY <1>8 DEF BuyerApproves, Moves
<1>9. ASSUME ExpireScan
      PROVE  \E p \in Orders : Moves(p)
  BY <1>9 DEF ExpireScan, Moves
<1>10. ASSUME NEW o \in Orders, HoldTimesOut(o)
      PROVE  \E p \in Orders : Moves(p)
  <2>1. Moves(o)
    BY <1>10 DEF HoldTimesOut, Moves
  <2> QED BY <2>1
<1>11. ASSUME NEW o \in Orders, ExpireOne(o)
      PROVE  \E p \in Orders : Moves(p)
  <2>1. Moves(o)
    <3>1. CASE StillExpired(o)
      BY <1>11, <3>1, ReleaseMoves DEF ExpireOne, StillExpired
    <3>2. CASE ~StillExpired(o)
      <4>1. UNCHANGED <<stock, inventory_reserved, inventory_consumed, items>>
        BY <1>11, <3>2 DEF ExpireOne
      <4> QED BY <4>1 DEF Moves
    <3> QED BY <3>1, <3>2
  <2> QED BY <2>1
<1>12. ASSUME NEW s \in Sessions, NEW o \in Orders, ConfirmBegin(s, o)
      PROVE  \E p \in Orders : Moves(p)
  <2>1. Moves(o)
    <3>1. CASE NeedsHold(o) /\ ~InStock(o)
      BY <1>12, <3>1, NothingMoves DEF ConfirmBegin, StartCapture, Payable, Deliverable
    <3>2. CASE ~(NeedsHold(o) /\ ~InStock(o))
      BY <1>12, <3>2, ReserveMoves DEF ConfirmBegin, StartCapture, Payable, Deliverable
    <3> QED BY <3>1, <3>2
  <2> QED BY <2>1
<1>13. ASSUME NEW a \in attempts, ConfirmNothingLeft(a)
      PROVE  \E p \in Orders : Moves(p)
  <2>1. a.order \in Orders /\ Moves(a.order)
    BY <1>13 DEF ConfirmNothingLeft, Moves
  <2> QED BY <2>1
<1>14. ASSUME NEW a \in attempts, ConfirmRecord(a)
      PROVE  \E p \in Orders : Moves(p)
  <2>1. status[a.order] = "pending_payment"
    BY <1>14, Zenon
  <2>2. a.order \in Orders /\ ~inventory_consumed[a.order]
    BY <2>1
  <2>3. Moves(a.order)
    BY <1>14, <2>2 DEF ConfirmRecord, Moves
  <2> QED BY <2>2, <2>3
<1>15. ASSUME NEW a \in attempts, ConfirmAnswerLost(a)
      PROVE  \E p \in Orders : Moves(p)
  <2>1. a.order \in Orders /\ Moves(a.order)
    BY <1>15 DEF ConfirmAnswerLost, Capture, MayCapture, Moves
  <2> QED BY <2>1
<1>16. ASSUME NEW a \in attempts, ConfirmAbandoned(a)
      PROVE  \E p \in Orders : Moves(p)
  <2>1. a.order \in Orders /\ Moves(a.order)
    BY <1>16 DEF ConfirmAbandoned, Moves
  <2> QED BY <2>1
<1>17. CASE UNCHANGED quietVars
  BY <1>17 DEF quietVars, Moves
<1> HIDE DEF Taken, PayInv, UnitsInv, RecordsUnpaid, AttemptInv, PrintOrders, Basket, Empty,
    TypeOK, Attempt, Captured, Matches, PaidFor, Settled, orderVars, holdVars, outcomeVars, payPalVars,
    jobVars
<1> QED
  BY <1>1, <1>2, <1>3, <1>4, <1>5, <1>6, <1>7, <1>8, <1>9, <1>10, <1>11, <1>12, <1>13, <1>14,
      <1>15, <1>16, <1>17
     DEF Next, CartStep, VoucherStep, ExpiryStep, ConfirmStep, DeletionStep, ReadItem,
         DropDeletion, quietVars, vars, jobVars

LEMMA HoldIsUnits ==
  ASSUME PayInv, HoldInv
  PROVE  UnitsInv /\ RecordsUnpaid
<1>1. UnitsInv
  BY DEF HoldInv, UnitsInv
<1>2. ASSUME NEW a \in attempts, MayCapture(a) PROVE status[a.order] = "pending_payment"
  <2>1. a.order \in Orders /\ status[a.order] \in {"pending_payment"} \cup PaidFor
    BY DEF PayInv, TypeOK, Attempt, AttemptInv
  <2> QED BY <1>2, <2>1 DEF HoldInv, MayCapture, PaidFor
<1> QED BY <1>1, <1>2 DEF RecordsUnpaid, ConfirmRecord

\* Units that move between the shelf and one order still add up.
LEMMA MovesConserve ==
  ASSUME IsFiniteSet(Orders), TypeOK, TypeOK', StockConserved, NEW o \in Orders, Moves(o)
  PROVE  StockConserved'
<1> SUFFICES ASSUME NEW m \in Models
             PROVE  stock'[m] + SumFunction([p \in Orders |-> Taken(p, m)'])
                        = InitialStock[m]
  BY DEF StockConserved
<1> DEFINE before == [p \in Orders |-> Taken(p, m)]
           after == [p \in Orders |-> Taken(p, m)']
<1>1. stock[m] + SumFunction(before) = InitialStock[m]
  BY DEF StockConserved
<1>2. SumFunction(before) = SumFunctionOnSet(before, Orders)
      /\ SumFunction(after) = SumFunctionOnSet(after, Orders)
  BY DEF SumFunction
<1>3. \A p \in Orders : before[p] \in Int /\ after[p] \in Int
  <2>1. \A p \in Orders : items[p][m] \in Nat /\ items'[p][m] \in Nat
    BY DEF TypeOK, Basket
  <2> QED BY <2>1 DEF Taken
<1>4. \A p \in Orders \ {o} : after[p] = before[p]
  BY DEF Moves
<1>5. stock'[m] + after[o] = stock[m] + before[o] /\ stock[m] \in Int /\ stock'[m] \in Int
  BY DEF Moves, TypeOK
<1> HIDE DEF before, after
<1>6. SumFunctionOnSet(after, Orders) = SumFunctionOnSet(before, Orders) - before[o] + after[o]
  BY <1>3, <1>4, SumChanges
<1>7. SumFunctionOnSet(before, Orders) \in Int
  BY <1>3, SumIsInteger
<1>8. stock'[m] + SumFunction(after) = InitialStock[m]
  BY <1>1, <1>2, <1>3, <1>5, <1>6, <1>7
<1> QED BY <1>8 DEF after

\* Nothing is taken when the shop opens.
LEMMA InitStockConserved ==
  ASSUME IsFiniteSet(Orders), Init
  PROVE  StockConserved
<1> SUFFICES ASSUME NEW m \in Models
             PROVE  stock[m] + SumFunction([o \in Orders |-> Taken(o, m)]) = InitialStock[m]
  BY DEF StockConserved
<1> DEFINE taken == [o \in Orders |-> Taken(o, m)]
<1>1. \A o \in Orders : taken[o] = 0
  BY DEF Init, Taken
<1>2. SumFunction(taken) = SumFunctionOnSet(taken, Orders)
  BY DEF SumFunction
<1> HIDE DEF taken
<1>3. SumFunction(taken) = 0
  BY <1>1, <1>2, SumZero
<1>4. stock[m] = InitialStock[m] /\ InitialStock[m] \in Nat
  BY StockAssumption DEF Init
<1>5. stock[m] + SumFunction(taken) = InitialStock[m]
  BY <1>3, <1>4
<1> QED BY <1>5 DEF taken

LEMMA StutterConserves ==
  ASSUME StockConserved, UNCHANGED <<stock, inventory_reserved, inventory_consumed, items>>
  PROVE  StockConserved'
BY DEF StockConserved, Taken

\* An order whose capture has begun and is not settled keeps what it is paid for.
CaptureKeepsOrder ==
    \A o \in Orders : capture_started[o] /\ status[o] = "pending_payment" =>
        /\ status'[o] \in {"pending_payment", "paid"}
        /\ inventory_reserved[o] => inventory_reserved'[o] \/ inventory_consumed'[o]
        /\ items'[o] = items[o]
        /\ price'[o] = price[o]
        /\ paypal_order_id'[o] = paypal_order_id[o]

LEMMA KeepsHoldStep ==
  ASSUME PayInv, StockInv, TypeOK', [Next]_vars
  PROVE  CaptureKeepsOrder
<1> USE VoucherAssumption, KindAssumption DEF CaptureKeepsOrder, PayInv, StockInv, HoldInv,
    AttemptInv, TypeOK, Attempt, Captured, Matches, PaidFor, Settled, orderVars, holdVars,
    outcomeVars, payPalVars, jobVars
<1>1. ASSUME NEW o \in Orders, NEW m \in Models, NEW n \in 1..ItemLimit, CreateOrder(o, m, n)
      PROVE  CaptureKeepsOrder
  BY <1>1 DEF CreateOrder
<1>2. ASSUME NEW o \in Orders, NEW m \in Models, MergeIntoOrder(o, m)
      PROVE  CaptureKeepsOrder
  BY <1>2 DEF MergeIntoOrder, Release
<1>3. ASSUME NEW d \in Deleters, NEW x \in deletions, DeleteItem(d, x)
      PROVE  CaptureKeepsOrder
  BY <1>3 DEF DeleteItem, Deletion, Release
<1>4. ASSUME NEW o \in Orders, CancelOrder(o)
      PROVE  CaptureKeepsOrder
  BY <1>4 DEF CancelOrder, Release
<1>5. ASSUME NEW o \in Orders, DeleteOrder(o)
      PROVE  CaptureKeepsOrder
  BY <1>5 DEF DeleteOrder
<1>6. ASSUME NEW o \in Orders, ReuseVoucher(o)
      PROVE  CaptureKeepsOrder
  BY <1>6 DEF ReuseVoucher, Checkout, HoldForCheckout, Reserve, NeedsHold
<1>7. ASSUME NEW o \in Orders, NEW v \in Vouchers, NEW answered \in BOOLEAN, CreateVoucher(o, v,
    answered)
      PROVE  CaptureKeepsOrder
  BY <1>7 DEF CreateVoucher, Checkout, HoldForCheckout, Reserve, NeedsHold
<1>8. ASSUME NEW v \in Vouchers, NEW address \in {"ok", "bad"}, BuyerApproves(v, address)
      PROVE  CaptureKeepsOrder
  BY <1>8 DEF BuyerApproves
<1>9. ASSUME ExpireScan
      PROVE  CaptureKeepsOrder
  BY <1>9 DEF ExpireScan
<1>10. ASSUME NEW o \in Orders, HoldTimesOut(o)
      PROVE  CaptureKeepsOrder
  BY <1>10 DEF HoldTimesOut
<1>11. ASSUME NEW o \in Orders, ExpireOne(o)
      PROVE  CaptureKeepsOrder
  BY <1>11 DEF ExpireOne, Release, StillExpired
<1>12. ASSUME NEW s \in Sessions, NEW o \in Orders, ConfirmBegin(s, o)
      PROVE  CaptureKeepsOrder
  BY <1>12 DEF ConfirmBegin, StartCapture, Payable, Deliverable, Reserve, NeedsHold
<1>13. ASSUME NEW a \in attempts, ConfirmNothingLeft(a)
      PROVE  CaptureKeepsOrder
  BY <1>13 DEF ConfirmNothingLeft
<1>14. ASSUME NEW a \in attempts, ConfirmRecord(a)
      PROVE  CaptureKeepsOrder
  BY <1>14 DEF ConfirmRecord, Capture, GoodsStatus, MayCapture, ActivateBenefits
<1>15. ASSUME NEW a \in attempts, ConfirmAnswerLost(a)
      PROVE  CaptureKeepsOrder
  BY <1>15 DEF ConfirmAnswerLost, Capture, MayCapture
<1>16. ASSUME NEW a \in attempts, ConfirmAbandoned(a)
      PROVE  CaptureKeepsOrder
  BY <1>16 DEF ConfirmAbandoned
<1>17. CASE UNCHANGED quietVars
  BY <1>17 DEF quietVars
<1> HIDE DEF PayInv, StockInv, HoldInv, AttemptInv, TypeOK, Attempt, Captured, Matches, PaidFor,
    Settled, orderVars, holdVars, outcomeVars, payPalVars, jobVars
<1> QED
  BY <1>1, <1>2, <1>3, <1>4, <1>5, <1>6, <1>7, <1>8, <1>9, <1>10, <1>11, <1>12, <1>13, <1>14,
      <1>15, <1>16, <1>17
     DEF Next, CartStep, VoucherStep, ExpiryStep, ConfirmStep, DeletionStep, ReadItem,
         DropDeletion, quietVars, vars, jobVars

-----------------------------------------------------------------------------
(* Theorems.                                                                 *)

LEMMA InitStockInv == Init => StockInv
BY KindAssumption DEF Init, StockInv, HoldInv, PaidOrderHasStock, ProGrantedOncePerPayment,
   Settled, PaidFor, PrintOrders

LEMMA PayInvStep == PayInv /\ [Next]_vars => PayInv'
BY TypeOKStep, PriceInvStep, VoucherInvStep, AttemptInvStep, ChargeInvStep, PaidMeansChargedStep DEF PayInv

LEMMA StockInvStep == PayInv /\ StockInv /\ [Next]_vars => StockInv'
BY TypeOKStep, HoldInvStep, PaidOrderHasStockStep, ProGrantedStep DEF StockInv, PayInv

\* Every state of the order table has the types TypeOK names; in particular
\* the stock of a model is never negative.
THEOREM TypeCorrect == Spec => []TypeOK
<1>1. Init => TypeOK
  BY InitPayInv DEF PayInv
<1> QED BY <1>1, TypeOKStep, PTL DEF Spec

LEMMA PayInvariant == Spec => []PayInv
BY InitPayInv, PayInvStep, PTL DEF Spec

LEMMA StockInvariant == Spec => []StockInv
BY InitStockInv, StockInvStep, PayInvariant, PTL DEF Spec

\* A charged order keeps its voucher and its price, which is never above its
\* basket's however deletions of items overlap, and its place in the shop.
THEOREM ChargedOrderKept == Spec => []ChargedOrderIsKept
<1>1. PayInv => ChargedOrderIsKept
  BY DEF PayInv, PriceInv, ChargeInv, ChargedOrderIsKept
<1> QED BY <1>1, PayInvariant, PTL

\* No order is charged through two vouchers.
THEOREM ChargedOnce == Spec => []ChargedAtMostOnce
<1>1. PayInv => ChargedAtMostOnce
  BY DEF PayInv, ChargeInv, ChargedAtMostOnce
<1> QED BY <1>1, PayInvariant, PTL

\* An order is paid only by a captured voucher for exactly its price.
THEOREM PaidIsCharged == Spec => []PaidMeansCharged
<1>1. PayInv => PaidMeansCharged
  BY DEF PayInv
<1> QED BY <1>1, PayInvariant, PTL

\* A paid figure order has taken its whole basket from the stock.
THEOREM PaidHasStock == Spec => []PaidOrderHasStock
<1>1. StockInv => PaidOrderHasStock
  BY DEF StockInv
<1> QED BY <1>1, StockInvariant, PTL

\* Pro time is granted once for a payment, however often it is confirmed.
THEOREM ProGrantedOnce == Spec => []ProGrantedOncePerPayment
<1>1. StockInv => ProGrantedOncePerPayment
  BY DEF StockInv
<1> QED BY <1>1, StockInvariant, PTL

\* Each step moves units between the shelf and one order, none otherwise.
THEOREM UnitsConserved == Spec => UnitsMoveWithOneOrder
<1>1. PayInv /\ PayInv' /\ StockInv /\ [Next]_vars =>
        [\E o \in Orders : \A m \in Models :
             /\ stock'[m] + Taken(o, m)' = stock[m] + Taken(o, m)
             /\ \A p \in Orders \ {o} : Taken(p, m)' = Taken(p, m)]_vars
  BY UnitsMoveStep, HoldIsUnits DEF PayInv, StockInv, Moves
<1> QED BY <1>1, PayInvariant, StockInvariant, PTL DEF Spec, UnitsMoveWithOneOrder

\* Units are on the shelf or with an order, whatever number of orders, models
\* and confirmations: none is lost or made up before the review.
THEOREM StockAddsUp ==
  ASSUME IsFiniteSet(Orders)
  PROVE  Spec => []StockConserved
<1>1. Init => StockConserved
  BY InitStockConserved
<1>2. PayInv /\ PayInv' /\ StockInv /\ StockConserved /\ [Next]_vars => StockConserved'
  <2> SUFFICES ASSUME PayInv, PayInv', StockInv, StockConserved, [Next]_vars
               PROVE  StockConserved'
    OBVIOUS
  <2>1. TypeOK /\ TypeOK'
    BY DEF PayInv
  <2>2. PICK o \in Orders : Moves(o)
    BY <2>1, UnitsMoveStep, HoldIsUnits DEF StockInv
  <2> QED BY <2>1, <2>2, MovesConserve
<1> QED BY <1>1, <1>2, PayInvariant, StockInvariant, PTL DEF Spec

\* An order whose capture may have happened keeps hold, basket,
\* price and voucher.
THEOREM UncertainCaptureKept == Spec => UncertainCaptureKeepsHold
<1>1. PayInv /\ PayInv' /\ StockInv /\ [Next]_vars =>
        [\A o \in Orders : capture_started[o] /\ status[o] = "pending_payment" =>
           /\ status'[o] \in {"pending_payment", "paid"}
           /\ inventory_reserved[o] => inventory_reserved'[o] \/ inventory_consumed'[o]
           /\ items'[o] = items[o]
           /\ price'[o] = price[o]
           /\ paypal_order_id'[o] = paypal_order_id[o]]_vars
  BY KeepsHoldStep DEF PayInv, CaptureKeepsOrder
<1> QED BY <1>1, PayInvariant, StockInvariant, PTL DEF Spec, UncertainCaptureKeepsHold

-----------------------------------------------------------------------------
(* What a recorded payment leaves behind: a wallet order has the address     *)
(* it is shipped to, and an order paid without stock says so.  What the      *)
(* first transaction of a confirmation saw has to hold until the second,     *)
(* whatever other confirmations, buyers and the expiry job do in between.    *)


\* A wallet order with a started capture has an address, and stays bound to a
\* voucher the buyer can no longer approve with another one.
WalletInv ==
    \A o \in WalletOrders : capture_started[o] =>
        /\ address_snapshot[o]
        /\ status[o] \in {"pending_payment"} \cup PaidFor
        /\ paypal_order_id[o] \in Vouchers
        /\ voucher_status[paypal_order_id[o]] \in {"APPROVED", "COMPLETED"}
        /\ voucher_address[paypal_order_id[o]] = "ok"

\* A confirmation that found stock still has it until the payment is recorded.
BackorderInv ==
    \A a \in attempts :
        ~a.backordered /\ a.order \in PrintOrders /\ status[a.order] = "pending_payment"
            => inventory_reserved[a.order]

LEMMA WalletInvStep ==
  ASSUME PayInv, StockInv, WalletInv, TypeOK', [Next]_vars
  PROVE  WalletInv'
<1> USE VoucherAssumption, KindAssumption DEF PayInv, StockInv, HoldInv, AttemptInv,
    PrintOrders, TypeOK, Attempt, Captured, Matches, PaidFor, Settled, orderVars, holdVars,
    outcomeVars, payPalVars, jobVars, WalletInv
<1>1. ASSUME NEW o \in Orders, NEW m \in Models, NEW n \in 1..ItemLimit, CreateOrder(o, m, n)
      PROVE  WalletInv'
  BY <1>1 DEF CreateOrder
<1>2. ASSUME NEW o \in Orders, NEW m \in Models, MergeIntoOrder(o, m)
      PROVE  WalletInv'
  BY <1>2 DEF MergeIntoOrder, Release
<1>3. ASSUME NEW d \in Deleters, NEW x \in deletions, DeleteItem(d, x)
      PROVE  WalletInv'
  BY <1>3 DEF DeleteItem, Deletion, Release
<1>4. ASSUME NEW o \in Orders, CancelOrder(o)
      PROVE  WalletInv'
  BY <1>4 DEF CancelOrder, Release
<1>5. ASSUME NEW o \in Orders, DeleteOrder(o)
      PROVE  WalletInv'
  BY <1>5 DEF DeleteOrder
<1>6. ASSUME NEW o \in Orders, ReuseVoucher(o)
      PROVE  WalletInv'
  BY <1>6 DEF ReuseVoucher, Checkout, HoldForCheckout, Reserve, NeedsHold
<1>7. ASSUME NEW o \in Orders, NEW v \in Vouchers, NEW answered \in BOOLEAN, CreateVoucher(o, v,
    answered)
      PROVE  WalletInv'
  BY <1>7 DEF CreateVoucher, Checkout, HoldForCheckout, Reserve, NeedsHold
<1>8. ASSUME NEW v \in Vouchers, NEW address \in {"ok", "bad"}, BuyerApproves(v, address)
      PROVE  WalletInv'
  BY <1>8 DEF BuyerApproves
<1>9. ASSUME ExpireScan
      PROVE  WalletInv'
  BY <1>9 DEF ExpireScan
<1>10. ASSUME NEW o \in Orders, HoldTimesOut(o)
      PROVE  WalletInv'
  BY <1>10 DEF HoldTimesOut
<1>11. ASSUME NEW o \in Orders, ExpireOne(o)
      PROVE  WalletInv'
  BY <1>11 DEF ExpireOne, Release, StillExpired
<1>12. ASSUME NEW s \in Sessions, NEW o \in Orders, ConfirmBegin(s, o)
      PROVE  WalletInv'
  <2> USE DEF ConfirmBegin, StartCapture, Payable, Deliverable
  <2>1. UNCHANGED <<status, paypal_order_id, voucher_status, voucher_address>>
    BY <1>12
  <2>2. \A p \in Orders \ {o} : capture_started'[p] = capture_started[p]
                              /\ address_snapshot'[p] = address_snapshot[p]
    BY <1>12
  <2>3. CASE o \in WalletOrders
    <3>1. address_snapshot'[o] /\ status[o] = "pending_payment"
      BY <1>12, <2>3
    <3>2. paypal_order_id[o] \in Vouchers /\ voucher_status[paypal_order_id[o]] \in {"APPROVED", "COMPLETED"}
      BY <1>12
    <3>3. voucher_address[paypal_order_id[o]] = "ok"
      BY <1>12, <2>3
    <3> QED BY <2>1, <2>2, <3>1, <3>2, <3>3
  <2>4. CASE o \notin WalletOrders
    BY <2>1, <2>2, <2>4
  <2> QED BY <2>3, <2>4
<1>13. ASSUME NEW a \in attempts, ConfirmNothingLeft(a)
      PROVE  WalletInv'
  BY <1>13 DEF ConfirmNothingLeft
<1>14. ASSUME NEW a \in attempts, ConfirmRecord(a)
      PROVE  WalletInv'
  BY <1>14 DEF ConfirmRecord, Capture, GoodsStatus, MayCapture, ActivateBenefits
<1>15. ASSUME NEW a \in attempts, ConfirmAnswerLost(a)
      PROVE  WalletInv'
  BY <1>15 DEF ConfirmAnswerLost, Capture, MayCapture
<1>16. ASSUME NEW a \in attempts, ConfirmAbandoned(a)
      PROVE  WalletInv'
  BY <1>16 DEF ConfirmAbandoned
<1>17. CASE UNCHANGED quietVars
  BY <1>17 DEF quietVars
<1> HIDE DEF PayInv, StockInv, HoldInv, AttemptInv, PrintOrders, TypeOK, Attempt, Captured,
    Matches, PaidFor, Settled, orderVars, holdVars, outcomeVars, payPalVars, jobVars, WalletInv
<1> QED
  BY <1>1, <1>2, <1>3, <1>4, <1>5, <1>6, <1>7, <1>8, <1>9, <1>10, <1>11, <1>12, <1>13, <1>14,
      <1>15, <1>16, <1>17
     DEF Next, CartStep, VoucherStep, ExpiryStep, ConfirmStep, DeletionStep, ReadItem,
         DropDeletion, quietVars, vars, jobVars

LEMMA BackorderInvStep ==
  ASSUME PayInv, StockInv, BackorderInv, TypeOK', [Next]_vars
  PROVE  BackorderInv'
<1> USE VoucherAssumption, KindAssumption DEF PayInv, StockInv, HoldInv, AttemptInv,
    PrintOrders, TypeOK, Attempt, Captured, Matches, PaidFor, Settled, orderVars, holdVars,
    outcomeVars, payPalVars, jobVars, BackorderInv
<1>1. ASSUME NEW o \in Orders, NEW m \in Models, NEW n \in 1..ItemLimit, CreateOrder(o, m, n)
      PROVE  BackorderInv'
  BY <1>1 DEF CreateOrder
<1>2. ASSUME NEW o \in Orders, NEW m \in Models, MergeIntoOrder(o, m)
      PROVE  BackorderInv'
  BY <1>2 DEF MergeIntoOrder, Release
<1>3. ASSUME NEW d \in Deleters, NEW x \in deletions, DeleteItem(d, x)
      PROVE  BackorderInv'
  BY <1>3 DEF DeleteItem, Deletion, Release
<1>4. ASSUME NEW o \in Orders, CancelOrder(o)
      PROVE  BackorderInv'
  BY <1>4 DEF CancelOrder, Release
<1>5. ASSUME NEW o \in Orders, DeleteOrder(o)
      PROVE  BackorderInv'
  BY <1>5 DEF DeleteOrder
<1>6. ASSUME NEW o \in Orders, ReuseVoucher(o)
      PROVE  BackorderInv'
  BY <1>6 DEF ReuseVoucher, Checkout, HoldForCheckout, Reserve, NeedsHold
<1>7. ASSUME NEW o \in Orders, NEW v \in Vouchers, NEW answered \in BOOLEAN, CreateVoucher(o, v,
    answered)
      PROVE  BackorderInv'
  BY <1>7 DEF CreateVoucher, Checkout, HoldForCheckout, Reserve, NeedsHold
<1>8. ASSUME NEW v \in Vouchers, NEW address \in {"ok", "bad"}, BuyerApproves(v, address)
      PROVE  BackorderInv'
  BY <1>8 DEF BuyerApproves
<1>9. ASSUME ExpireScan
      PROVE  BackorderInv'
  BY <1>9 DEF ExpireScan
<1>10. ASSUME NEW o \in Orders, HoldTimesOut(o)
      PROVE  BackorderInv'
  BY <1>10 DEF HoldTimesOut
<1>11. ASSUME NEW o \in Orders, ExpireOne(o)
      PROVE  BackorderInv'
  BY <1>11 DEF ExpireOne, Release, StillExpired
<1>12. ASSUME NEW s \in Sessions, NEW o \in Orders, ConfirmBegin(s, o)
      PROVE  BackorderInv'
  BY <1>12 DEF ConfirmBegin, StartCapture, Payable, Deliverable, Reserve, NeedsHold
<1>13. ASSUME NEW a \in attempts, ConfirmNothingLeft(a)
      PROVE  BackorderInv'
  BY <1>13 DEF ConfirmNothingLeft
<1>14. ASSUME NEW a \in attempts, ConfirmRecord(a)
      PROVE  BackorderInv'
  BY <1>14 DEF ConfirmRecord, Capture, GoodsStatus, MayCapture, ActivateBenefits
<1>15. ASSUME NEW a \in attempts, ConfirmAnswerLost(a)
      PROVE  BackorderInv'
  BY <1>15 DEF ConfirmAnswerLost, Capture, MayCapture
<1>16. ASSUME NEW a \in attempts, ConfirmAbandoned(a)
      PROVE  BackorderInv'
  BY <1>16 DEF ConfirmAbandoned
<1>17. CASE UNCHANGED quietVars
  BY <1>17 DEF quietVars
<1> HIDE DEF PayInv, StockInv, HoldInv, AttemptInv, PrintOrders, TypeOK, Attempt, Captured,
    Matches, PaidFor, Settled, orderVars, holdVars, outcomeVars, payPalVars, jobVars,
    BackorderInv
<1> QED
  BY <1>1, <1>2, <1>3, <1>4, <1>5, <1>6, <1>7, <1>8, <1>9, <1>10, <1>11, <1>12, <1>13, <1>14,
      <1>15, <1>16, <1>17
     DEF Next, CartStep, VoucherStep, ExpiryStep, ConfirmStep, DeletionStep, ReadItem,
         DropDeletion, quietVars, vars, jobVars

LEMMA BackorderIsFlaggedStep ==
  ASSUME PayInv, StockInv, BackorderInv, BackorderIsFlagged, TypeOK', [Next]_vars
  PROVE  BackorderIsFlagged'
<1> USE VoucherAssumption, KindAssumption DEF PayInv, StockInv, HoldInv, AttemptInv,
    PrintOrders, TypeOK, Attempt, Captured, Matches, PaidFor, Settled, orderVars, holdVars,
    outcomeVars, payPalVars, jobVars, BackorderInv, BackorderIsFlagged
<1>1. ASSUME NEW o \in Orders, NEW m \in Models, NEW n \in 1..ItemLimit, CreateOrder(o, m, n)
      PROVE  BackorderIsFlagged'
  BY <1>1 DEF CreateOrder
<1>2. ASSUME NEW o \in Orders, NEW m \in Models, MergeIntoOrder(o, m)
      PROVE  BackorderIsFlagged'
  BY <1>2 DEF MergeIntoOrder, Release
<1>3. ASSUME NEW d \in Deleters, NEW x \in deletions, DeleteItem(d, x)
      PROVE  BackorderIsFlagged'
  BY <1>3 DEF DeleteItem, Deletion, Release
<1>4. ASSUME NEW o \in Orders, CancelOrder(o)
      PROVE  BackorderIsFlagged'
  BY <1>4 DEF CancelOrder, Release
<1>5. ASSUME NEW o \in Orders, DeleteOrder(o)
      PROVE  BackorderIsFlagged'
  BY <1>5 DEF DeleteOrder
<1>6. ASSUME NEW o \in Orders, ReuseVoucher(o)
      PROVE  BackorderIsFlagged'
  BY <1>6 DEF ReuseVoucher, Checkout, HoldForCheckout, Reserve, NeedsHold
<1>7. ASSUME NEW o \in Orders, NEW v \in Vouchers, NEW answered \in BOOLEAN, CreateVoucher(o, v,
    answered)
      PROVE  BackorderIsFlagged'
  BY <1>7 DEF CreateVoucher, Checkout, HoldForCheckout, Reserve, NeedsHold
<1>8. ASSUME NEW v \in Vouchers, NEW address \in {"ok", "bad"}, BuyerApproves(v, address)
      PROVE  BackorderIsFlagged'
  BY <1>8 DEF BuyerApproves
<1>9. ASSUME ExpireScan
      PROVE  BackorderIsFlagged'
  BY <1>9 DEF ExpireScan
<1>10. ASSUME NEW o \in Orders, HoldTimesOut(o)
      PROVE  BackorderIsFlagged'
  BY <1>10 DEF HoldTimesOut
<1>11. ASSUME NEW o \in Orders, ExpireOne(o)
      PROVE  BackorderIsFlagged'
  BY <1>11 DEF ExpireOne, Release, StillExpired
<1>12. ASSUME NEW s \in Sessions, NEW o \in Orders, ConfirmBegin(s, o)
      PROVE  BackorderIsFlagged'
  BY <1>12 DEF ConfirmBegin, StartCapture, Payable, Deliverable, Reserve, NeedsHold
<1>13. ASSUME NEW a \in attempts, ConfirmNothingLeft(a)
      PROVE  BackorderIsFlagged'
  BY <1>13 DEF ConfirmNothingLeft
<1>14. ASSUME NEW a \in attempts, ConfirmRecord(a)
      PROVE  BackorderIsFlagged'
  BY <1>14 DEF ConfirmRecord, Capture, GoodsStatus, MayCapture, ActivateBenefits
<1>15. ASSUME NEW a \in attempts, ConfirmAnswerLost(a)
      PROVE  BackorderIsFlagged'
  BY <1>15 DEF ConfirmAnswerLost, Capture, MayCapture
<1>16. ASSUME NEW a \in attempts, ConfirmAbandoned(a)
      PROVE  BackorderIsFlagged'
  BY <1>16 DEF ConfirmAbandoned
<1>17. CASE UNCHANGED quietVars
  BY <1>17 DEF quietVars
<1> HIDE DEF PayInv, StockInv, HoldInv, AttemptInv, PrintOrders, TypeOK, Attempt, Captured,
    Matches, PaidFor, Settled, orderVars, holdVars, outcomeVars, payPalVars, jobVars,
    BackorderInv, BackorderIsFlagged
<1> QED
  BY <1>1, <1>2, <1>3, <1>4, <1>5, <1>6, <1>7, <1>8, <1>9, <1>10, <1>11, <1>12, <1>13, <1>14,
      <1>15, <1>16, <1>17
     DEF Next, CartStep, VoucherStep, ExpiryStep, ConfirmStep, DeletionStep, ReadItem,
         DropDeletion, quietVars, vars, jobVars

-----------------------------------------------------------------------------
(* Theorems.                                                                 *)

\* The money of a wallet order is only taken once a deliverable address is
\* saved, and no later approval replaces it.
THEOREM WalletHasAddress == Spec => []WalletCaptureHasAddress
<1>1. Init => WalletInv
  BY KindAssumption DEF Init, WalletInv
<1>2. PayInv /\ StockInv /\ PayInv' /\ WalletInv /\ [Next]_vars => WalletInv'
  BY WalletInvStep DEF PayInv
<1>3. PayInv /\ WalletInv => WalletCaptureHasAddress
  BY KindAssumption DEF PayInv, ChargeInv, WalletInv, WalletCaptureHasAddress
<1> QED BY <1>1, <1>2, <1>3, PayInvariant, StockInvariant, PTL DEF Spec

\* An order paid without units in stock is marked, whatever other
\* confirmations of it saw of the stock.
THEOREM BackorderFlagged == Spec => []BackorderIsFlagged
<1>1. Init => BackorderInv /\ BackorderIsFlagged
  BY DEF Init, BackorderInv, BackorderIsFlagged, PrintOrders
<1>2. PayInv /\ StockInv /\ PayInv' /\ BackorderInv /\ [Next]_vars => BackorderInv'
  BY BackorderInvStep DEF PayInv
<1>3. PayInv /\ StockInv /\ PayInv' /\ BackorderInv /\ BackorderIsFlagged /\ [Next]_vars
        => BackorderIsFlagged'
  BY BackorderIsFlaggedStep DEF PayInv
<1> QED BY <1>1, <1>2, <1>3, PayInvariant, StockInvariant, PTL DEF Spec

-----------------------------------------------------------------------------
(* OrderPayment implements the abstract checkout.                            *)

\* PayPal has captured a payment for order o.
ChargedFor(o) == \E v \in Vouchers : voucher_order[v] = o /\ Captured(v)

\* The phases as the abstract specification sees them.
Phase == [o \in Orders |-> PhaseOf(o)]

\* The phase of an order depends on its status and its charge only.
LEMMA SamePhase ==
  ASSUME NEW p \in Orders, status'[p] = status[p], ChargedFor(p)' <=> ChargedFor(p)
  PROVE  PhaseOf(p)' = PhaseOf(p)
BY DEF PhaseOf, ChargedFor

LEMMA PhasesStay ==
  ASSUME \A p \in Orders : PhaseOf(p)' = PhaseOf(p)
  PROVE  Phase' = Phase
BY DEF Phase

LEMMA OnePhaseMoves ==
  ASSUME NEW o \in Orders, NEW to, PhaseOf(o)' = to,
         \A p \in Orders \ {o} : PhaseOf(p)' = PhaseOf(p)
  PROVE  Phase[o] = PhaseOf(o) /\ Phase' = [Phase EXCEPT ![o] = to]
BY DEF Phase

LEMMA ChargesStay ==
  ASSUME UNCHANGED <<voucher_status, voucher_order>>, NEW p \in Orders
  PROVE  ChargedFor(p)' <=> ChargedFor(p)
BY DEF ChargedFor, Captured

\* An unpaid order that no capture has been started for is open.
LEMMA UnmarkedIsOpen ==
  ASSUME PayInv, Legacy = {}, NEW o \in Orders, ~capture_started[o],
         status[o] = "pending_payment"
  PROVE  PhaseOf(o) = "open" /\ ~ChargedFor(o)
<1>1. ~ChargedFor(o)
  BY DEF PayInv, ChargeInv, ChargedFor
<1> QED BY <1>1 DEF PhaseOf, ChargedFor

\* An order closed by its buyer, with everything else about it unchanged.
LEMMA ClosingIsClose ==
  ASSUME PayInv, Legacy = {}, NEW o \in Orders, ~capture_started[o],
         status[o] = "pending_payment", status' = [status EXCEPT ![o] = "cancelled"],
         UNCHANGED <<voucher_status, voucher_order>>
  PROVE  Abstract!Close(o)
<1>1. PhaseOf(o) = "open"
  BY UnmarkedIsOpen
<1>2. PhaseOf(o)' = "closed"
  BY DEF PhaseOf, PayInv, TypeOK
<1>3. \A p \in Orders \ {o} : PhaseOf(p)' = PhaseOf(p)
  BY ChargesStay, SamePhase DEF PayInv, TypeOK
<1>4. Phase[o] = "open" /\ Phase' = [Phase EXCEPT ![o] = "closed"]
  BY <1>1, <1>2, <1>3, OnePhaseMoves
<1> QED BY <1>4 DEF Abstract!Close, Abstract!Move, Phase

\* A step that changes neither a status nor a charge moves no phase.
LEMMA QuietStep ==
  ASSUME UNCHANGED <<status, voucher_status, voucher_order>>
  PROVE  Phase' = Phase
<1>1. \A p \in Orders : PhaseOf(p)' = PhaseOf(p)
  BY ChargesStay, SamePhase
<1> QED BY <1>1, PhasesStay

\* A cart step leaves the phases alone or closes an open order.
LEMMA CartRefines ==
  ASSUME PayInv, Legacy = {}, CartStep
  PROVE  Phase' = Phase \/ \E o \in Orders : Abstract!Close(o)
<1>1. ASSUME NEW o \in Orders, NEW m \in Models, NEW n \in 1..ItemLimit, CreateOrder(o, m, n)
      PROVE  Phase' = Phase
  <2>1. PhaseOf(o)' = PhaseOf(o)
    <3>1. status[o] = "absent" /\ status'[o] = "pending_payment"
      BY <1>1 DEF CreateOrder, PayInv, TypeOK
    <3>2. ChargedFor(o)' <=> ChargedFor(o)
      BY <1>1, ChargesStay DEF CreateOrder, payPalVars
    <3> QED BY <3>1, <3>2 DEF PhaseOf, ChargedFor
  <2>2. \A p \in Orders \ {o} : PhaseOf(p)' = PhaseOf(p)
    BY <1>1, ChargesStay, SamePhase DEF CreateOrder, payPalVars, PayInv, TypeOK
  <2> QED BY <2>1, <2>2, PhasesStay
<1>2. ASSUME NEW o \in Orders, NEW m \in Models, MergeIntoOrder(o, m)
      PROVE  Phase' = Phase
  BY <1>2, QuietStep DEF MergeIntoOrder, payPalVars
<1>4. ASSUME NEW o \in Orders, CancelOrder(o)
      PROVE  Abstract!Close(o)
  BY <1>4, ClosingIsClose DEF CancelOrder, Release, payPalVars
<1>5. ASSUME NEW o \in Orders, DeleteOrder(o)
      PROVE  Phase' = Phase
  <2>1. PhaseOf(o)' = "closed" /\ PhaseOf(o) = "closed"
    BY <1>5 DEF DeleteOrder, PhaseOf, PayInv, TypeOK
  <2>2. \A p \in Orders \ {o} : PhaseOf(p)' = PhaseOf(p)
    BY <1>5, ChargesStay, SamePhase DEF DeleteOrder, payPalVars, PayInv, TypeOK
  <2> QED BY <2>1, <2>2, PhasesStay
<1> QED BY <1>1, <1>2, <1>4, <1>5 DEF CartStep

\* So does the deletion of an item; reading it, or giving up, does nothing.
LEMMA DeletionRefines ==
  ASSUME PayInv, Legacy = {}, DeletionStep
  PROVE  Phase' = Phase \/ \E o \in Orders : Abstract!Close(o)
<1>1. ASSUME NEW d \in Deleters, NEW x \in deletions, DeleteItem(d, x)
      PROVE  Phase' = Phase \/ \E o \in Orders : Abstract!Close(o)
  <2>1. x.order \in Orders
    BY DEF PayInv, TypeOK, Deletion
  <2>2. CASE items'[x.order] = Empty
    <3>1. Abstract!Close(x.order)
      BY <1>1, <2>1, <2>2, ClosingIsClose DEF DeleteItem, Release, payPalVars
    <3> QED BY <2>1, <3>1
  <2>3. CASE items'[x.order] # Empty
    BY <1>1, <2>3, QuietStep DEF DeleteItem, payPalVars
  <2> QED BY <2>2, <2>3
<1>2. ASSUME UNCHANGED <<orderVars, payPalVars>>
      PROVE  Phase' = Phase
  BY <1>2, QuietStep DEF orderVars, payPalVars
<1> QED BY <1>1, <1>2 DEF DeletionStep, ReadItem, DropDeletion

\* A voucher created or approved charges nobody.
LEMMA VoucherRefines ==
  ASSUME PayInv, VoucherStep
  PROVE  Phase' = Phase
<1>1. ASSUME NEW o \in Orders, ReuseVoucher(o) PROVE Phase' = Phase
  BY <1>1, QuietStep DEF ReuseVoucher, orderVars, payPalVars
<1>2. ASSUME NEW o \in Orders, NEW v \in Vouchers, NEW answered \in BOOLEAN,
             CreateVoucher(o, v, answered)
      PROVE  Phase' = Phase
  <2>1. \A p \in Orders : ChargedFor(p)' <=> ChargedFor(p)
    BY <1>2 DEF CreateVoucher, ChargedFor, Captured, PayInv, TypeOK
  <2>2. status' = status
    BY <1>2 DEF CreateVoucher
  <2> QED BY <2>1, <2>2, SamePhase, PhasesStay
<1>3. ASSUME NEW v \in Vouchers, NEW address \in {"ok", "bad"}, BuyerApproves(v, address)
      PROVE  Phase' = Phase
  <2>1. \A p \in Orders : ChargedFor(p)' <=> ChargedFor(p)
    BY <1>3 DEF BuyerApproves, ChargedFor, Captured, PayInv, TypeOK
  <2>2. status' = status
    BY <1>3 DEF BuyerApproves, orderVars
  <2> QED BY <2>1, <2>2, SamePhase, PhasesStay
<1> QED BY <1>1, <1>2, <1>3 DEF VoucherStep

LEMMA ExpiryRefines ==
  ASSUME ExpiryStep
  PROVE  Phase' = Phase
BY QuietStep DEF ExpiryStep, ExpireScan, HoldTimesOut, ExpireOne, orderVars, payPalVars

\* The order of a confirmation that captures is unpaid: a paid one has nothing
\* left to capture.
LEMMA CapturesUnpaid ==
  ASSUME PayInv, RecordsUnpaid, NEW a \in attempts, ConfirmRecord(a) \/ ConfirmAnswerLost(a)
  PROVE  a.order \in Orders /\ a.voucher \in Vouchers /\ status[a.order] = "pending_payment"
<1>1. a.order \in Orders /\ a.voucher \in Vouchers
  BY DEF PayInv, TypeOK, Attempt
<1>2. status[a.order] \in {"pending_payment"} \cup PaidFor
  BY DEF PayInv, AttemptInv
<1>3. ConfirmAnswerLost(a) => status[a.order] \notin PaidFor
  BY <1>1 DEF ConfirmAnswerLost, PayInv, PaidMeansCharged, Captured
<1> QED BY <1>1, <1>2, <1>3 DEF RecordsUnpaid

\* A confirmation charges an open order, or settles one it charged or charges.
LEMMA ConfirmRefines ==
  ASSUME PayInv, RecordsUnpaid, Legacy = {}, ConfirmStep
  PROVE  Phase' = Phase \/ \E o \in Orders : Abstract!Charge(o) \/ Abstract!Settle(o)
<1>1. ASSUME NEW s \in Sessions, NEW o \in Orders, ConfirmBegin(s, o)
      PROVE  Phase' = Phase
  BY <1>1, QuietStep DEF ConfirmBegin, payPalVars
<1>2. ASSUME NEW a \in attempts, ConfirmNothingLeft(a) PROVE Phase' = Phase
  BY <1>2, QuietStep DEF ConfirmNothingLeft, orderVars, payPalVars
<1>3. ASSUME NEW a \in attempts, ConfirmRecord(a)
      PROVE  a.order \in Orders /\ Abstract!Settle(a.order)
  <2> DEFINE o == a.order
  <2>1. o \in Orders /\ a.voucher \in Vouchers /\ status[o] = "pending_payment"
    BY <1>3, CapturesUnpaid
  <2>2. PhaseOf(o) \in {"open", "charged"}
    BY <2>1 DEF PhaseOf
  <2>3. PhaseOf(o)' = "settled"
    BY <1>3, <2>1 DEF ConfirmRecord, PhaseOf, PayInv, TypeOK
  <2>4. \A p \in Orders \ {o} : ChargedFor(p)' <=> ChargedFor(p)
    <3>1. voucher_order[a.voucher] = o
      BY <1>3, <2>1 DEF ConfirmRecord, Matches
    <3>2. voucher_order' = voucher_order
      BY <1>3 DEF ConfirmRecord
    <3>3. \A v \in Vouchers \ {a.voucher} : voucher_status'[v] = voucher_status[v]
      BY <1>3, <2>1 DEF ConfirmRecord, Capture, PayInv, TypeOK
    <3> QED BY <2>1, <3>1, <3>2, <3>3 DEF ChargedFor, Captured
  <2>5. \A p \in Orders \ {o} : PhaseOf(p)' = PhaseOf(p)
    BY <1>3, <2>1, <2>4, SamePhase DEF ConfirmRecord, PayInv, TypeOK
  <2>6. Phase[o] \in {"open", "charged"} /\ Phase' = [Phase EXCEPT ![o] = "settled"]
    BY <2>1, <2>2, <2>3, <2>5, OnePhaseMoves
  <2> QED BY <2>1, <2>6 DEF Abstract!Settle, Abstract!Move, Phase
<1>4. ASSUME NEW a \in attempts, ConfirmAnswerLost(a)
      PROVE  a.order \in Orders /\ Abstract!Charge(a.order)
  <2> DEFINE o == a.order
  <2>1. o \in Orders /\ a.voucher \in Vouchers /\ status[o] = "pending_payment"
    BY <1>4, CapturesUnpaid
  <2>2. voucher_order' = voucher_order /\ status' = status
    BY <1>4 DEF ConfirmAnswerLost, orderVars
  <2>3. voucher_status'[a.voucher] = "COMPLETED"
    BY <1>4, <2>1 DEF ConfirmAnswerLost, Capture, PayInv, TypeOK
  <2>4. \A v \in Vouchers \ {a.voucher} : voucher_status'[v] = voucher_status[v]
    BY <1>4, <2>1 DEF ConfirmAnswerLost, Capture, PayInv, TypeOK
  <2>5. voucher_order[a.voucher] = o /\ paypal_order_id[o] = a.voucher
        /\ voucher_status[a.voucher] = "APPROVED"
    BY <1>4 DEF ConfirmAnswerLost, PayInv, AttemptInv, Matches
  <2>6. ~ChargedFor(o)
    BY <2>1, <2>5 DEF ChargedFor, Captured, PayInv, ChargeInv
  <2>7. PhaseOf(o) = "open"
    BY <2>1, <2>6 DEF PhaseOf, ChargedFor
  <2>8. ChargedFor(o)'
    BY <2>1, <2>2, <2>3, <2>5 DEF ChargedFor, Captured
  <2>9. PhaseOf(o)' = "charged"
    BY <2>1, <2>2, <2>8 DEF PhaseOf, ChargedFor
  <2>10. \A p \in Orders \ {o} : ChargedFor(p)' <=> ChargedFor(p)
    BY <2>1, <2>2, <2>4, <2>5 DEF ChargedFor, Captured
  <2>11. \A p \in Orders \ {o} : PhaseOf(p)' = PhaseOf(p)
    BY <2>2, <2>10, SamePhase
  <2>12. Phase[o] = "open" /\ Phase' = [Phase EXCEPT ![o] = "charged"]
    BY <2>1, <2>7, <2>9, <2>11, OnePhaseMoves
  <2> QED BY <2>1, <2>12 DEF Abstract!Charge, Abstract!Move, Phase
<1>5. ASSUME NEW a \in attempts, ConfirmAbandoned(a) PROVE Phase' = Phase
  BY <1>5, QuietStep DEF ConfirmAbandoned, orderVars, payPalVars
<1> QED BY <1>1, <1>2, <1>3, <1>4, <1>5 DEF ConfirmStep

LEMMA InitRefines ==
  ASSUME Legacy = {}, Init
  PROVE  Abstract!Init
<1>1. \A v \in Vouchers : voucher_order[v] = NoVoucher /\ ~Captured(v)
  BY DEF Init, Captured
<1>2. \A o \in Orders : PhaseOf(o) = "open"
  BY <1>1 DEF Init, PhaseOf
<1> QED BY <1>2 DEF Abstract!Init

LEMMA StepRefines ==
  ASSUME PayInv, RecordsUnpaid, Legacy = {}, [Next]_vars
  PROVE  [Abstract!Next]_Phase
<1>1. CASE UNCHANGED vars
  BY <1>1, QuietStep DEF vars, orderVars, payPalVars
<1>2. CASE Next
  BY <1>2, CartRefines, DeletionRefines, VoucherRefines, ExpiryRefines,
        ConfirmRefines
     DEF Next, Abstract!Next
<1> QED BY <1>1, <1>2

\* Every behaviour of the order code is one of the abstract checkout, for
\* every number of orders, vouchers and concurrent confirmations.
THEOREM OrderImplementsCheckout ==
  ASSUME Legacy = {}
  PROVE  Spec => ImplementsCheckout
<1>1. Init => Abstract!Init
  BY InitRefines
<1>2. PayInv /\ StockInv /\ [Next]_vars => [Abstract!Next]_Phase
  BY HoldIsUnits, StepRefines DEF StockInv
<1> QED BY <1>1, <1>2, PayInvariant, StockInvariant, PTL
        DEF Spec, ImplementsCheckout, Abstract!Spec, Phase

-----------------------------------------------------------------------------
(* Review, production and refund: the charge argument is carried through,    *)
(* for every number of concurrent confirmations.  None of these steps        *)
(* unbinds a voucher or edits a basket, and they move a paid order among the *)
(* statuses of PaidFor only.                                                 *)

\* What the refund adds to the invariant.
RefundInv ==
    /\ refund_status \in [Orders -> RefundStatuses]
    /\ refund_known \in [Orders -> BOOLEAN]
    /\ refund_window \in [Orders -> {"none", "open", "closed"}]
    /\ voucher_refund \in [Vouchers -> PayPalRefunds]
    /\ RefundedMoneyWentBack

FigureInv == PayInv /\ RefundInv

\* No step before the review makes an order refunded, or unbinds one that is.
KeepsRefunded ==
    \A p \in Orders : status'[p] = "refunded" =>
        status[p] = "refunded" /\ paypal_order_id'[p] = paypal_order_id[p]

LEMMA CheckoutKeepsRefunded ==
  ASSUME TypeOK, TypeOK', [Next]_vars
  PROVE  KeepsRefunded
<1> USE VoucherAssumption, KindAssumption DEF KeepsRefunded, Idle, TypeOK, Attempt, Captured,
    Matches, PaidFor, Settled, orderVars, holdVars, outcomeVars, payPalVars, jobVars
<1>1. ASSUME NEW o \in Orders, NEW m \in Models, NEW n \in 1..ItemLimit, CreateOrder(o, m, n)
      PROVE  KeepsRefunded
  BY <1>1 DEF CreateOrder
<1>2. ASSUME NEW o \in Orders, NEW m \in Models, MergeIntoOrder(o, m)
      PROVE  KeepsRefunded
  BY <1>2 DEF MergeIntoOrder, Release
<1>3. ASSUME NEW d \in Deleters, NEW x \in deletions, DeleteItem(d, x)
      PROVE  KeepsRefunded
  BY <1>3 DEF DeleteItem, Deletion, Release
<1>4. ASSUME NEW o \in Orders, CancelOrder(o)
      PROVE  KeepsRefunded
  BY <1>4 DEF CancelOrder, Release
<1>5. ASSUME NEW o \in Orders, DeleteOrder(o)
      PROVE  KeepsRefunded
  BY <1>5 DEF DeleteOrder
<1>6. ASSUME NEW o \in Orders, ReuseVoucher(o)
      PROVE  KeepsRefunded
  BY <1>6 DEF ReuseVoucher, Checkout, HoldForCheckout, Reserve, NeedsHold
<1>7. ASSUME NEW o \in Orders, NEW v \in Vouchers, NEW answered \in BOOLEAN, CreateVoucher(o, v,
    answered)
      PROVE  KeepsRefunded
  BY <1>7 DEF CreateVoucher, Checkout, HoldForCheckout, Reserve, NeedsHold
<1>8. ASSUME NEW v \in Vouchers, NEW address \in {"ok", "bad"}, BuyerApproves(v, address)
      PROVE  KeepsRefunded
  BY <1>8 DEF BuyerApproves
<1>9. ASSUME ExpireScan
      PROVE  KeepsRefunded
  BY <1>9 DEF ExpireScan
<1>10. ASSUME NEW o \in Orders, HoldTimesOut(o)
      PROVE  KeepsRefunded
  BY <1>10 DEF HoldTimesOut
<1>11. ASSUME NEW o \in Orders, ExpireOne(o)
      PROVE  KeepsRefunded
  BY <1>11 DEF ExpireOne, Release, StillExpired
<1>12. ASSUME NEW s \in Sessions, NEW o \in Orders, ConfirmBegin(s, o)
      PROVE  KeepsRefunded
  BY <1>12 DEF ConfirmBegin, StartCapture, Payable, Deliverable, Reserve, NeedsHold
<1>13. ASSUME NEW a \in attempts, ConfirmNothingLeft(a)
      PROVE  KeepsRefunded
  BY <1>13 DEF ConfirmNothingLeft
<1>14. ASSUME NEW a \in attempts, ConfirmRecord(a)
      PROVE  KeepsRefunded
  BY <1>14 DEF ConfirmRecord, Capture, GoodsStatus, MayCapture, ActivateBenefits
<1>15. ASSUME NEW a \in attempts, ConfirmAnswerLost(a)
      PROVE  KeepsRefunded
  BY <1>15 DEF ConfirmAnswerLost, Capture, MayCapture
<1>16. ASSUME NEW a \in attempts, ConfirmAbandoned(a)
      PROVE  KeepsRefunded
  BY <1>16 DEF ConfirmAbandoned
<1>17. CASE UNCHANGED quietVars
  BY <1>17 DEF quietVars
<1> HIDE DEF Idle, TypeOK, Attempt, Captured, Matches, PaidFor, Settled, orderVars, holdVars,
    outcomeVars, payPalVars, jobVars
<1> QED
  BY <1>1, <1>2, <1>3, <1>4, <1>5, <1>6, <1>7, <1>8, <1>9, <1>10, <1>11, <1>12, <1>13, <1>14,
      <1>15, <1>16, <1>17
     DEF Next, CartStep, VoucherStep, ExpiryStep, ConfirmStep, DeletionStep, ReadItem,
         DropDeletion, quietVars, vars, jobVars

-----------------------------------------------------------------------------
(* The steps after the payment.                                              *)

\* What every step of the review and the refund leaves alone.
Aftercare ==
    /\ UNCHANGED <<items, price, paypal_order_id, capture_started, payPalVars, attempts>>
    /\ \A o \in Orders : status'[o] # status[o] =>
           status[o] \in PaidFor /\ status'[o] \in PaidFor

\* Such a step keeps every part of the charge argument.
LEMMA AftercareKeepsPayInv ==
  ASSUME PayInv, Aftercare, TypeOK'
  PROVE  PayInv'
<1> USE DEF Aftercare, PayInv, payPalVars
<1>1. VoucherInv'
  BY DEF VoucherInv
<1>2. AttemptInv'
  BY DEF AttemptInv, Matches, Captured, TypeOK, Attempt
<1>3. ChargeInv'
  BY DEF ChargeInv, Captured
<1>4. PaidMeansCharged'
  BY DEF PaidMeansCharged, Captured
<1>5. PriceInv'
  BY DEF PriceInv
<1> QED BY <1>1, <1>2, <1>3, <1>4, <1>5

\* The types of what _apply_refund writes.
LEMMA ApplyType ==
  ASSUME FigureTypeOK, NEW o \in Orders, NEW answer \in {"PENDING", "FAILED", "COMPLETED"},
         Apply(o, answer)
  PROVE  /\ refund_status' \in [Orders -> RefundStatuses]
         /\ refund_known' \in [Orders -> BOOLEAN]
         /\ refund_window' = refund_window
         /\ status' \in [Orders -> Statuses]
         /\ stock' \in [Models -> Nat]
         /\ inventory_consumed' \in [Orders -> BOOLEAN]
         /\ \A p \in Orders \ {o} : status'[p] = status[p]
         /\ status'[o] = IF answer = "COMPLETED" THEN "refunded" ELSE status[o]
<1> USE DEF Apply, Returned, FigureTypeOK, TypeOK
<1>1. refund_status' \in [Orders -> RefundStatuses]
  <2>1. CASE answer = "COMPLETED"
    BY <2>1 DEF RefundStatuses
  <2>2. CASE answer = "PENDING"
    BY <2>2 DEF RefundStatuses
  <2>3. CASE answer = "FAILED"
    BY <2>3 DEF RefundStatuses
  <2> QED BY <2>1, <2>2, <2>3
<1>2. stock' \in [Models -> Nat] /\ inventory_consumed' \in [Orders -> BOOLEAN]
  <2>1. items[o] \in [Models -> Nat] /\ stock \in [Models -> Nat]
    BY DEF Basket
  <2>2. [m \in Models |-> stock[m] + items[o][m]] \in [Models -> Nat]
    BY <2>1
  <2>3. CASE answer = "COMPLETED"
    BY <2>1, <2>2, <2>3 DEF Restock
  <2>4. CASE answer # "COMPLETED"
    BY <2>4
  <2> QED BY <2>3, <2>4
<1>3. status' \in [Orders -> Statuses] /\ refund_known' \in [Orders -> BOOLEAN]
  BY DEF Statuses
<1> QED BY <1>1, <1>2, <1>3

LEMMA ReviewKeepsInv ==
  ASSUME FigureInv, ReviewStep
  PROVE  FigureInv'
<1> USE DEF FigureInv, RefundInv, PayInv, TypeOK, Statuses, RefundStatuses, orderVars, holdVars,
            outcomeVars, payPalVars, jobVars, refundVars
<1>1. ASSUME NEW o \in Orders, Approve(o) PROVE FigureInv'
  <2>1. TypeOK' /\ RefundInv'
    BY <1>1 DEF Approve, RefundedMoneyWentBack
  <2>2. Aftercare
    BY <1>1 DEF Approve, Aftercare
  <2> QED BY <2>1, <2>2, AftercareKeepsPayInv
<1>2. ASSUME NEW o \in Orders, Reject(o) PROVE FigureInv'
  <2>1. TypeOK' /\ RefundInv'
    BY <1>2 DEF Reject, RefundedMoneyWentBack
  <2>2. Aftercare
    BY <1>2 DEF Reject, Aftercare, AwaitsReview, PaidFor, Settled
  <2> QED BY <2>1, <2>2, AftercareKeepsPayInv
<1>3. ASSUME NEW o \in Orders, Produce(o) PROVE FigureInv'
  <2>1. TypeOK' /\ RefundInv'
    <3>1. /\ status' \in [Orders -> Statuses]
          /\ goods_status' \in [Orders -> {"none", "awaiting_review", "awaiting_stock",
                 "preparing", "printing", "shipping", "completed", "rejected"}]
          /\ \A p \in Orders : status'[p] = "refunded" => status[p] = "refunded"
      BY <1>3 DEF Produce
    <3> QED BY <1>3, <3>1 DEF Produce, RefundedMoneyWentBack
  <2>2. Aftercare
    BY <1>3 DEF Produce, Aftercare, PaidFor, Settled
  <2> QED BY <2>1, <2>2, AftercareKeepsPayInv
<1> QED BY <1>1, <1>2, <1>3 DEF ReviewStep

\* A refund step that leaves the order's status and the voucher's refund.
LEMMA RefundNoted ==
  ASSUME FigureInv, RefundFrame, refund_status' \in [Orders -> RefundStatuses],
         UNCHANGED <<status, stock, inventory_consumed, refund_known, refund_window>>,
         voucher_refund' \in [Vouchers -> PayPalRefunds],
         \A v \in Vouchers : voucher_refund[v] = "COMPLETED" => voucher_refund'[v] = "COMPLETED"
  PROVE  FigureInv'
<1> USE DEF FigureInv, RefundInv, PayInv, TypeOK, RefundFrame, outcomeVars, payPalVars, jobVars
<1>1. TypeOK'
  OBVIOUS
<1>2. Aftercare
  BY DEF Aftercare
<1>3. RefundedMoneyWentBack'
  BY DEF RefundedMoneyWentBack, PaidMeansCharged, PaidFor
<1> QED BY <1>1, <1>2, <1>3, AftercareKeepsPayInv

\* A refund step that applies PayPal's answer, which is what PayPal did.
LEMMA RefundApplied ==
  ASSUME FigureInv, RefundFrame, NEW o \in Orders, Refundable(o),
         NEW answer \in {"PENDING", "FAILED", "COMPLETED"}, Apply(o, answer),
         voucher_refund' \in [Vouchers -> PayPalRefunds],
         voucher_refund'[paypal_order_id[o]] = answer,
         \A v \in Vouchers : voucher_refund[v] = "COMPLETED" => voucher_refund'[v] = "COMPLETED"
  PROVE  FigureInv'
<1>1. FigureTypeOK
  BY DEF FigureInv, RefundInv, PayInv, FigureTypeOK
<1>2. /\ refund_status' \in [Orders -> RefundStatuses]
      /\ refund_known' \in [Orders -> BOOLEAN]
      /\ refund_window' = refund_window
      /\ status' \in [Orders -> Statuses]
      /\ stock' \in [Models -> Nat]
      /\ inventory_consumed' \in [Orders -> BOOLEAN]
      /\ \A p \in Orders \ {o} : status'[p] = status[p]
      /\ status'[o] = IF answer = "COMPLETED" THEN "refunded" ELSE status[o]
  BY <1>1, ApplyType
<1> USE DEF RefundFrame, outcomeVars, payPalVars, jobVars
<1>3. TypeOK'
  BY <1>1, <1>2 DEF FigureTypeOK, TypeOK
<1>4. Aftercare
  BY <1>2 DEF Aftercare, Refundable, PaidFor
<1>5. RefundedMoneyWentBack'
  <2> SUFFICES ASSUME NEW p \in Orders, status'[p] = "refunded"
               PROVE  voucher_refund'[paypal_order_id[p]] = "COMPLETED"
    BY DEF RefundedMoneyWentBack
  <2>1. CASE p = o
    BY <1>2, <2>1 DEF Refundable
  <2>2. CASE p # o
    BY <1>2, <2>2 DEF FigureInv, RefundInv, RefundedMoneyWentBack, PayInv, PaidMeansCharged, PaidFor
  <2> QED BY <2>1, <2>2
<1> QED BY <1>1, <1>2, <1>3, <1>4, <1>5, AftercareKeepsPayInv DEF FigureInv, RefundInv, FigureTypeOK

LEMMA RefundKeepsInv ==
  ASSUME FigureInv, RefundStep
  PROVE  FigureInv'
<1>1. ASSUME NEW o \in Orders PROVE Refundable(o) => paypal_order_id[o] \in Vouchers
  BY <1>1 DEF Refundable, FigureInv, PayInv, PaidMeansCharged, PaidFor
<1>2. /\ voucher_refund \in [Vouchers -> PayPalRefunds]
      /\ refund_status \in [Orders -> RefundStatuses]
  BY DEF FigureInv, RefundInv
<1>3. ASSUME NEW o \in Orders, AdoptRefund(o) PROVE FigureInv'
  BY <1>1, <1>2, <1>3, RefundApplied DEF AdoptRefund
<1>4. ASSUME NEW o \in Orders, NEW outcome \in {"PENDING", "FAILED", "COMPLETED"},
             NEW answer \in {"read", "lost", "crash"}, PostRefund(o, outcome, answer)
      PROVE  FigureInv'
  <2>1. /\ voucher_refund' \in [Vouchers -> PayPalRefunds]
        /\ voucher_refund'[paypal_order_id[o]] = outcome
        /\ \A v \in Vouchers : voucher_refund[v] = "COMPLETED" => voucher_refund'[v] = "COMPLETED"
    BY <1>1, <1>2, <1>4 DEF PostRefund, PayPalRefunds
  <2>2. CASE answer = "read"
    BY <1>4, <2>1, <2>2, RefundApplied DEF PostRefund
  <2>3. CASE answer # "read"
    BY <1>2, <1>4, <2>1, <2>3, RefundNoted DEF PostRefund, Unconfirmed, RefundStatuses
  <2> QED BY <2>2, <2>3
<1>5. ASSUME NEW o \in Orders, RefundUnconfirmed(o) \/ RefundNeedsPerson(o) PROVE FigureInv'
  BY <1>2, <1>5, RefundNoted
     DEF RefundUnconfirmed, RefundNeedsPerson, Unconfirmed, RefundStatuses
<1>6. ASSUME UNCHANGED <<vars, refund_status, refund_known>>,
             refund_window' \in [Orders -> {"none", "open", "closed"}],
             voucher_refund' \in [Vouchers -> PayPalRefunds],
             \A v \in Vouchers : voucher_refund[v] = "COMPLETED" => voucher_refund'[v] = "COMPLETED"
      PROVE  FigureInv'
  <2> USE <1>6 DEF vars, orderVars, holdVars, outcomeVars, payPalVars, jobVars
  <2>1. PayInv'
    BY PayInvStep DEF FigureInv
  <2>2. RefundedMoneyWentBack'
    BY DEF FigureInv, RefundInv, RefundedMoneyWentBack, PayInv, PaidMeansCharged, PaidFor
  <2> QED BY <2>1, <2>2 DEF FigureInv, RefundInv
<1>7. ASSUME NEW o \in Orders, RefundWindowCloses(o) PROVE FigureInv'
  BY <1>2, <1>6, <1>7 DEF RefundWindowCloses, FigureInv, RefundInv
<1>8. ASSUME NEW o \in Orders, NEW outcome \in PayPalRefunds, SupportRefunds(o, outcome)
      PROVE  FigureInv'
  BY <1>2, <1>6, <1>8 DEF SupportRefunds, PayPalRefunds, FigureInv, RefundInv
<1>9. ASSUME NEW v \in Vouchers, NEW outcome \in PayPalRefunds, PayPalSettlesRefund(v, outcome)
      PROVE  FigureInv'
  BY <1>2, <1>6, <1>9 DEF PayPalSettlesRefund, FigureInv, RefundInv
<1> QED BY <1>3, <1>4, <1>5, <1>7, <1>8, <1>9 DEF RefundStep, ProcessRefund

LEMMA CheckoutKeepsInv ==
  ASSUME FigureInv, Next, UNCHANGED refundVars
  PROVE  FigureInv'
<1>1. PayInv'
  BY PayInvStep DEF FigureInv
<1>2. \A p \in Orders : status'[p] = "refunded" =>
          status[p] = "refunded" /\ paypal_order_id'[p] = paypal_order_id[p]
  BY <1>1, CheckoutKeepsRefunded DEF KeepsRefunded, FigureInv, PayInv
<1> QED BY <1>1, <1>2 DEF FigureInv, RefundInv, RefundedMoneyWentBack, refundVars

LEMMA FigureInvInit == FigureInit => FigureInv
BY InitPayInv DEF FigureInit, FigureInv, RefundInv, RefundStatuses, PayPalRefunds,
   RefundedMoneyWentBack, Init

LEMMA FigureInvStep ==
  ASSUME FigureInv, [FigureNext]_allVars
  PROVE  FigureInv'
<1>1. CASE UNCHANGED allVars
  <2>1. PayInv'
    BY <1>1, PayInvStep DEF FigureInv, allVars
  <2> QED BY <1>1, <2>1 DEF FigureInv, RefundInv, RefundedMoneyWentBack, allVars, refundVars,
             vars, orderVars
<1>2. CASE FigureNext
  BY <1>2, CheckoutKeepsInv, ReviewKeepsInv, RefundKeepsInv DEF FigureNext
<1> QED BY <1>1, <1>2

LEMMA FigureInvariant == FigureSpec => []FigureInv
BY FigureInvInit, FigureInvStep, PTL DEF FigureSpec

-----------------------------------------------------------------------------
(* Stock and decisions through review and refund.  A confirmation recorded   *)
(* for an order under refund would undo both; where no confirmation repeats  *)
(* (RepeatedConfirmationIsNoop), the units add up and money goes back for    *)
(* rejected orders only.                                                     *)

\* The statuses of a rejected order.
Rejected == {"refund_pending", "refunded"}

\* Whose money went back: a captured payment's, of a rejected order.
RejectionInv ==
    /\ \A o \in Orders : status[o] \in Rejected => figure_review_status[o] = "rejected"
    /\ \A v \in Vouchers : voucher_refund[v] # "none" =>
           /\ Captured(v)
           /\ voucher_order[v] \in Orders
           /\ status[voucher_order[v]] \in Rejected

\* What the checkout does to orders with units, rejected ones and captured vouchers.
CheckoutKeeps ==
    /\ UnitsInv'
    /\ \A o \in Orders : status[o] \in Rejected \/ status'[o] \in Rejected =>
           status'[o] = status[o] /\ figure_review_status'[o] = figure_review_status[o]
    /\ \A v \in Vouchers : Captured(v) => Captured(v)' /\ voucher_order'[v] = voucher_order[v]

LEMMA CheckoutKeepsStep ==
  ASSUME PayInv, UnitsInv, RecordsUnpaid, TypeOK', [Next]_vars
  PROVE  CheckoutKeeps
<1> USE VoucherAssumption, KindAssumption DEF Rejected, CheckoutKeeps, UnitsInv, RecordsUnpaid, PayInv, TypeOK,
    Attempt, Captured, Settled, PaidFor, orderVars, holdVars, outcomeVars, payPalVars, jobVars
<1>1. ASSUME NEW o \in Orders, NEW m \in Models, NEW n \in 1..ItemLimit, CreateOrder(o, m, n)
      PROVE  CheckoutKeeps
  BY <1>1 DEF CreateOrder
<1>2. ASSUME NEW o \in Orders, NEW m \in Models, MergeIntoOrder(o, m)
      PROVE  CheckoutKeeps
  BY <1>2 DEF MergeIntoOrder, Release
<1>3. ASSUME NEW d \in Deleters, NEW x \in deletions, DeleteItem(d, x)
      PROVE  CheckoutKeeps
  BY <1>3 DEF DeleteItem, Deletion, Release
<1>4. ASSUME NEW o \in Orders, CancelOrder(o)
      PROVE  CheckoutKeeps
  BY <1>4 DEF CancelOrder, Release
<1>5. ASSUME NEW o \in Orders, DeleteOrder(o)
      PROVE  CheckoutKeeps
  BY <1>5 DEF DeleteOrder
<1>6. ASSUME NEW o \in Orders, ReuseVoucher(o)
      PROVE  CheckoutKeeps
  BY <1>6 DEF ReuseVoucher, Checkout, HoldForCheckout, Reserve, NeedsHold
<1>7. ASSUME NEW o \in Orders, NEW v \in Vouchers, NEW answered \in BOOLEAN,
             CreateVoucher(o, v, answered)
      PROVE  CheckoutKeeps
  BY <1>7 DEF CreateVoucher, Checkout, HoldForCheckout, Reserve, NeedsHold
<1>8. ASSUME NEW v \in Vouchers, NEW address \in {"ok", "bad"}, BuyerApproves(v, address)
      PROVE  CheckoutKeeps
  BY <1>8 DEF BuyerApproves
<1>9. ASSUME ExpireScan
      PROVE  CheckoutKeeps
  BY <1>9 DEF ExpireScan
<1>10. ASSUME NEW o \in Orders, HoldTimesOut(o)
      PROVE  CheckoutKeeps
  BY <1>10 DEF HoldTimesOut
<1>11. ASSUME NEW o \in Orders, ExpireOne(o)
      PROVE  CheckoutKeeps
  BY <1>11 DEF ExpireOne, Release, StillExpired
<1>12. ASSUME NEW s \in Sessions, NEW o \in Orders, ConfirmBegin(s, o)
      PROVE  CheckoutKeeps
  BY <1>12 DEF ConfirmBegin, Payable, Reserve, NeedsHold
<1>13. ASSUME NEW a \in attempts, ConfirmNothingLeft(a)
      PROVE  CheckoutKeeps
  BY <1>13 DEF ConfirmNothingLeft
<1>14. ASSUME NEW a \in attempts, ConfirmRecord(a)
      PROVE  CheckoutKeeps
  <2>1. status[a.order] = "pending_payment"
    BY <1>14, Zenon
  <2> QED BY <1>14, <2>1 DEF ConfirmRecord, Capture, ActivateBenefits
<1>15. ASSUME NEW a \in attempts, ConfirmAnswerLost(a)
      PROVE  CheckoutKeeps
  BY <1>15 DEF ConfirmAnswerLost, Capture
<1>16. ASSUME NEW a \in attempts, ConfirmAbandoned(a)
      PROVE  CheckoutKeeps
  BY <1>16 DEF ConfirmAbandoned
<1>17. CASE UNCHANGED quietVars
  BY <1>17 DEF quietVars
<1> HIDE DEF Rejected, CheckoutKeeps, UnitsInv, RecordsUnpaid, PayInv, TypeOK,
    Attempt, Captured, Settled, PaidFor, orderVars, holdVars, outcomeVars, payPalVars, jobVars
<1> QED
  BY <1>1, <1>2, <1>3, <1>4, <1>5, <1>6, <1>7, <1>8, <1>9, <1>10, <1>11, <1>12, <1>13, <1>14,
      <1>15, <1>16, <1>17
     DEF Next, CartStep, VoucherStep, ExpiryStep, ConfirmStep, DeletionStep, ReadItem,
         DropDeletion, quietVars, vars, jobVars

\* A confirmation that repeats nothing records unpaid orders only.
RepeatsNothing ==
    \A a \in attempts : a \notin attempts' /\ status[a.order] \in PaidFor =>
        /\ status'[a.order] = status[a.order]
        /\ figure_review_status'[a.order] = figure_review_status[a.order]
        /\ inventory_consumed'[a.order] = inventory_consumed[a.order]

LEMMA RepeatsNothingRecordsUnpaid ==
  ASSUME PayInv, [RepeatsNothing]_allVars
  PROVE  RecordsUnpaid
<1> SUFFICES ASSUME NEW a \in attempts, ConfirmRecord(a)
             PROVE  status[a.order] = "pending_payment"
  BY DEF RecordsUnpaid
<1>1. /\ a.order \in Orders
      /\ status[a.order] \in {"pending_payment"} \cup PaidFor
      /\ status \in [Orders -> Statuses]
  BY DEF PayInv, TypeOK, Attempt, AttemptInv
<1>2. a \notin attempts' /\ status'[a.order] = "paid" /\ status[a.order] \notin Settled
  BY <1>1 DEF ConfirmRecord, MayCapture
<1>3. RepeatsNothing
  BY <1>2 DEF allVars, vars, jobVars
<1> QED BY <1>1, <1>2, <1>3 DEF RepeatsNothing, PaidFor, Settled

\* The units that a step of the review leaves with their orders, and the
\* decision it takes.
LEMMA ReviewKeepsDecisions ==
  ASSUME FigureInv, UnitsInv, RejectionInv, ReviewStep
  PROVE  UnitsInv' /\ RejectionInv' /\ (StockConserved => StockConserved')
<1> USE DEF FigureInv, PayInv, RefundInv, TypeOK, UnitsInv, RejectionInv, Rejected, Settled,
            Captured, orderVars, holdVars, outcomeVars, payPalVars, jobVars, refundVars
<1>1. StockConserved => StockConserved'
  <2>1. UNCHANGED <<stock, inventory_reserved, inventory_consumed, items>>
    BY DEF ReviewStep, Approve, Reject, Produce
  <2> QED BY <2>1, StutterConserves
<1>2. ASSUME NEW o \in Orders, Approve(o) PROVE UnitsInv' /\ RejectionInv'
  BY <1>2 DEF Approve, AwaitsReview
<1>3. ASSUME NEW o \in Orders, Reject(o) PROVE UnitsInv' /\ RejectionInv'
  BY <1>3 DEF Reject, AwaitsReview
<1>4. ASSUME NEW o \in Orders, Produce(o) PROVE UnitsInv' /\ RejectionInv'
  BY <1>4 DEF Produce
<1> QED BY <1>1, <1>2, <1>3, <1>4 DEF ReviewStep

\* Applying PayPal's answer gives the units of a refunded order back.
LEMMA ApplyMoves ==
  ASSUME FigureInv, UnitsInv, NEW o \in Orders, Refundable(o), RefundFrame,
         NEW answer \in {"PENDING", "FAILED", "COMPLETED"}, Apply(o, answer)
  PROVE  Moves(o) /\ UnitsInv'
<1> USE DEF FigureInv, PayInv, TypeOK, UnitsInv, Refundable, RefundFrame, Apply, Returned, Restock
<1>1. ~inventory_reserved[o]
  OBVIOUS
<1>2. UnitsInv'
  BY <1>1 DEF Settled
<1>3. ASSUME NEW m \in Models
      PROVE  /\ stock'[m] + Taken(o, m)' = stock[m] + Taken(o, m)
             /\ \A p \in Orders \ {o} : Taken(p, m)' = Taken(p, m)
  <2>1. items[o][m] \in Nat /\ stock[m] \in Nat
    BY DEF Basket
  <2>2. \A p \in Orders \ {o} : Taken(p, m)' = Taken(p, m)
    BY DEF Taken
  <2>3. CASE answer = "COMPLETED" /\ inventory_consumed[o]
    <3>1. stock'[m] = stock[m] + items[o][m] /\ ~inventory_consumed'[o] /\ ~inventory_reserved'[o]
      BY <1>1, <2>3
    <3> QED BY <2>1, <2>2, <2>3, <3>1 DEF Taken
  <2>4. CASE answer = "COMPLETED" /\ ~inventory_consumed[o]
    <3>1. stock'[m] = stock[m] /\ ~inventory_consumed'[o] /\ ~inventory_reserved'[o]
      BY <1>1, <2>4
    <3> QED BY <1>1, <2>2, <2>4, <3>1 DEF Taken
  <2>5. CASE answer # "COMPLETED"
    <3>1. stock' = stock /\ inventory_consumed' = inventory_consumed
      BY <2>5
    <3> QED BY <2>2, <3>1 DEF Taken
  <2> QED BY <2>3, <2>4, <2>5
<1> QED BY <1>2, <1>3 DEF Moves

\* A step of the refund concerns one captured payment of a rejected order.
LEMMA RefundKeepsDecisions ==
  ASSUME FigureInv, FigureInv', UnitsInv, RejectionInv, RefundStep
  PROVE  UnitsInv' /\ RejectionInv'
         /\ (IsFiniteSet(Orders) /\ StockConserved => StockConserved')
<1> DEFINE Stays == UNCHANGED <<stock, inventory_reserved, inventory_consumed, items>>
           Touches(v) == \A w \in Vouchers \ {v} : voucher_refund'[w] = voucher_refund[w]
<1>1. TypeOK /\ TypeOK'
  BY DEF FigureInv, PayInv
<1>2. ASSUME NEW o \in Orders, status[o] \in Rejected
      PROVE  /\ paypal_order_id[o] \in Vouchers
             /\ Captured(paypal_order_id[o])
             /\ voucher_order[paypal_order_id[o]] = o
  BY <1>2 DEF FigureInv, PayInv, PaidMeansCharged, PaidFor, Rejected
<1>3. UNCHANGED <<voucher_status, voucher_order, figure_review_status, items>>
  BY DEF RefundStep, ProcessRefund, AdoptRefund, PostRefund, RefundUnconfirmed,
         RefundNeedsPerson, RefundFrame, RefundWindowCloses, SupportRefunds,
         PayPalSettlesRefund, vars, orderVars, outcomeVars, payPalVars
<1>4. ASSUME NEW v \in Vouchers, Captured(v), voucher_order[v] \in Orders,
             status[voucher_order[v]] \in Rejected, Touches(v),
             \A o \in Orders : status'[o] \in Rejected <=> status[o] \in Rejected
      PROVE  RejectionInv'
  BY <1>3, <1>4 DEF RejectionInv, Captured
<1>5. ASSUME NEW o \in Orders, NEW answer \in {"PENDING", "FAILED", "COMPLETED"},
             Refundable(o), RefundFrame, Apply(o, answer), Touches(paypal_order_id[o])
      PROVE  UnitsInv' /\ RejectionInv'
             /\ (IsFiniteSet(Orders) /\ StockConserved => StockConserved')
  <2>1. Moves(o) /\ UnitsInv'
    BY <1>5, ApplyMoves
  <2>2. \A p \in Orders : status'[p] \in Rejected <=> status[p] \in Rejected
    BY <1>1, <1>5 DEF Apply, Returned, Refundable, Rejected, TypeOK
  <2>3. status[o] \in Rejected
    BY <1>5 DEF Refundable, Rejected
  <2>4. RejectionInv'
    BY <1>2, <1>4, <1>5, <2>2, <2>3
  <2>5. IsFiniteSet(Orders) /\ StockConserved => StockConserved'
    BY <1>1, <2>1, MovesConserve
  <2> QED BY <2>1, <2>4, <2>5
<1>6. ASSUME NEW v \in Vouchers, Captured(v), voucher_order[v] \in Orders,
             status[voucher_order[v]] \in Rejected, Touches(v), Stays, UNCHANGED status
      PROVE  UnitsInv' /\ RejectionInv'
             /\ (IsFiniteSet(Orders) /\ StockConserved => StockConserved')
  <2>1. RejectionInv'
    BY <1>4, <1>6
  <2>2. UnitsInv'
    BY <1>6 DEF UnitsInv
  <2> QED BY <1>6, <2>1, <2>2, StutterConserves
<1>7. ASSUME NEW o \in Orders, status[o] \in Rejected, Touches(paypal_order_id[o]), Stays,
             UNCHANGED status
      PROVE  UnitsInv' /\ RejectionInv'
             /\ (IsFiniteSet(Orders) /\ StockConserved => StockConserved')
  BY <1>2, <1>6, <1>7
<1>8. voucher_refund \in [Vouchers -> PayPalRefunds]
  BY DEF FigureInv, RefundInv
<1>9. ASSUME NEW o \in Orders, AdoptRefund(o)
      PROVE  Refundable(o) /\ RefundFrame /\ Touches(paypal_order_id[o])
             /\ \E answer \in {"PENDING", "FAILED", "COMPLETED"} : Apply(o, answer)
  BY <1>9 DEF AdoptRefund
<1>10. ASSUME NEW o \in Orders, NEW outcome \in {"PENDING", "FAILED", "COMPLETED"},
              PostRefund(o, outcome, "read")
      PROVE  Refundable(o) /\ RefundFrame /\ Touches(paypal_order_id[o]) /\ Apply(o, outcome)
  BY <1>8, <1>10 DEF PostRefund
<1>11. ASSUME NEW o \in Orders, NEW outcome \in {"PENDING", "FAILED", "COMPLETED"},
              NEW answer \in {"lost", "crash"},
              PostRefund(o, outcome, answer) \/ RefundUnconfirmed(o) \/ RefundNeedsPerson(o)
      PROVE  status[o] \in Rejected /\ Touches(paypal_order_id[o]) /\ Stays /\ UNCHANGED status
  BY <1>8, <1>11 DEF PostRefund, RefundUnconfirmed, RefundNeedsPerson, RefundFrame, Refundable,
                     Rejected
<1>12. ASSUME NEW o \in Orders, RefundWindowCloses(o)
      PROVE  UnitsInv' /\ RejectionInv'
             /\ (IsFiniteSet(Orders) /\ StockConserved => StockConserved')
  <2>1. Stays /\ UNCHANGED <<status, voucher_refund>>
    BY <1>12 DEF RefundWindowCloses, vars, orderVars, holdVars
  <2>2. UnitsInv' /\ RejectionInv'
    BY <1>3, <2>1 DEF UnitsInv, RejectionInv, Captured
  <2> QED BY <2>1, <2>2, StutterConserves
<1>13. ASSUME NEW o \in Orders, NEW outcome \in PayPalRefunds, SupportRefunds(o, outcome)
      PROVE  status[o] \in Rejected /\ Touches(paypal_order_id[o]) /\ Stays /\ UNCHANGED status
  BY <1>8, <1>13 DEF SupportRefunds, Rejected, vars, orderVars, holdVars
<1>14. ASSUME NEW v \in Vouchers, NEW outcome \in PayPalRefunds, PayPalSettlesRefund(v, outcome)
      PROVE  /\ Captured(v) /\ voucher_order[v] \in Orders
             /\ status[voucher_order[v]] \in Rejected /\ Touches(v) /\ Stays /\ UNCHANGED status
  BY <1>8, <1>14 DEF PayPalSettlesRefund, RejectionInv, vars, orderVars, holdVars
<1> HIDE DEF Stays, Touches
<1>15. ASSUME NEW o \in Orders, ProcessRefund(o)
      PROVE  UnitsInv' /\ RejectionInv'
             /\ (IsFiniteSet(Orders) /\ StockConserved => StockConserved')
  <2>1. CASE AdoptRefund(o)
    BY <1>5, <1>9, <2>1
  <2>2. ASSUME NEW outcome \in {"PENDING", "FAILED", "COMPLETED"},
               NEW answer \in {"read", "lost", "crash"}, PostRefund(o, outcome, answer)
        PROVE  UnitsInv' /\ RejectionInv'
               /\ (IsFiniteSet(Orders) /\ StockConserved => StockConserved')
    <3>1. CASE answer = "read"
      BY <1>5, <1>10, <2>2, <3>1
    <3>2. CASE answer \in {"lost", "crash"}
      BY <1>7, <1>11, <2>2, <3>2
    <3> QED BY <3>1, <3>2
  <2>3. CASE RefundUnconfirmed(o) \/ RefundNeedsPerson(o)
    BY <1>7, <1>11, <2>3
  <2> QED BY <1>15, <2>1, <2>2, <2>3 DEF ProcessRefund
<1> QED BY <1>6, <1>7, <1>12, <1>13, <1>14, <1>15 DEF RefundStep

LEMMA DecisionStep ==
  ASSUME FigureInv, FigureInv', UnitsInv, RejectionInv, RecordsUnpaid, [FigureNext]_allVars
  PROVE  UnitsInv' /\ RejectionInv'
         /\ (IsFiniteSet(Orders) /\ StockConserved => StockConserved')
<1>1. PayInv /\ TypeOK /\ TypeOK'
  BY DEF FigureInv, PayInv
<1>2. CASE Next /\ UNCHANGED refundVars
  <2>1. CheckoutKeeps
    BY <1>1, <1>2, CheckoutKeepsStep
  <2>2. UnitsInv' /\ RejectionInv'
    <3>1. voucher_order' \in [Vouchers -> Orders \cup {NoVoucher}]
      BY <1>1 DEF TypeOK
    <3> QED BY <1>2, <2>1, <3>1 DEF CheckoutKeeps, RejectionInv, refundVars
  <2>3. PICK o \in Orders : Moves(o)
    BY <1>1, <1>2, UnitsMoveStep
  <2> QED BY <1>1, <2>2, <2>3, MovesConserve
<1>3. CASE UNCHANGED allVars
  <2>1. UnitsInv' /\ RejectionInv'
    BY <1>3 DEF UnitsInv, RejectionInv, Captured, allVars, refundVars, vars, orderVars, holdVars,
                outcomeVars, payPalVars
  <2>2. UNCHANGED <<stock, inventory_reserved, inventory_consumed, items>>
    BY <1>3 DEF allVars, vars, orderVars, holdVars
  <2> QED BY <2>1, <2>2, StutterConserves
<1> QED BY <1>2, <1>3, ReviewKeepsDecisions, RefundKeepsDecisions DEF FigureNext

LEMMA DecisionInit == FigureInit => UnitsInv /\ RejectionInv
BY KindAssumption DEF FigureInit, Init, UnitsInv, RejectionInv, Rejected

LEMMA DecisionInvariant == FigureSpec /\ RepeatedConfirmationIsNoop => [](UnitsInv /\ RejectionInv)
<1>1. FigureInv /\ FigureInv' /\ (UnitsInv /\ RejectionInv) /\ [RepeatsNothing]_allVars
          /\ [FigureNext]_allVars => (UnitsInv /\ RejectionInv)'
  BY DecisionStep, RepeatsNothingRecordsUnpaid DEF FigureInv
<1>2. RepeatedConfirmationIsNoop <=> [][RepeatsNothing]_allVars
  BY DEF RepeatedConfirmationIsNoop, RepeatsNothing
<1> QED BY <1>1, <1>2, DecisionInit, FigureInvariant, PTL DEF FigureSpec

-----------------------------------------------------------------------------
(* The abstract checkout, from the first basket to the last refund.          *)

\* A step after the payment moves one paid order along the abstract checkout.
LEMMA AfterPayment ==
  ASSUME PayInv, UNCHANGED <<voucher_status, voucher_order>>, NEW o \in Orders,
         NEW to \in Statuses, status[o] \in PaidFor, status' = [status EXCEPT ![o] = to],
         to \in PaidFor
  PROVE  /\ Phase[o] = PhaseOf(o) /\ Phase' = [Phase EXCEPT ![o] = PhaseOf(o)']
         /\ PhaseOf(o)' = CASE to = "paid" -> "settled"
                            [] to \in {"shipping", "completed"} -> "shipped"
                            [] to = "refund_pending" -> "refunding"
                            [] to = "refunded" -> "refunded"
<1>1. status'[o] = to /\ \A p \in Orders \ {o} : status'[p] = status[p]
  BY DEF PayInv, TypeOK
<1>2. \A p \in Orders \ {o} : PhaseOf(p)' = PhaseOf(p)
  BY <1>1, ChargesStay, SamePhase
<1> QED BY <1>1, <1>2, OnePhaseMoves DEF PhaseOf, PaidFor, Settled

LEMMA ReviewRefines ==
  ASSUME PayInv, ReviewStep
  PROVE  Phase' = Phase \/ \E o \in Orders : Abstract!Ship(o) \/ Abstract!Reject(o)
<1> USE DEF orderVars, payPalVars, PaidFor, Settled
<1>1. ASSUME NEW o \in Orders, Approve(o) PROVE Phase' = Phase
  BY <1>1, QuietStep DEF Approve
<1>2. ASSUME NEW o \in Orders, Reject(o) PROVE Abstract!Reject(o)
  <2>1. Phase[o] = "settled"
    BY <1>2 DEF Phase, PhaseOf, Reject, AwaitsReview
  <2>2. Phase' = [Phase EXCEPT ![o] = "refunding"]
    BY <1>2, AfterPayment DEF Reject, AwaitsReview, Statuses
  <2> QED BY <2>1, <2>2 DEF Abstract!Reject, Abstract!Move, Phase
<1>3. ASSUME NEW o \in Orders, Produce(o) PROVE Phase' = Phase \/ Abstract!Ship(o)
  <2>1. CASE UNCHANGED status
    BY <1>3, <2>1, QuietStep DEF Produce
  <2>2. CASE status[o] = "paid" /\ status' = [status EXCEPT ![o] = "shipping"]
    <3>1. Phase[o] = "settled"
      BY <2>2 DEF Phase, PhaseOf
    <3>2. Phase' = [Phase EXCEPT ![o] = "shipped"]
      BY <1>3, <2>2, AfterPayment DEF Produce, Statuses
    <3> QED BY <3>1, <3>2 DEF Abstract!Ship, Abstract!Move, Phase
  <2>3. CASE status[o] = "shipping" /\ status' = [status EXCEPT ![o] = "completed"]
    <3>1. Phase[o] = "shipped"
      BY <2>3 DEF Phase, PhaseOf
    <3>2. Phase' = [Phase EXCEPT ![o] = "shipped"]
      BY <1>3, <2>3, AfterPayment DEF Produce, Statuses
    <3> QED BY <3>1, <3>2 DEF Phase
  <2> QED BY <1>3, <2>1, <2>2, <2>3 DEF Produce
<1> QED BY <1>1, <1>2, <1>3 DEF ReviewStep

LEMMA RefundRefines ==
  ASSUME PayInv, RefundStep
  PROVE  Phase' = Phase \/ \E o \in Orders : Abstract!Refund(o)
<1>1. UNCHANGED <<voucher_status, voucher_order>>
  BY DEF RefundStep, ProcessRefund, AdoptRefund, PostRefund, RefundUnconfirmed,
         RefundNeedsPerson, RefundFrame, RefundWindowCloses, SupportRefunds,
         PayPalSettlesRefund, vars, payPalVars
<1>2. \/ UNCHANGED status
      \/ \E o \in Orders : status[o] = "refund_pending" /\ status' = [status EXCEPT ![o] = "refunded"]
  BY DEF RefundStep, ProcessRefund, AdoptRefund, PostRefund, RefundUnconfirmed,
         RefundNeedsPerson, Refundable, Apply, RefundWindowCloses, SupportRefunds,
         PayPalSettlesRefund, vars, orderVars
<1>3. ASSUME NEW o \in Orders, status[o] = "refund_pending",
             status' = [status EXCEPT ![o] = "refunded"]
      PROVE  Abstract!Refund(o)
  <2>1. Phase[o] = "refunding"
    BY <1>3 DEF Phase, PhaseOf
  <2>2. Phase' = [Phase EXCEPT ![o] = "refunded"]
    BY <1>1, <1>3, AfterPayment DEF PaidFor, Settled, Statuses
  <2> QED BY <2>1, <2>2 DEF Abstract!Refund, Abstract!Move, Phase
<1> QED BY <1>1, <1>2, <1>3, QuietStep

LEMMA FigureStepRefines ==
  ASSUME PayInv, RecordsUnpaid, Legacy = {}, [FigureNext]_allVars
  PROVE  [Abstract!Next]_Phase
<1>1. CASE Next \/ UNCHANGED allVars
  BY <1>1, StepRefines DEF allVars
<1>2. CASE ReviewStep \/ RefundStep
  BY <1>2, ReviewRefines, RefundRefines DEF Abstract!Next
<1> QED BY <1>1, <1>2 DEF FigureNext

-----------------------------------------------------------------------------
(* One session repeats nothing.                                              *)

\* With one session there is one confirmation under way, of an unpaid order.
OneAttempt ==
    /\ \A a, b \in attempts : a = b
    /\ \A a \in attempts : status[a.order] = "pending_payment"

LEMMA OneAttemptStep ==
  ASSUME \A s, t \in Sessions : s = t, PayInv, TypeOK', OneAttempt, [Next]_vars
  PROVE  OneAttempt'
<1> USE DEF PayInv, AttemptInv, TypeOK, Attempt, OneAttempt, orderVars, holdVars,
    outcomeVars, payPalVars, jobVars
<1>1. ASSUME NEW o \in Orders, NEW m \in Models, NEW n \in 1..ItemLimit, CreateOrder(o, m, n)
      PROVE  OneAttempt'
  BY <1>1 DEF CreateOrder
<1>2. ASSUME NEW o \in Orders, NEW m \in Models, MergeIntoOrder(o, m)
      PROVE  OneAttempt'
  BY <1>2 DEF MergeIntoOrder, Release
<1>3. ASSUME NEW d \in Deleters, NEW x \in deletions, DeleteItem(d, x)
      PROVE  OneAttempt'
  BY <1>3 DEF DeleteItem, Deletion, Release
<1>4. ASSUME NEW o \in Orders, CancelOrder(o)
      PROVE  OneAttempt'
  BY <1>4 DEF CancelOrder, Release
<1>5. ASSUME NEW o \in Orders, DeleteOrder(o)
      PROVE  OneAttempt'
  BY <1>5 DEF DeleteOrder
<1>6. ASSUME NEW o \in Orders, ReuseVoucher(o)
      PROVE  OneAttempt'
  BY <1>6 DEF ReuseVoucher
<1>7. ASSUME NEW o \in Orders, NEW v \in Vouchers, NEW answered \in BOOLEAN,
             CreateVoucher(o, v, answered)
      PROVE  OneAttempt'
  BY <1>7 DEF CreateVoucher
<1>8. ASSUME NEW v \in Vouchers, NEW address \in {"ok", "bad"}, BuyerApproves(v, address)
      PROVE  OneAttempt'
  BY <1>8 DEF BuyerApproves
<1>9. ASSUME ExpireScan
      PROVE  OneAttempt'
  BY <1>9 DEF ExpireScan
<1>10. ASSUME NEW o \in Orders, HoldTimesOut(o)
      PROVE  OneAttempt'
  BY <1>10 DEF HoldTimesOut
<1>11. ASSUME NEW o \in Orders, ExpireOne(o)
      PROVE  OneAttempt'
  BY <1>11 DEF ExpireOne, Release
<1>12. ASSUME NEW s \in Sessions, NEW o \in Orders, ConfirmBegin(s, o)
      PROVE  OneAttempt'
  <2>1. attempts = {}
    <3>1. \A a \in attempts : a.session \in Sessions
      BY DEF PayInv, TypeOK, Attempt
    <3> QED BY <1>12, <3>1 DEF ConfirmBegin, Idle
  <2> QED BY <1>12, <2>1 DEF ConfirmBegin
<1>13. ASSUME NEW a \in attempts, ConfirmNothingLeft(a)
      PROVE  OneAttempt'
  BY <1>13 DEF ConfirmNothingLeft
<1>14. ASSUME NEW a \in attempts, ConfirmRecord(a)
      PROVE  OneAttempt'
  BY <1>14 DEF ConfirmRecord
<1>15. ASSUME NEW a \in attempts, ConfirmAnswerLost(a)
      PROVE  OneAttempt'
  BY <1>15 DEF ConfirmAnswerLost
<1>16. ASSUME NEW a \in attempts, ConfirmAbandoned(a)
      PROVE  OneAttempt'
  BY <1>16 DEF ConfirmAbandoned
<1>17. CASE UNCHANGED quietVars
  BY <1>17 DEF quietVars
<1> HIDE DEF PayInv, AttemptInv, TypeOK, Attempt, OneAttempt, orderVars, holdVars,
    outcomeVars, payPalVars, jobVars
<1> QED
  BY <1>1, <1>2, <1>3, <1>4, <1>5, <1>6, <1>7, <1>8, <1>9, <1>10, <1>11, <1>12, <1>13, <1>14,
      <1>15, <1>16, <1>17
     DEF Next, CartStep, VoucherStep, ExpiryStep, ConfirmStep, DeletionStep, ReadItem,
         DropDeletion, quietVars, vars, jobVars

\* The steps after the payment concern orders that are paid.
LEMMA OneAttemptFigureStep ==
  ASSUME \A s, t \in Sessions : s = t, FigureInv, FigureInv', OneAttempt, [FigureNext]_allVars
  PROVE  OneAttempt'
<1>1. PayInv /\ TypeOK'
  BY DEF FigureInv, PayInv
<1>2. CASE Next \/ UNCHANGED allVars
  BY <1>1, <1>2, OneAttemptStep DEF allVars
<1>3. CASE ReviewStep
  <2>1. attempts' = attempts /\ \A o \in Orders : status[o] = "pending_payment" =>
            status'[o] = "pending_payment"
    BY <1>1, <1>3 DEF ReviewStep, Approve, Reject, Produce, AwaitsReview, PayInv, TypeOK,
       orderVars, jobVars
  <2> QED BY <1>1, <2>1 DEF OneAttempt, PayInv, TypeOK, Attempt
<1>4. CASE RefundStep
  <2>1. attempts' = attempts /\ \A o \in Orders : status[o] = "pending_payment" =>
            status'[o] = "pending_payment"
    BY <1>1, <1>4 DEF RefundStep, ProcessRefund, AdoptRefund, PostRefund, RefundUnconfirmed,
       RefundNeedsPerson, RefundFrame, RefundWindowCloses, SupportRefunds, PayPalSettlesRefund,
       Apply, Refundable, PayInv, TypeOK, vars, orderVars, jobVars
  <2> QED BY <1>1, <2>1 DEF OneAttempt, PayInv, TypeOK, Attempt
<1> QED BY <1>2, <1>3, <1>4 DEF FigureNext

-----------------------------------------------------------------------------
(* Theorems.                                                                 *)

\* The types of orders, vouchers and refunds through the whole life of an order.
THEOREM FigureTypeCorrect == FigureSpec => []FigureTypeOK
<1>1. FigureInv => FigureTypeOK
  BY DEF FigureInv, RefundInv, PayInv, FigureTypeOK
<1> QED BY <1>1, FigureInvariant, PTL

\* No order is charged through two vouchers, also while it is reviewed,
\* produced or refunded and old confirmations of it are still running.
THEOREM FigureChargedOnce == FigureSpec => []ChargedAtMostOnce
<1>1. FigureInv => ChargedAtMostOnce
  BY DEF FigureInv, PayInv, ChargeInv, ChargedAtMostOnce
<1> QED BY <1>1, FigureInvariant, PTL

\* A charged order keeps voucher, basket and place from payment to refund.
THEOREM FigureChargedOrderKept == FigureSpec => []ChargedOrderIsKept
<1>1. FigureInv => ChargedOrderIsKept
  BY DEF FigureInv, PayInv, PriceInv, ChargeInv, ChargedOrderIsKept
<1> QED BY <1>1, FigureInvariant, PTL

\* An order that is called refunded has its money back at PayPal.
THEOREM RefundedIsReturned == FigureSpec => []RefundedMoneyWentBack
<1>1. FigureInv => RefundedMoneyWentBack
  BY DEF FigureInv, RefundInv
<1> QED BY <1>1, FigureInvariant, PTL

\* Where no confirmation repeats, money goes back for orders a person has
\* rejected and for no others, and the decision stands.
THEOREM RefundsFollowRejection ==
    FigureSpec /\ RepeatedConfirmationIsNoop => []RefundFollowsRejection
<1>1. RejectionInv => RefundFollowsRejection
  BY DEF RejectionInv, RefundFollowsRejection, Rejected
<1> QED BY <1>1, DecisionInvariant, PTL

\* Where no confirmation repeats, units add up through review and refund too.
THEOREM FigureStockAddsUp ==
  ASSUME IsFiniteSet(Orders)
  PROVE  FigureSpec /\ RepeatedConfirmationIsNoop => []StockConserved
<1>1. FigureInit => StockConserved
  BY InitStockConserved DEF FigureInit
<1>2. FigureInv /\ FigureInv' /\ (UnitsInv /\ RejectionInv) /\ StockConserved
          /\ [RepeatsNothing]_allVars /\ [FigureNext]_allVars => StockConserved'
  BY DecisionStep, RepeatsNothingRecordsUnpaid DEF FigureInv
<1>3. RepeatedConfirmationIsNoop <=> [][RepeatsNothing]_allVars
  BY DEF RepeatedConfirmationIsNoop, RepeatsNothing
<1> QED BY <1>1, <1>2, <1>3, DecisionInvariant, FigureInvariant, PTL DEF FigureSpec

\* Where no confirmation repeats, the whole life of an order is one of the
\* abstract checkout: an order is shipped or refunded, never both, only once it
\* is settled, and a refunded one stays refunded.
THEOREM FigureImplementsCheckout ==
  ASSUME Legacy = {}
  PROVE  FigureSpec /\ RepeatedConfirmationIsNoop => ImplementsCheckout
<1>1. FigureInit => Abstract!Init
  BY InitRefines DEF FigureInit
<1>2. FigureInv /\ [RepeatsNothing]_allVars /\ [FigureNext]_allVars => [Abstract!Next]_Phase
  BY FigureStepRefines, RepeatsNothingRecordsUnpaid DEF FigureInv
<1>3. RepeatedConfirmationIsNoop <=> [][RepeatsNothing]_allVars
  BY DEF RepeatedConfirmationIsNoop, RepeatsNothing
<1> QED BY <1>1, <1>2, <1>3, FigureInvariant, PTL
        DEF FigureSpec, ImplementsCheckout, Abstract!Spec, Phase

\* A confirmation repeats only where two of them run at a time: the job alone
\* never records a payment twice, so with one session the theorems above hold
\* without a condition.
THEOREM OneSessionRepeatsNothing ==
  ASSUME \A s, t \in Sessions : s = t
  PROVE  FigureSpec => RepeatedConfirmationIsNoop
<1>1. FigureInit => OneAttempt
  BY DEF FigureInit, Init, OneAttempt
<1>2. FigureInv /\ FigureInv' /\ OneAttempt /\ [FigureNext]_allVars => OneAttempt'
  BY OneAttemptFigureStep
<1>3. OneAttempt => [RepeatsNothing]_allVars
  BY DEF OneAttempt, RepeatsNothing, PaidFor, Settled
<1>4. RepeatedConfirmationIsNoop <=> [][RepeatsNothing]_allVars
  BY DEF RepeatedConfirmationIsNoop, RepeatsNothing
<1> QED BY <1>1, <1>2, <1>3, <1>4, FigureInvariant, PTL DEF FigureSpec

=============================================================================
