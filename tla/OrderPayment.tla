---------------------------- MODULE OrderPayment ----------------------------
(***************************************************************************)
(* Shop orders from creation to the recorded payment: the cart, the stock  *)
(* hold, the PayPal voucher, the two-transaction confirmation and the hold *)
(* expiry job (routers/order.py, order_inventory.py).                      *)
(*                                                                         *)
(* A handler takes the row lock of its order before it reads the order     *)
(* (order_inventory.lock_order) and keeps it to its commit, so it is one   *)
(* action, except where the code commits in the middle and locks the order *)
(* again, or reads something before it locks: the confirmation             *)
(* (ConfirmBegin, then one of the Confirm... steps that end the attempt),  *)
(* the expiry job (ExpireScan, then ExpireOne for each order it found) and *)
(* the deletion of an item (ReadItem, then DeleteItem with what was read). *)
(* Buyers, browser confirmations and the one-minute reconciliation job all *)
(* confirm by the same call, and are the members of Sessions.              *)
(*                                                                         *)
(* PayPal is outside the repository: its vouchers are the variables        *)
(* voucher_..., and CREATED also stands for PAYER_ACTION_REQUIRED.  An     *)
(* amount is the price of an order: shipping and discounts are fixed with  *)
(* the order, so the total PayPal is asked for follows from it.            *)
(***************************************************************************)
EXTENDS Integers, FiniteSets, Functions

CONSTANTS
    Orders,         \* order ids that may be created
    Models,         \* the figure models on sale (rows of model_sales_limits)
    Vouchers,       \* the orders PayPal may create: bounds their number
    Sessions,       \* concurrent confirmations: request threads and the job
    Job,            \* the session of the one-minute reconciliation job
    Deleters,       \* requests that may delete items at the same time
    NoVoucher,      \* paypal_order_id = None
    Subscriptions,  \* orders of order_type "subscription"; others are "print"
    WalletOrders,   \* print orders with shipping_source "paypal"
    Discounted,     \* print orders with a creator offer or a global discount
    Legacy,         \* orders older than the hold columns (migration a8e6c4d20918)
    Price,          \* of a figure of each model, the same throughout
    InitialStock,   \* stock of each model when the shop opens
    ItemLimit       \* items an unpaid order may have (10 in the code)

ASSUME VoucherAssumption == NoVoucher \notin Vouchers \cup Orders
ASSUME JobAssumption == Job \in Sessions
ASSUME KindAssumption ==
    /\ Orders # {}
    /\ Subscriptions \subseteq Orders
    /\ WalletOrders \subseteq Orders \ Subscriptions
    /\ Discounted \subseteq Orders \ Subscriptions
    /\ Legacy \subseteq Orders \ (Subscriptions \cup WalletOrders \cup Discounted)
ASSUME StockAssumption == InitialStock \in [Models -> Nat] /\ ItemLimit \in Nat
ASSUME PriceAssumption == IsFiniteSet(Models) /\ Price \in [Models -> Nat]

VARIABLES
    status,                   \* Order.status; "absent" before and "deleted" after the row
    items,                    \* how many OrderItems of each model the order has
    price,                    \* Order.price, kept beside the items
    paypal_order_id,          \* the voucher the order is bound to
    capture_started,
    address_snapshot,         \* wallet orders: PayPal's address has been saved
    inventory_reserved,
    inventory_reserved_until, \* "none", "running" or "over" (30 minutes later)
    inventory_consumed,
    stock,
    figure_review_status,
    goods_status,
    pro_months,               \* months of Pro granted for a subscription order
    voucher_status,
    voucher_order,            \* PayPal's custom_id
    voucher_price,            \* the price its amount was computed from
    voucher_locked,           \* its reference_id is that of the present checkout
    voucher_address,          \* the buyer's wallet address: deliverable or not
    attempts,                 \* confirmations between their two transactions
    expiring,                 \* ids the expiry job has read and not yet handled
    deletions                 \* items read by requests that have yet to delete them

orderVars  == <<status, items, price, paypal_order_id, capture_started, address_snapshot>>
holdVars   == <<inventory_reserved, inventory_reserved_until, inventory_consumed, stock>>
outcomeVars == <<figure_review_status, goods_status, pro_months>>
payPalVars == <<voucher_status, voucher_order, voucher_price, voucher_locked, voucher_address>>
jobVars    == <<attempts, expiring, deletions>>
vars == <<orderVars, holdVars, outcomeVars, payPalVars, jobVars>>

PrintOrders == Orders \ Subscriptions
Basket == [Models -> Nat]
Empty == [m \in Models |-> 0]
BasketPrice(basket) == SumFunction([m \in Models |-> basket[m] * Price[m]])

Statuses == {"absent", "pending_payment", "paid", "shipping", "completed",
             "cancelled", "deleted", "refund_pending", "refunded"}
\* The statuses complete_order_payment answers without doing anything.
Settled == {"paid", "shipping", "completed"}
\* The statuses an order has once its payment was recorded.
PaidFor == Settled \cup {"refund_pending", "refunded"}

Attempt == [session : Sessions, order : Orders, voucher : Vouchers,
            seen : {"APPROVED", "COMPLETED"}, backordered : BOOLEAN]

\* One item, the requests that hold it as read, and whether the row has gone.
Deletion == [order : Orders, model : Models, readers : SUBSET Deleters, gone : BOOLEAN]

TypeOK ==
    /\ status \in [Orders -> Statuses]
    /\ items \in [Orders -> Basket]
    /\ price \in [Orders -> Nat]
    /\ paypal_order_id \in [Orders -> Vouchers \cup {NoVoucher}]
    /\ capture_started \in [Orders -> BOOLEAN]
    /\ address_snapshot \in [Orders -> BOOLEAN]
    /\ inventory_reserved \in [Orders -> BOOLEAN]
    /\ inventory_reserved_until \in [Orders -> {"none", "running", "over"}]
    /\ inventory_consumed \in [Orders -> BOOLEAN]
    /\ stock \in [Models -> Nat]
    /\ figure_review_status \in [Orders -> {"none", "pending", "approved", "rejected"}]
    /\ goods_status \in [Orders -> {"none", "awaiting_review", "awaiting_stock",
                                    "preparing", "printing", "shipping",
                                    "completed", "rejected"}]
    /\ pro_months \in [Orders -> Nat]
    /\ voucher_status \in [Vouchers -> {"unused", "CREATED", "APPROVED", "COMPLETED"}]
    /\ voucher_order \in [Vouchers -> Orders \cup {NoVoucher}]
    /\ voucher_price \in [Vouchers -> Nat]
    /\ voucher_locked \in [Vouchers -> BOOLEAN]
    /\ voucher_address \in [Vouchers -> {"ok", "bad"}]
    /\ attempts \subseteq Attempt
    /\ expiring \subseteq Orders
    /\ deletions \subseteq Deletion

-----------------------------------------------------------------------------
(* Initial states.  A Legacy order is unpaid, with a voucher of its own      *)
(* whose payment may already be captured, and has never held stock.          *)

Init ==
    /\ status = [o \in Orders |-> IF o \in Legacy THEN "pending_payment" ELSE "absent"]
    /\ items \in [Orders -> {Empty} \cup {[Empty EXCEPT ![m] = 1] : m \in Models}]
    /\ \A o \in Orders : items[o] = Empty <=> o \notin Legacy
    /\ price = [o \in Orders |-> BasketPrice(items[o])]
    /\ paypal_order_id \in [Orders -> Vouchers \cup {NoVoucher}]
    /\ \A o \in Orders : paypal_order_id[o] = NoVoucher <=> o \notin Legacy
    /\ \A o, p \in Legacy : paypal_order_id[o] = paypal_order_id[p] => o = p
    /\ capture_started = [o \in Orders |-> FALSE]
    /\ address_snapshot = [o \in Orders |-> FALSE]
    /\ inventory_reserved = [o \in Orders |-> FALSE]
    /\ inventory_reserved_until = [o \in Orders |-> "none"]
    /\ inventory_consumed = [o \in Orders |-> FALSE]
    /\ stock = InitialStock
    /\ figure_review_status = [o \in Orders |-> "none"]
    /\ goods_status = [o \in Orders |-> "none"]
    /\ pro_months = [o \in Orders |-> 0]
    /\ voucher_order = [v \in Vouchers |->
           IF \E o \in Legacy : paypal_order_id[o] = v
           THEN CHOOSE o \in Legacy : paypal_order_id[o] = v ELSE NoVoucher]
    /\ voucher_price = [v \in Vouchers |->
           IF voucher_order[v] = NoVoucher THEN 0 ELSE price[voucher_order[v]]]
    /\ voucher_status \in [Vouchers -> {"unused", "CREATED", "APPROVED", "COMPLETED"}]
    /\ \A v \in Vouchers : voucher_status[v] = "unused" <=> voucher_order[v] = NoVoucher
    /\ voucher_locked = [v \in Vouchers |-> FALSE]
    /\ voucher_address = [v \in Vouchers |-> "ok"]
    /\ attempts = {}
    /\ expiring = {}
    /\ deletions = {}

-----------------------------------------------------------------------------
(* The stock hold (order_inventory.py).                                      *)

\* A hold is taken once, for print orders only.
NeedsHold(o) == o \in PrintOrders /\ ~inventory_reserved[o]

InStock(o) == \A m \in Models : stock[m] >= items[o][m]

\* reserve_inventory: every model or, by the savepoint, none.
Reserve(o) ==
    IF NeedsHold(o)
    THEN /\ stock' = [m \in Models |-> stock[m] - items[o][m]]
         /\ inventory_reserved' = [inventory_reserved EXCEPT ![o] = TRUE]
    ELSE UNCHANGED <<stock, inventory_reserved>>

\* Mutants: a hold given back under a capture, or units given back that were
\* never held.
ReleaseDuringCapture(o) ==
    /\ stock' = IF inventory_reserved[o]
                THEN [m \in Models |-> stock[m] + items[o][m]] ELSE stock
    /\ inventory_reserved' = [inventory_reserved EXCEPT ![o] = FALSE]
    /\ inventory_reserved_until' = [inventory_reserved_until EXCEPT ![o] = "none"]
    /\ UNCHANGED inventory_consumed
ReleaseUnheld(o) ==
    /\ ~capture_started[o]
    /\ stock' = [m \in Models |-> stock[m] + items[o][m]]
    /\ inventory_reserved' = [inventory_reserved EXCEPT ![o] = FALSE]
    /\ inventory_reserved_until' = [inventory_reserved_until EXCEPT ![o] = "none"]
    /\ UNCHANGED inventory_consumed

\* release_inventory: refused (409) once a capture may have happened.
Release(o) ==
    /\ ~capture_started[o]
    /\ stock' = IF inventory_reserved[o]
                THEN [m \in Models |-> stock[m] + items[o][m]] ELSE stock
    /\ inventory_reserved' = [inventory_reserved EXCEPT ![o] = FALSE]
    /\ inventory_reserved_until' = [inventory_reserved_until EXCEPT ![o] = "none"]
    /\ UNCHANGED inventory_consumed

\* Thirty minutes have passed since the hold was taken.
HoldTimesOut(o) ==
    /\ inventory_reserved_until[o] = "running"
    /\ inventory_reserved_until' = [inventory_reserved_until EXCEPT ![o] = "over"]
    /\ UNCHANGED <<orderVars, inventory_reserved, inventory_consumed, stock,
                   outcomeVars, payPalVars, jobVars>>

\* The job reads the candidates and commits, which drops every lock.  A hold
\* taken again after this read is "over" here only after another 30 minutes.
ExpireScan ==
    /\ expiring = {}
    /\ expiring' = {o \in Orders : /\ status[o] = "pending_payment"
                                   /\ inventory_reserved[o]
                                   /\ ~capture_started[o]
                                   /\ inventory_reserved_until[o] = "over"}
    /\ expiring' # {}
    /\ UNCHANGED <<orderVars, holdVars, outcomeVars, payPalVars, attempts, deletions>>

\* The order is locked and looked at again before its hold is given up.
StillExpired(o) ==
    /\ status[o] = "pending_payment"
    /\ ~capture_started[o]
    /\ inventory_reserved_until[o] = "over"

\* A row deleted since the scan is not found, which ends the pass.
ExpireOne(o) ==
    /\ o \in expiring
    /\ expiring' = IF status[o] = "deleted" THEN {} ELSE expiring \ {o}
    /\ IF StillExpired(o)
       THEN /\ Release(o)
            /\ paypal_order_id' = [paypal_order_id EXCEPT ![o] = NoVoucher]
       ELSE UNCHANGED <<holdVars, paypal_order_id>>
    /\ UNCHANGED <<status, items, price, capture_started, address_snapshot,
                   outcomeVars, payPalVars, attempts, deletions>>

-----------------------------------------------------------------------------
(* The cart (routers/order.py).                                              *)

ItemCount(o) == SumFunction(items[o])

\* create_order, no cart to merge with: a new row with quantity n of model m.
CreateOrder(o, m, n) ==
    /\ status[o] = "absent"
    /\ o \in PrintOrders => stock[m] >= n
    /\ o \in Subscriptions => n = 1
    /\ status' = [status EXCEPT ![o] = "pending_payment"]
    /\ items' = [items EXCEPT ![o] = [Empty EXCEPT ![m] = n]]
    /\ price' = [price EXCEPT ![o] = n * Price[m]]
    /\ UNCHANGED <<paypal_order_id, capture_started, address_snapshot,
                   holdVars, outcomeVars, payPalVars, jobVars>>

\* Discounted orders are frozen once a voucher exists for them.
Editable(o) == o \in Discounted => paypal_order_id[o] = NoVoucher

\* create_order, merging into an unpaid cart.  The hold is given back for the
\* old basket before the new item is added, and the voucher is forgotten.
MergeIntoOrder(o, m) ==
    /\ status[o] = "pending_payment"
    /\ o \in PrintOrders
    /\ Editable(o)
    /\ ItemCount(o) + 1 <= ItemLimit
    /\ stock[m] > 0
    /\ items[o][m] + 1 <= stock[m] + (IF inventory_reserved[o] THEN items[o][m] ELSE 0)
    /\ Release(o)
    /\ items' = [items EXCEPT ![o][m] = @ + 1]
    /\ price' = [price EXCEPT ![o] = @ + Price[m]]
    /\ paypal_order_id' = [paypal_order_id EXCEPT ![o] = NoVoucher]
    /\ UNCHANGED <<status, capture_started, address_snapshot, outcomeVars,
                   payPalVars, jobVars>>

\* delete_order_item reads the item without a lock: a row no request has
\* read, or one that others are about to delete too.
ReadItem(d, o, m) ==
    /\ \A x \in deletions : d \notin x.readers
    /\ status[o] = "pending_payment"
    /\ LET read == {x \in deletions : x.order = o /\ x.model = m /\ ~x.gone} IN
       \/ /\ Cardinality(read) < items[o][m]
          /\ deletions' = deletions \cup
                 {[order |-> o, model |-> m, readers |-> {d}, gone |-> FALSE]}
       \/ \E x \in read :
              deletions' = (deletions \ {x}) \cup {[x EXCEPT !.readers = @ \cup {d}]}
    /\ UNCHANGED <<orderVars, holdVars, outcomeVars, payPalVars, attempts, expiring>>

\* Request d is done with the item x; gone says whether x is still a row.
Finish(d, x, gone) ==
    deletions' = (deletions \ {x}) \cup
        (IF x.readers = {d} THEN {} ELSE {[x EXCEPT !.readers = @ \ {d}, !.gone = gone]})

\* The row that was read; deleting one that has gone deletes nothing.
IsRow(x) == ~x.gone /\ items[x.order][x.model] > 0

\* Mutant: the price of an item is not taken off with it.
DeductNothing(amount, m) == amount

\* What the price becomes without an item of model m; never below zero.
Deduct(amount, m) == IF amount > Price[m] THEN amount - Price[m] ELSE 0

\* Under the order's lock, but with the item as it was read: its price is
\* deducted whether or not its row is still there.  The last item takes the
\* order with it.
DeleteItem(d, x) ==
    LET o == x.order IN
    /\ x \in deletions
    /\ d \in x.readers
    /\ status[o] = "pending_payment"
    /\ Editable(o)
    /\ Release(o)
    /\ items' = IF IsRow(x) THEN [items EXCEPT ![o][x.model] = @ - 1] ELSE items
    /\ price' = [price EXCEPT ![o] = Deduct(@, x.model)]
    /\ paypal_order_id' = [paypal_order_id EXCEPT ![o] = NoVoucher]
    /\ status' = IF items'[o] = Empty
                 THEN [status EXCEPT ![o] = "cancelled"] ELSE status
    /\ Finish(d, x, TRUE)
    /\ UNCHANGED <<capture_started, address_snapshot, outcomeVars, payPalVars,
                   attempts, expiring>>

\* The deletion is refused, or its process stops.
DropDeletion(d, x) ==
    /\ x \in deletions
    /\ d \in x.readers
    /\ Finish(d, x, x.gone)
    /\ UNCHANGED <<orderVars, holdVars, outcomeVars, payPalVars, attempts, expiring>>

\* cancel_order keeps the voucher on the row.
CancelOrder(o) ==
    /\ status[o] = "pending_payment"
    /\ Release(o)
    /\ status' = [status EXCEPT ![o] = "cancelled"]
    /\ UNCHANGED <<items, price, paypal_order_id, capture_started, address_snapshot,
                   outcomeVars, payPalVars, jobVars>>

\* delete_order: the row goes, and the voucher's number with it.
DeleteOrder(o) ==
    /\ status[o] = "cancelled"
    /\ status' = [status EXCEPT ![o] = "deleted"]
    /\ items' = [items EXCEPT ![o] = Empty]
    /\ price' = [price EXCEPT ![o] = 0]
    /\ paypal_order_id' = [paypal_order_id EXCEPT ![o] = NoVoucher]
    /\ UNCHANGED <<capture_started, address_snapshot, holdVars, outcomeVars,
                   payPalVars, jobVars>>

-----------------------------------------------------------------------------
(* The PayPal voucher.                                                       *)

\* _validate_paypal_payload_for_order: the binding and the amount.
Matches(v, o) == voucher_order[v] = o /\ voucher_price[v] = price[o]

\* create_paypal_order keeps the order's voucher unless the buyer must choose
\* another wallet address or the voucher predates the present checkout.
KeepsVoucher(o) ==
    LET v == paypal_order_id[o] IN
    /\ v # NoVoucher
    /\ ~(o \in WalletOrders /\ voucher_status[v] = "APPROVED" /\ voucher_address[v] = "bad")
    /\ ~(o \in PrintOrders /\ voucher_status[v] = "CREATED" /\ ~voucher_locked[v])

\* The guards shared by every way through create_paypal_order.
Checkout(o) ==
    /\ status[o] = "pending_payment"
    /\ ~capture_started[o]
    /\ NeedsHold(o) => InStock(o)

\* A hold taken here runs for 30 minutes; one that is held keeps its time.
HoldForCheckout(o) ==
    /\ Reserve(o)
    /\ inventory_reserved_until' =
           IF NeedsHold(o) THEN [inventory_reserved_until EXCEPT ![o] = "running"]
           ELSE inventory_reserved_until

ReuseVoucher(o) ==
    /\ Checkout(o)
    /\ KeepsVoucher(o)
    /\ HoldForCheckout(o)
    /\ UNCHANGED <<orderVars, inventory_consumed, outcomeVars, payPalVars, jobVars>>

\* PayPal creates v; the answer may be lost, and then nothing is committed.
CreateVoucher(o, v, answered) ==
    /\ Checkout(o)
    /\ ~KeepsVoucher(o)
    /\ voucher_status[v] = "unused"
    /\ voucher_status' = [voucher_status EXCEPT ![v] = "CREATED"]
    /\ voucher_order' = [voucher_order EXCEPT ![v] = o]
    /\ voucher_price' = [voucher_price EXCEPT ![v] = price[o]]
    /\ voucher_locked' = [voucher_locked EXCEPT ![v] = TRUE]
    /\ IF answered
       THEN /\ HoldForCheckout(o)
            /\ paypal_order_id' = [paypal_order_id EXCEPT ![o] = v]
       ELSE UNCHANGED <<stock, inventory_reserved, inventory_reserved_until, paypal_order_id>>
    /\ UNCHANGED <<status, items, price, capture_started, address_snapshot,
                   inventory_consumed, outcomeVars, voucher_address, jobVars>>

\* PayPal: the buyer approves the payment and, from a wallet, an address.
BuyerApproves(v, address) ==
    /\ voucher_status[v] = "CREATED"
    /\ address = "bad" => voucher_order[v] \in WalletOrders
    /\ voucher_status' = [voucher_status EXCEPT ![v] = "APPROVED"]
    /\ voucher_address' = [voucher_address EXCEPT ![v] = address]
    /\ UNCHANGED <<orderVars, holdVars, outcomeVars, voucher_order, voucher_price,
                   voucher_locked, jobVars>>

-----------------------------------------------------------------------------
(* Confirmation (complete_order_payment), called for the order's own voucher *)
(* by pay_order and by _repair_unhandled_orders.                             *)

Idle(s) == \A a \in attempts : a.session # s

\* Mutants: a voucher once captured is not looked at again; the marker is not
\* committed before the capture.
PayableOnce(v) == voucher_status[v] = "APPROVED"
StartCaptureUnmarked(o) == UNCHANGED capture_started

\* A payment PayPal calls approved or captured can be confirmed.
Payable(v) == voucher_status[v] \in {"APPROVED", "COMPLETED"}

\* A wallet order needs an address that can be delivered to, read once.
Deliverable(o, v) ==
    o \in WalletOrders =>
        (capture_started[o] /\ address_snapshot[o]) \/ voucher_address[v] = "ok"

\* From here on a capture may have happened; never taken back.
StartCapture(o) == capture_started' = [capture_started EXCEPT ![o] = TRUE]

\* First transaction: ask PayPal, save the wallet address, hold the stock and
\* commit that a capture may follow.  A captured payment is accepted without
\* stock.  A wallet address that cannot be delivered to refuses an approved
\* voucher; the branch for an undeliverable address on a captured one cannot
\* be reached (WalletCaptureHasAddress).
ConfirmBegin(s, o) ==
    LET v == paypal_order_id[o]
        backordered == NeedsHold(o) /\ ~InStock(o)
    IN
    /\ Idle(s)
    /\ status[o] = "pending_payment"
    /\ v # NoVoucher
    /\ Payable(v)
    /\ Matches(v, o)
    /\ Deliverable(o, v)
    /\ backordered => voucher_status[v] = "COMPLETED"
    /\ IF backordered THEN UNCHANGED <<stock, inventory_reserved>> ELSE Reserve(o)
    /\ inventory_reserved_until' = [inventory_reserved_until EXCEPT ![o] = "none"]
    /\ StartCapture(o)
    /\ address_snapshot' = [address_snapshot EXCEPT ![o] = o \in WalletOrders]
    /\ attempts' = attempts \cup
           {[session |-> s, order |-> o, voucher |-> v,
             seen |-> voucher_status[v], backordered |-> backordered]}
    /\ UNCHANGED <<status, items, price, paypal_order_id, inventory_consumed,
                   outcomeVars, payPalVars, expiring, deletions>>

\* The order is locked again: somebody else has finished the confirmation.
ConfirmNothingLeft(a) ==
    /\ a \in attempts
    /\ status[a.order] \in Settled
    /\ attempts' = attempts \ {a}
    /\ UNCHANGED <<orderVars, holdVars, outcomeVars, payPalVars, expiring, deletions>>

\* Mutant: no second look at the order.
MayCaptureAgain(a) == TRUE

\* What the second look at the order lets through.
MayCapture(a) == status[a.order] \notin Settled

\* An order paid without stock is marked for the review.
GoodsStatus(a) == IF a.backordered THEN "awaiting_stock" ELSE "awaiting_review"

\* The capture has to be COMPLETED before the payment is recorded.
Capture(v) == voucher_status' = [voucher_status EXCEPT ![v] = "COMPLETED"]

\* _activate_order_benefits, and the mark of an order paid without stock.
ActivateBenefits(a) ==
    LET o == a.order IN
    /\ pro_months' = IF o \in Subscriptions THEN [pro_months EXCEPT ![o] = @ + 1] ELSE pro_months
    /\ figure_review_status' = IF o \in PrintOrders
           THEN [figure_review_status EXCEPT ![o] = "pending"] ELSE figure_review_status
    /\ goods_status' = IF o \in PrintOrders
           THEN [goods_status EXCEPT ![o] = GoodsStatus(a)] ELSE goods_status

\* Second transaction: capture unless the payment was already seen captured,
\* and record it.  The hold is consumed with the order it was taken for.
ConfirmRecord(a) ==
    LET o == a.order IN
    /\ a \in attempts
    /\ MayCapture(a)
    /\ paypal_order_id[o] = a.voucher
    /\ Matches(a.voucher, o)
    /\ a.seen = "COMPLETED" \/ voucher_status[a.voucher] = "APPROVED"
    /\ Capture(a.voucher)
    /\ status' = [status EXCEPT ![o] = "paid"]
    /\ ActivateBenefits(a)
    /\ inventory_consumed' = [inventory_consumed EXCEPT ![o] = inventory_reserved[o]]
    /\ inventory_reserved' = [inventory_reserved EXCEPT ![o] = FALSE]
    /\ attempts' = attempts \ {a}
    /\ UNCHANGED <<items, price, paypal_order_id, capture_started, address_snapshot, stock,
                   inventory_reserved_until, voucher_order, voucher_price,
                   voucher_locked, voucher_address, expiring, deletions>>

\* PayPal captures, but the answer or the commit is lost.
ConfirmAnswerLost(a) ==
    /\ a \in attempts
    /\ MayCapture(a)
    /\ paypal_order_id[a.order] = a.voucher
    /\ a.seen = "APPROVED"
    /\ voucher_status[a.voucher] = "APPROVED"
    /\ Capture(a.voucher)
    /\ attempts' = attempts \ {a}
    /\ UNCHANGED <<orderVars, holdVars, outcomeVars, voucher_order, voucher_price,
                   voucher_locked, voucher_address, expiring, deletions>>

\* A crash, an unreachable or refusing PayPal: the attempt ends, nothing more.
ConfirmAbandoned(a) ==
    /\ a \in attempts
    /\ attempts' = attempts \ {a}
    /\ UNCHANGED <<orderVars, holdVars, outcomeVars, payPalVars, expiring, deletions>>

-----------------------------------------------------------------------------

CartStep ==
    \E o \in Orders :
        \/ \E m \in Models, n \in 1..ItemLimit : CreateOrder(o, m, n)
        \/ \E m \in Models : MergeIntoOrder(o, m)
        \/ CancelOrder(o)
        \/ DeleteOrder(o)

DeletionStep ==
    \E d \in Deleters :
        \/ \E o \in Orders, m \in Models : ReadItem(d, o, m)
        \/ \E x \in deletions : DeleteItem(d, x) \/ DropDeletion(d, x)

VoucherStep ==
    \/ \E o \in Orders : ReuseVoucher(o)
    \/ \E o \in Orders, v \in Vouchers, answered \in BOOLEAN : CreateVoucher(o, v, answered)
    \/ \E v \in Vouchers, address \in {"ok", "bad"} : BuyerApproves(v, address)

ExpiryStep ==
    \/ ExpireScan
    \/ \E o \in Orders : HoldTimesOut(o) \/ ExpireOne(o)

ConfirmStep ==
    \/ \E s \in Sessions, o \in Orders : ConfirmBegin(s, o)
    \/ \E a \in attempts :
           \/ ConfirmNothingLeft(a)
           \/ ConfirmRecord(a)
           \/ ConfirmAnswerLost(a)
           \/ ConfirmAbandoned(a)

Next == CartStep \/ DeletionStep \/ VoucherStep \/ ExpiryStep \/ ConfirmStep

Spec == Init /\ [][Next]_vars

(* background_service runs the reconciliation every minute for as long as    *)
(* the service is up, every pending order with a voucher is tried, and one   *)
(* that fails is tried again: strong fairness of its two transactions says   *)
(* that PayPal does not fail each time.  Nothing is assumed of buyers.       *)
JobFairness(o) ==
    /\ SF_vars(ConfirmBegin(Job, o))
    /\ SF_vars(\E a \in attempts : a.session = Job /\ a.order = o /\ ConfirmRecord(a))
    /\ WF_vars(\E a \in attempts :
                  a.session = Job /\ a.order = o /\ (ConfirmNothingLeft(a) \/ ConfirmAbandoned(a)))

FairSpec == Spec /\ \A o \in Orders : JobFairness(o)

-----------------------------------------------------------------------------
(* Properties.                                                               *)

Captured(v) == voucher_status[v] = "COMPLETED"

\* Whatever buyer, job and expiry do to an order, money taken for it stays
\* bound to it: the order keeps that voucher and the price the voucher asked
\* for, which is never more than its basket's, and is neither cancelled nor
\* deleted.  It may be less: overlapping deletions of one item deduct it more
\* than once (routers/order.py:782).  (Rows older than the capture marker
\* carry no record of a capture and are not covered.)
ChargedOrderIsKept ==
    \A v \in Vouchers : Captured(v) /\ voucher_order[v] \notin Legacy =>
        LET o == voucher_order[v] IN
        /\ paypal_order_id[o] = v
        /\ voucher_price[v] = price[o]
        /\ price[o] <= BasketPrice(items[o])
        /\ status[o] \in {"pending_payment"} \cup PaidFor

\* A buyer is never charged twice for one order, whatever number of vouchers
\* its checkouts created (routers/order.py:834).
ChargedAtMostOnce ==
    \A v, w \in Vouchers :
        /\ Captured(v) /\ Captured(w)
        /\ voucher_order[v] = voucher_order[w]
        /\ voucher_order[v] \notin Legacy
        => v = w

\* An order is only ever paid by a captured voucher of its own, for exactly
\* the price on the order.
PaidMeansCharged ==
    \A o \in Orders : status[o] \in PaidFor =>
        /\ paypal_order_id[o] \in Vouchers
        /\ Captured(paypal_order_id[o])
        /\ voucher_order[paypal_order_id[o]] = o
        /\ voucher_price[paypal_order_id[o]] = price[o]

\* Units an order has taken off the shelf and would give back.
Taken(o, m) == IF inventory_reserved[o] \/ inventory_consumed[o] THEN items[o][m] ELSE 0

\* Units are on the shelf or taken by an order; none is lost or made up by
\* holds, expiries, merges, deletions and cancellations in any order.
StockConserved ==
    \A m \in Models :
        stock[m] + SumFunction([o \in Orders |-> Taken(o, m)]) = InitialStock[m]

\* No step changes the stock but by what it takes for, or gives back from, one
\* order: the step-by-step form of StockConserved.
UnitsMoveWithOneOrder ==
    [][\E o \in Orders : \A m \in Models :
           /\ stock'[m] + Taken(o, m)' = stock[m] + Taken(o, m)
           /\ \A p \in Orders \ {o} : Taken(p, m)' = Taken(p, m)]_vars

\* A paid figure order has consumed stock for its whole basket: only an order
\* that predates holds can be paid and left without (routers/order.py:296).
PaidOrderHasStock ==
    \A o \in PrintOrders \ Legacy :
        status[o] \in {"paid", "shipping", "completed"} => inventory_consumed[o]

\* An order paid without units in stock says so to the reviewer, even when
\* several confirmations saw the stock at different moments.
BackorderIsFlagged ==
    \A o \in PrintOrders : status[o] = "paid" /\ ~inventory_consumed[o] =>
        goods_status[o] = "awaiting_stock"

\* "An uncertain capture keeps its hold until PayPal reconciliation; it must
\* never expire blindly" (order_inventory.py:3), nor may the basket, its price
\* or the voucher change under it.
UncertainCaptureKeepsHold ==
    [][\A o \in Orders : capture_started[o] /\ status[o] = "pending_payment" =>
           /\ status'[o] \in {"pending_payment", "paid"}
           /\ inventory_reserved[o] => inventory_reserved'[o] \/ inventory_consumed'[o]
           /\ items'[o] = items[o]
           /\ price'[o] = price[o]
           /\ paypal_order_id'[o] = paypal_order_id[o]]_vars

\* However often a payment is confirmed, Pro time is granted once for it.
ProGrantedOncePerPayment ==
    \A o \in Subscriptions : pro_months[o] = IF status[o] \in PaidFor THEN 1 ELSE 0

\* A wallet order's money is only taken when a deliverable address is saved,
\* and a marked order has one: the branch of complete_order_payment that
\* freezes a captured or marked order for want of an address is never taken.
WalletCaptureHasAddress ==
    \A o \in WalletOrders :
        /\ capture_started[o] => address_snapshot[o]
        /\ \A v \in Vouchers : Captured(v) /\ voucher_order[v] = o =>
               capture_started[o] /\ voucher_address[v] = "ok"

(* The abstract checkout this module implements: an order is charged once    *)
(* a voucher bound to it is captured, and settled once that is recorded.     *)
PhaseOf(o) ==
    CASE status[o] \in {"cancelled", "deleted"} -> "closed"
      [] status[o] \in {"paid"} -> "settled"
      [] status[o] \in {"shipping", "completed"} -> "shipped"
      [] status[o] = "refund_pending" -> "refunding"
      [] status[o] = "refunded" -> "refunded"
      [] OTHER -> IF \E v \in Vouchers : voucher_order[v] = o /\ Captured(v)
                  THEN "charged" ELSE "open"

Abstract == INSTANCE Checkout WITH phase <- [o \in Orders |-> PhaseOf(o)]

\* Every behaviour of the code is one of the abstract checkout: an order is
\* charged once, and paid only when it is charged (routers/order.py:297).
ImplementsCheckout == Abstract!Spec

\* And a captured payment is recorded in the end, even when the answer to the
\* capture or the commit after it was lost (routers/order.py:303).
SettlesCharges == Abstract!FairSpec

=============================================================================
