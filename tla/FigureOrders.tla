---------------------------- MODULE FigureOrders ----------------------------
(***************************************************************************)
(* The whole life of an order: OrderPayment, then human review, production *)
(* and shipment of a figure, or rejection and refund (figure_orders.py,    *)
(* routers/figure_admin.py).                                               *)
(*                                                                         *)
(* process_refund keeps the order's row lock while it talks to PayPal and  *)
(* commits once, so it is one action for each thing PayPal may answer, or  *)
(* for the process stopping before the commit.  It is called by the        *)
(* rejecting request, the sync endpoint and the refund job; the last looks *)
(* at queued and pending refunds only.                                     *)
(***************************************************************************)
EXTENDS OrderPayment

VARIABLES
    refund_status,     \* Order.refund_status
    refund_known,      \* paypal_refund_id is saved
    refund_window,     \* six hours since refund_requested_at: "open" or "closed"
    voucher_refund     \* PayPal: what happened to the captured money

refundVars == <<refund_status, refund_known, refund_window, voucher_refund>>
allVars == <<vars, refundVars>>

RefundStatuses == {"none", "queued", "pending", "failed", "manual_review", "completed"}
PayPalRefunds == {"none", "PENDING", "FAILED", "COMPLETED", "PARTIAL"}

FigureTypeOK ==
    /\ TypeOK
    /\ refund_status \in [Orders -> RefundStatuses]
    /\ refund_known \in [Orders -> BOOLEAN]
    /\ refund_window \in [Orders -> {"none", "open", "closed"}]
    /\ voucher_refund \in [Vouchers -> PayPalRefunds]

FigureInit ==
    /\ Init
    /\ refund_status = [o \in Orders |-> "none"]
    /\ refund_known = [o \in Orders |-> FALSE]
    /\ refund_window = [o \in Orders |-> "none"]
    /\ voucher_refund = [v \in Vouchers |-> "none"]

-----------------------------------------------------------------------------
(* Review and production (figure_admin.py).                                  *)

\* Mutant: a decision can be taken back while its refund is under way.
AwaitsReviewAgain(o) ==
    /\ status[o] \in {"paid", "refund_pending"}
    /\ figure_review_status[o] \in {"pending", "rejected"}

\* Orders older than the review, with no review status at all, are not modelled.
AwaitsReview(o) == status[o] = "paid" /\ figure_review_status[o] = "pending"

\* review_order, decision "approve".
Approve(o) ==
    /\ o \in PrintOrders
    /\ AwaitsReview(o)
    /\ figure_review_status' = [figure_review_status EXCEPT ![o] = "approved"]
    /\ goods_status' = [goods_status EXCEPT ![o] = "preparing"]
    /\ UNCHANGED <<orderVars, holdVars, pro_months, payPalVars, jobVars, refundVars>>

\* review_order, decision "reject": committed before PayPal is contacted.
Reject(o) ==
    /\ o \in PrintOrders
    /\ AwaitsReview(o)
    /\ figure_review_status' = [figure_review_status EXCEPT ![o] = "rejected"]
    /\ goods_status' = [goods_status EXCEPT ![o] = "rejected"]
    /\ status' = [status EXCEPT ![o] = "refund_pending"]
    /\ refund_status' = [refund_status EXCEPT ![o] = "queued"]
    /\ refund_window' = [refund_window EXCEPT ![o] = "open"]
    /\ UNCHANGED <<items, price, paypal_order_id, capture_started, address_snapshot, holdVars,
                   pro_months, payPalVars, jobVars, refund_known, voucher_refund>>

\* update_fulfillment: printing, then shipping, then completed.
Produce(o) ==
    /\ figure_review_status[o] = "approved"
    /\ \/ /\ status[o] = "paid" /\ goods_status[o] = "preparing"
          /\ goods_status' = [goods_status EXCEPT ![o] = "printing"]
          /\ UNCHANGED status
       \/ /\ status[o] = "paid" /\ goods_status[o] = "printing"
          /\ goods_status' = [goods_status EXCEPT ![o] = "shipping"]
          /\ status' = [status EXCEPT ![o] = "shipping"]
       \/ /\ status[o] = "shipping" /\ goods_status[o] # "completed"
          /\ goods_status' = [goods_status EXCEPT ![o] = "completed"]
          /\ status' = [status EXCEPT ![o] = "completed"]
    /\ UNCHANGED <<items, price, paypal_order_id, capture_started, address_snapshot, holdVars,
                   figure_review_status, pro_months, payPalVars, jobVars, refundVars>>

-----------------------------------------------------------------------------
(* The refund (figure_orders.py).                                            *)

\* Where process_refund gets past its first guard.
Refundable(o) ==
    /\ o \in PrintOrders
    /\ figure_review_status[o] = "rejected"
    /\ status[o] = "refund_pending"

\* Mutants: a pending refund passes for a completed one; the units of a
\* refunded order go back to the stock and stay with the order; a refund
\* PayPal took up is not looked at again.
ReturnedOrPending(answer) == answer \in {"COMPLETED", "PENDING"}
RestockAndKeep(o) ==
    /\ stock' = [m \in Models |-> stock[m] + items[o][m]]
    /\ UNCHANGED inventory_consumed
JobRefundQueued(o) == refund_status[o] = "queued"

\* Only a completed refund ends the order.
Returned(answer) == answer = "COMPLETED"

\* The units of a refunded order go back to the stock, once.
Restock(o) ==
    /\ stock' = IF inventory_consumed[o]
                THEN [m \in Models |-> stock[m] + items[o][m]] ELSE stock
    /\ inventory_consumed' = [inventory_consumed EXCEPT ![o] = FALSE]

\* _apply_refund, for what PayPal says of the refund.
Apply(o, answer) ==
    /\ refund_known' = [refund_known EXCEPT ![o] = TRUE]
    /\ refund_status' = [refund_status EXCEPT ![o] =
           CASE answer = "COMPLETED" -> "completed"
             [] answer = "PENDING" -> "pending"
             [] answer = "FAILED" -> "failed"]
    /\ IF Returned(answer)
       THEN /\ status' = [status EXCEPT ![o] = "refunded"]
            /\ Restock(o)
       ELSE UNCHANGED <<status, stock, inventory_consumed>>
    /\ UNCHANGED refund_window

\* What process_refund leaves alone whatever PayPal answers.
RefundFrame ==
    UNCHANGED <<items, price, paypal_order_id, capture_started, address_snapshot,
                inventory_reserved, inventory_reserved_until, outcomeVars, payPalVars, jobVars>>

\* The outcome is unknown: a failed or handed-over refund is left as it is.
Unconfirmed(refund) == IF refund \in {"failed", "manual_review"} THEN refund ELSE "pending"

\* A refund that exists is read, or found on the PayPal order and adopted,
\* and never posted again.
AdoptRefund(o) ==
    LET v == paypal_order_id[o] IN
    /\ Refundable(o)
    /\ voucher_refund[v] \in {"PENDING", "FAILED", "COMPLETED"}
    /\ Apply(o, voucher_refund[v])
    /\ RefundFrame
    /\ UNCHANGED voucher_refund

\* None exists and the key of the first request is still known to PayPal: the
\* refund is posted.  With the answer lost the outcome is unknown; a process
\* that stops before the commit leaves the row as it was.
PostRefund(o, outcome, answer) ==
    LET v == paypal_order_id[o] IN
    /\ Refundable(o)
    /\ ~refund_known[o]
    /\ voucher_refund[v] = "none"
    /\ refund_window[o] = "open"
    /\ voucher_refund' = [voucher_refund EXCEPT ![v] = outcome]
    /\ \/ answer = "read" /\ Apply(o, outcome)
       \/ /\ answer \in {"lost", "crash"}
          /\ refund_status' = IF answer = "lost"
                 THEN [refund_status EXCEPT ![o] = Unconfirmed(@)] ELSE refund_status
          /\ UNCHANGED <<status, stock, inventory_consumed, refund_known, refund_window>>
    /\ RefundFrame

\* PayPal cannot be reached, before anything was posted.
RefundUnconfirmed(o) ==
    /\ Refundable(o)
    /\ refund_status' = [refund_status EXCEPT ![o] = Unconfirmed(@)]
    /\ RefundFrame
    /\ UNCHANGED <<status, stock, inventory_consumed, refund_known, refund_window, voucher_refund>>

\* A refund the code cannot repeat or adopt whatever PayPal answers.
TooLateOrPartial(o) ==
    \/ voucher_refund[paypal_order_id[o]] = "PARTIAL"
    \/ voucher_refund[paypal_order_id[o]] = "none" /\ refund_window[o] = "closed"

\* The request is too old to be repeated, somebody refunded a part by hand, or
\* an answer of PayPal cannot be read or does not fit the order.
RefundNeedsPerson(o) ==
    /\ Refundable(o)
    /\ refund_status' = [refund_status EXCEPT ![o] = "manual_review"]
    /\ RefundFrame
    /\ UNCHANGED <<status, stock, inventory_consumed, refund_known, refund_window, voucher_refund>>

\* Six hours have passed since the refund was requested.
RefundWindowCloses(o) ==
    /\ refund_window[o] = "open"
    /\ refund_window' = [refund_window EXCEPT ![o] = "closed"]
    /\ UNCHANGED <<vars, refund_status, refund_known, voucher_refund>>

\* PayPal: a pending refund ends, and a failed one may be resolved later.
PayPalSettlesRefund(v, outcome) ==
    /\ \/ voucher_refund[v] = "PENDING" /\ outcome \in {"COMPLETED", "FAILED"}
       \/ voucher_refund[v] = "FAILED" /\ outcome = "COMPLETED"
    /\ voucher_refund' = [voucher_refund EXCEPT ![v] = outcome]
    /\ UNCHANGED <<vars, refund_status, refund_known, refund_window>>

\* Somebody refunds a rejected order in PayPal's own console, wholly or partly.
SupportRefunds(o, outcome) ==
    LET v == paypal_order_id[o] IN
    /\ status[o] = "refund_pending"
    /\ voucher_refund[v] = "none"
    /\ outcome \in {"COMPLETED", "PARTIAL"}
    /\ voucher_refund' = [voucher_refund EXCEPT ![v] = outcome]
    /\ UNCHANGED <<vars, refund_status, refund_known, refund_window>>

-----------------------------------------------------------------------------

ReviewStep == \E o \in Orders : Approve(o) \/ Reject(o) \/ Produce(o)

ProcessRefund(o) ==
    \/ AdoptRefund(o)
    \/ \E outcome \in {"PENDING", "FAILED", "COMPLETED"}, answer \in {"read", "lost", "crash"} :
           PostRefund(o, outcome, answer)
    \/ RefundUnconfirmed(o)
    \/ RefundNeedsPerson(o)

RefundStep ==
    \/ \E o \in Orders :
           \/ ProcessRefund(o)
           \/ RefundWindowCloses(o)
           \/ \E outcome \in PayPalRefunds : SupportRefunds(o, outcome)
    \/ \E v \in Vouchers, outcome \in PayPalRefunds : PayPalSettlesRefund(v, outcome)

FigureNext ==
    \/ Next /\ UNCHANGED refundVars
    \/ ReviewStep
    \/ RefundStep

FigureSpec == FigureInit /\ [][FigureNext]_allVars

(* The refund job runs with the reconciliation job and takes every queued or *)
(* pending refund it has not looked at for five minutes; PayPal is assumed   *)
(* to answer it sooner or later, and to end a pending refund.                *)
JobRefund(o) == refund_status[o] \in {"queued", "pending"}

FigureFairSpec ==
    /\ FigureSpec
    /\ \A o \in Orders :
        /\ SF_allVars(JobRefund(o) /\ AdoptRefund(o))
        /\ SF_allVars(JobRefund(o) /\ \E r \in {"PENDING", "FAILED", "COMPLETED"} : PostRefund(o, r, "read"))
        /\ SF_allVars(JobRefund(o) /\ TooLateOrPartial(o) /\ RefundNeedsPerson(o))
    /\ \A v \in Vouchers : WF_allVars(\E r \in PayPalRefunds : PayPalSettlesRefund(v, r))

-----------------------------------------------------------------------------
(* Properties.                                                               *)

\* An order is called refunded only when all of its money has gone back.
RefundedMoneyWentBack ==
    \A o \in Orders : status[o] = "refunded" =>
        voucher_refund[paypal_order_id[o]] = "COMPLETED"

\* Money goes back only for an order a person has rejected, and the decision
\* is not taken back while it does.
RefundFollowsRejection ==
    \A v \in Vouchers : voucher_refund[v] # "none" =>
        LET o == voucher_order[v] IN
        /\ figure_review_status[o] = "rejected"
        /\ status[o] \in {"refund_pending", "refunded"}

\* A refund in progress comes to an end a person or the buyer can see.
RefundIsResolved ==
    \A o \in Orders : status[o] = "refund_pending" ~>
        status[o] = "refunded" \/ refund_status[o] \in {"failed", "manual_review"}

\* "Repeated confirmation is a no-op" (routers/order.py:261): a confirmation
\* that ends on an order already paid for leaves the order as it is.
RepeatedConfirmationIsNoop ==
    [][\A a \in attempts : a \notin attempts' /\ status[a.order] \in PaidFor =>
           /\ status'[a.order] = status[a.order]
           /\ figure_review_status'[a.order] = figure_review_status[a.order]
           /\ inventory_consumed'[a.order] = inventory_consumed[a.order]]_allVars

=============================================================================
