---------------------------- MODULE MCOrderPayment ----------------------------
(* Instances of OrderPayment for TLC.                                        *)
EXTENDS OrderPayment, TLC

CONSTANTS StockPerModel, PricePerModel  \* the same for every model

MCStock == [m \in Models |-> StockPerModel]
MCPrice == [m \in Models |-> PricePerModel]

\* Vouchers and deleting requests only differ by name; so do models, all with
\* the same stock and price.
Symmetry == Permutations(Vouchers) \cup Permutations(Models) \cup Permutations(Deleters)

\* Bound: one item at a time is being deleted, by as many requests as there
\* are, and not while a payment of another order is confirmed; a deletion that
\* will be refused whatever happens is not carried on.  Beside an order that has
\* become too cheap no other is open.
DeletionBound ==
    /\ Cardinality(deletions) <= 1
    /\ deletions # {} => attempts = {}
    /\ \A x \in deletions :
           status[x.order] = "pending_payment" /\ ~capture_started[x.order]
    /\ \A o, p \in Orders :
           price[o] < BasketPrice(items[o]) /\ o # p => status[p] # "pending_payment"
=============================================================================
