------------------------------ MODULE Checkout ------------------------------
(***************************************************************************)
(* What the shop promises about one order's money, with no vouchers, holds *)
(* or sessions: an order is charged at most once, a charged order is never *)
(* closed and is settled in the end, only a settled order is shipped or    *)
(* refunded, and a refunded order stays refunded.                          *)
(***************************************************************************)

CONSTANT Orders

VARIABLE phase  \* of each order: open, charged, settled, shipped, refunding, refunded, closed

Init == phase = [o \in Orders |-> "open"]

\* Order o goes from a phase of the set from to the phase to.
Move(o, from, to) ==
    /\ phase[o] \in from
    /\ phase' = [phase EXCEPT ![o] = to]

Charge(o)   == Move(o, {"open"}, "charged")              \* money taken, not yet recorded
Settle(o)   == Move(o, {"open", "charged"}, "settled")   \* the payment is recorded
Close(o)    == Move(o, {"open"}, "closed")               \* cancelled or deleted
Ship(o)     == Move(o, {"settled"}, "shipped")
Reject(o)   == Move(o, {"settled"}, "refunding")
Refund(o)   == Move(o, {"refunding"}, "refunded")

Next == \E o \in Orders :
    Charge(o) \/ Settle(o) \/ Close(o) \/ Ship(o) \/ Reject(o) \/ Refund(o)

Spec == Init /\ [][Next]_phase

\* A charged order is settled: the money never stays unaccounted for.
FairSpec == Spec /\ \A o \in Orders : WF_phase(phase[o] = "charged" /\ Settle(o))

=============================================================================
