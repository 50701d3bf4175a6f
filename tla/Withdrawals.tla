----------------------------- MODULE Withdrawals -----------------------------
(***************************************************************************)
(* What the shop promises about the money of a creator's withdrawals, with *)
(* no leases, attempts or answers: an amount is granted from what is left  *)
(* of the commission, leaves at most once, is called paid only when its    *)
(* recipient has it, and is available again only if it never left or has   *)
(* come back.                                                              *)
(***************************************************************************)
EXTENDS Integers, Functions

CONSTANTS Payouts, Amount

VARIABLES
    eligible,   \* commission earned, less what was refunded since
    phase       \* of each withdrawal: none, reserved, sent, received, paid, back, available

vars == <<eligible, phase>>

\* What is reserved or has left.
Taken == SumFunction([p \in Payouts |->
             IF phase[p] \in {"none", "available"} THEN 0 ELSE Amount[p]])

Init ==
    /\ eligible = 0
    /\ phase = [p \in Payouts |-> "none"]

Earn == eligible' \in Nat /\ UNCHANGED phase

\* Withdrawal p goes from a phase of the set from to the phase to.
Move(p, from, to) ==
    /\ phase[p] \in from
    /\ phase' = [phase EXCEPT ![p] = to]
    /\ UNCHANGED eligible

Request(p) == Amount[p] <= eligible - Taken /\ Move(p, {"none"}, "reserved")
Send(p)    == Move(p, {"reserved"}, "sent")
Receive(p) == Move(p, {"sent"}, "received")
Record(p)  == Move(p, {"received"}, "paid")              \* the table says so
Return(p)  == Move(p, {"sent", "received", "paid"}, "back")
Release(p) == Move(p, {"reserved", "back"}, "available")

Next ==
    \/ Earn
    \/ \E p \in Payouts : Request(p) \/ Send(p) \/ Receive(p) \/ Record(p) \/ Return(p) \/ Release(p)

Spec == Init /\ [][Next]_vars

=============================================================================
