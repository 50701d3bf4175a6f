-------------------------- MODULE MCCreatorPayouts --------------------------
(* A finite instance of CreatorPayouts for TLC.                              *)
EXTENDS CreatorPayouts

CONSTANTS p1, p2, job, admin

\* Withdrawals of the same amount.
MCAmount == [p \in Payouts |-> 1]

\* Once there is a second withdrawal, one leased withdrawal at a time, inside the
\* window for repeating a submission, and the job alone submits.
SecondIsSimple ==
    \/ status[p2] = "absent"
    \/ /\ Cardinality({p \in Payouts : lease[p] # "none"}) <= 1
       /\ \A p \in Payouts : window[p] # "closed"
       /\ \A c \in calls : c.worker # admin /\ attempt_count[c.payout] <= 1

=============================================================================
