------------------------- MODULE MCSubscriptionBilling -------------------------
(* A finite instance of SubscriptionBilling for TLC. *)
EXTENDS SubscriptionBilling

CONSTANTS c1, c2, none
=============================================================================
