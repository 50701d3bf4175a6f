---------------------- MODULE MCSubscriptionLifecycle ----------------------
(* Finite instances of SubscriptionLifecycle for TLC.                        *)
EXTENDS SubscriptionLifecycle

CONSTANTS q1, q2, approval
=============================================================================
