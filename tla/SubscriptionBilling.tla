-------------------------- MODULE SubscriptionBilling --------------------------
(***************************************************************************)
(* What one account's paid subscription cycles bring: the time of Pro and  *)
(* the monthly credits, by the activation (routers/order.py) and by        *)
(* PayPal's sale webhook (routers/webhooks.py), and the administrator's    *)
(* audit and compensation of the credits (routers/monitor.py).             *)
(*                                                                         *)
(* Webhook and activation hold the lock of the account's row throughout:   *)
(* one action each.  PayPal's answer may lag behind its last payment, and  *)
(* a webhook may come late, again or out of order.  The compensation reads *)
(* the log first and locks the balance then: two actions.                  *)
(* Which contract is current is chosen freely here; SubscriptionLifecycle  *)
(* says how.                                                               *)
(***************************************************************************)
EXTENDS Integers, FiniteSets, Functions, Sequences

CONSTANTS
    Contracts,
    NoContract,
    Admins,
    MaxPayments, MaxMonths, MaxCompensations    \* bounds of the instance

ASSUME BillingAssumption ==
    /\ NoContract \notin Contracts
    /\ MaxPayments \in Nat /\ MaxMonths \in Nat \ {0} /\ MaxCompensations \in Nat

VARIABLES
    month,              \* time, in billing cycles
    plan,               \* per contract, at PayPal: "pro-plus" or "pro-max"
    payments,           \* what PayPal has collected, in its order
    current,            \* User.paypal_subscription_id
    pro_level,
    pro_expires_at,     \* in months; 0: never Pro
    sales,              \* orders of the sale webhook: the payment, paid_at, the plan
    grants,             \* CreditLog rows with the action subscription_grant
    granted,            \* the credits they added to the balance
    checked             \* compensations between their check and their lock

billingVars == <<month, plan, payments, current, pro_level, pro_expires_at, sales, grants, granted, checked>>
accountVars == <<current, pro_level, pro_expires_at>>

Credits(level) == IF level = "pro-max" THEN 200 ELSE 80

\* kind award: of is the payment its idempotency key names; kind legacy: of is
\* the payment it was for, which the row does not name; kind compensation: of is
\* the order, nth tells several rows apart.
Grant(kind, of, nth, contract, amount) ==
    [kind |-> kind, of |-> of, nth |-> nth, contract |-> contract, amount |-> amount, time |-> month]

BillingTypeOK ==
    /\ month \in 1..MaxMonths
    /\ plan \in [Contracts -> {"pro-plus", "pro-max"}]
    /\ payments \in Seq([contract : Contracts, time : 1..MaxMonths])
    /\ current \in Contracts \cup {NoContract}
    /\ pro_level \in {"free", "pro-plus", "pro-max"}
    /\ pro_expires_at \in 0..MaxMonths + 1
    /\ \A s \in sales : {s.sale, s.paid_at} \subseteq DOMAIN payments
    /\ \A g \in grants : g.amount > 0

\* No payment, or one that was granted before grants had keys.
BillingInit ==
    /\ month = 1
    /\ plan \in [Contracts -> {"pro-plus", "pro-max"}]
    /\ \/ payments = << >> /\ grants = {} /\ granted = 0
       \/ \E c \in Contracts :
            /\ payments = <<[contract |-> c, time |-> 1]>>
            /\ grants = {Grant("legacy", 1, 1, c, Credits(plan[c]))}
            /\ granted = Credits(plan[c])
    /\ current = NoContract
    /\ pro_level = "free"
    /\ pro_expires_at = 0
    /\ sales = {}
    /\ checked = [a \in Admins |-> << >>]

-----------------------------------------------------------------------------
(* PayPal.                                                                   *)

NextMonth ==
    /\ month < MaxMonths
    /\ month' = month + 1
    /\ UNCHANGED <<plan, payments, accountVars, sales, grants, granted, checked>>

Bill(c) ==
    /\ Len(payments) < MaxPayments
    /\ [contract |-> c, time |-> month] \notin {payments[n] : n \in DOMAIN payments}
    /\ payments' = Append(payments, [contract |-> c, time |-> month])
    /\ UNCHANGED <<month, plan, accountVars, sales, grants, granted, checked>>

\* A plan that create_checkout has asked PayPal to revise, once it is approved.
Revise(c) ==
    /\ plan[c] = "pro-plus"
    /\ plan' = [plan EXCEPT ![c] = "pro-max"]
    /\ UNCHANGED <<month, payments, accountVars, sales, grants, granted, checked>>

\* The last payment a request for the contract may report.
LastPayments(c) == {n \in DOMAIN payments : payments[n].contract = c}

\* paid_cycle: the end of the period, counted from PayPal's payment time.
PaidUntil(n) == payments[n].time + 1

-----------------------------------------------------------------------------
(* The grant of a cycle's credits: award_subscription_credits.               *)

\* Mutant: the activation does not look for the row.
AwardKnown(n, webhook) == webhook /\ \E g \in grants : g.kind = "award" /\ g.of = n

Awarded(n, webhook) == \E g \in grants : g.kind = "award" /\ g.of = n

\* "Adopt a historical grant from this paid period on first encounter."
Adoptable(n) ==
    {g \in grants : g.kind = "legacy" /\ g.contract = payments[n].contract
                    /\ g.time >= payments[n].time}

Award(n, webhook) ==
    LET amount == Credits(plan[payments[n].contract])
    IN  \/ Awarded(n, webhook) /\ UNCHANGED <<grants, granted>>
        \/ /\ ~Awarded(n, webhook)
           /\ \E g \in Adoptable(n) :
                grants' = (grants \ {g}) \cup {[g EXCEPT !.kind = "award", !.of = n]}
           /\ UNCHANGED granted
        \/ /\ ~Awarded(n, webhook)
           /\ Adoptable(n) = {}
           /\ grants' = grants \cup {Grant("award", n, 1, payments[n].contract, amount)}
           /\ granted' = granted + amount

-----------------------------------------------------------------------------
(* The webhook and the activation.                                           *)

Later(a, b) == IF a > b THEN a ELSE b

\* PAYMENT.SALE.COMPLETED for payment s: PayPal reports payment n as the last
\* one, and chosen is the current contract after select_contract.
Sale(s, n, chosen) ==
    LET c == payments[s].contract
    IN  /\ n \in LastPayments(c)
        /\ chosen \in {current, c}
        /\ current' = chosen
        /\ IF \E o \in sales : o.sale = s
           THEN UNCHANGED <<pro_level, pro_expires_at, sales, grants, granted>>
           ELSE /\ pro_expires_at' = Later(pro_expires_at, PaidUntil(n))
                /\ pro_level' = IF chosen = c \/ pro_level = "free" THEN plan[c] ELSE pro_level
                /\ sales' = sales \cup {[sale |-> s, paid_at |-> n, plan |-> plan[c]]}
                /\ Award(n, TRUE)
        /\ UNCHANGED <<month, plan, payments, checked>>

\* activate_subscription of a contract that select_contract accepts.
Activate(c, n) ==
    /\ n \in LastPayments(c)
    /\ current' = c
    /\ pro_expires_at' = PaidUntil(n)
    /\ pro_level' = plan[c]
    /\ Award(n, FALSE)
    /\ UNCHANGED <<month, plan, payments, sales, checked>>

\* "ACTIVE can precede PayPal's first successful payment."
ActivateUnpaid(c) ==
    /\ current' = c
    /\ UNCHANGED <<month, plan, payments, pro_level, pro_expires_at, sales, grants, granted, checked>>

-----------------------------------------------------------------------------
(* The audit.                                                                *)

Expected(o) == Credits(IF pro_level = "pro-max" THEN "pro-max" ELSE o.plan)

CompensationsOf(s) == {g \in grants : g.kind = "compensation" /\ g.of = s}

Near(g, o, months) ==
    /\ g.time - payments[o.paid_at].time <= months
    /\ payments[o.paid_at].time - g.time <= months

\* _match_subscription_credit_log: the first of these sets that is not empty.
\* 35 days reach into the neighbouring cycle, 48 hours do not.
Matches(o) ==
    LET byPayment == {g \in grants : g.kind = "award" /\ g.of = o.paid_at}
        byContract == {g \in grants : g.contract = current /\ Near(g, o, 1)}
        byTime == {g \in grants : Near(g, o, 0)}
    IN  CASE CompensationsOf(o.sale) # {} -> CompensationsOf(o.sale)
          [] byPayment # {} -> byPayment
          [] byContract # {} -> byContract
          [] OTHER -> byTime

\* The credits that are missing, by the row it matched.
Missing(o) ==
    IF Matches(o) = {} THEN {Expected(o)} ELSE {Expected(o) - g.amount : g \in Matches(o)}

\* compensate_subscription_credits up to its lock.
CheckCompensation(a, o) ==
    /\ checked[a] = << >>
    /\ \E missing \in Missing(o) :
        /\ missing > 0
        /\ checked' = [checked EXCEPT ![a] = <<o.sale, missing>>]
    /\ UNCHANGED <<month, plan, payments, accountVars, sales, grants, granted>>

\* The rest; its key has the time, in seconds.
Compensate(a) ==
    /\ checked[a] # << >>
    /\ LET s == checked[a][1]
           nth == Cardinality(CompensationsOf(s)) + 1
       IN  /\ nth <= MaxCompensations
           /\ grants' = grants \cup {Grant("compensation", s, nth, current, checked[a][2])}
           /\ granted' = granted + checked[a][2]
    /\ checked' = [checked EXCEPT ![a] = << >>]
    /\ UNCHANGED <<month, plan, payments, accountVars, sales>>

-----------------------------------------------------------------------------
BillingNext ==
    \/ NextMonth
    \/ \E c \in Contracts : Bill(c) \/ Revise(c) \/ ActivateUnpaid(c)
    \/ \E s, n \in DOMAIN payments, c \in Contracts \cup {NoContract} : Sale(s, n, c)
    \/ \E c \in Contracts, n \in DOMAIN payments : Activate(c, n)
    \/ \E a \in Admins, o \in sales : CheckCompensation(a, o)
    \/ \E a \in Admins : Compensate(a)

BillingSpec == BillingInit /\ [][BillingNext]_billingVars

-----------------------------------------------------------------------------
(* Properties.                                                               *)

\* The credits of payment n have been given, under its key.
Given(n) == \E g \in grants : g.kind = "award" /\ g.of = n

\* "Grant once per verified payment, shared by activation and webhook": a
\* payment has one row, whatever is delivered again or late, a row of the time
\* before the keys included, and each row went into the balance once
\* (backend_utils.py:235-258).
GrantedOncePerPayment ==
    /\ \A g, h \in grants : {g.kind, h.kind} \subseteq {"award", "legacy"} /\ g.of = h.of => g = h
    /\ granted = SumFunction([g \in grants |-> g.amount])

\* "Entitlements use PayPal's verified payment time, never the activation time":
\* Pro lasts until the end of a payment, and of one whose credits were given
\* (subscription_billing.py:1).
EntitlementIsPaid ==
    pro_expires_at > 0 => \E n \in DOMAIN payments : pro_expires_at = PaidUntil(n) /\ Given(n)

\* A sale that is on record brought Pro and the credits of the payment that
\* PayPal reported with it (webhooks.py:174-203).
SaleIsServed ==
    \A o \in sales : Given(o.paid_at) /\ pro_level # "free" /\ pro_expires_at > 0

\* "Historical payments still belong in the ledger, but must not shorten newer
\* paid entitlements": a sale that is put on record leaves Pro no shorter than
\* it was, nor than it paid for (webhooks.py:164).
NoSaleShortens ==
    \A o \in sales' \ sales :
        pro_expires_at' >= pro_expires_at /\ pro_expires_at' >= PaidUntil(o.paid_at)

\* "Cannot compensate again (already granted)": an order is compensated at most
\* once (tests/test_monitor_subscription_audit.py:267, routers/monitor.py:1180).
CompensatedOnce == \A o \in sales : Cardinality(CompensationsOf(o.sale)) <= 1

\* What a verified payment gives, however often and in whatever order activation
\* and webhook see it: its credits once and not less than once, and time of Pro
\* that ends with a payment and that no late webhook shortens
\* (backend_utils.py:235-284, routers/order.py:954-1033).  An activation does
\* shorten it, to the payment PayPal reports, and a payment that PayPal reports
\* to no request gets no credits.
PaymentIsServed == GrantedOncePerPayment /\ EntitlementIsPaid /\ SaleIsServed
PaymentGivesItsDue == [][PaymentIsServed' /\ NoSaleShortens]_billingVars
=============================================================================
