----------------------------- MODULE CreditLedger -----------------------------
(***************************************************************************)
(* The balance of credits and every handler that moves it: purchases       *)
(* (routers/credit.py), the rewards of a login (backend_utils.py), an      *)
(* administrator's gifts (routers/monitor.py), generations                 *)
(* (routers/generate.py) and the hosting of Space worlds                   *)
(* (routers/space_billing.py).                                             *)
(*                                                                         *)
(* lock_balance locks the user's row, so what a handler does under it is   *)
(* one action.  Two handlers have more steps: a purchase is captured at    *)
(* PayPal before the lock is taken, and an authorization locks the user's  *)
(* row but reads rows of other payers, who may commit in between.          *)
(*                                                                         *)
(* The Space service is outside the repository: its calls come in any      *)
(* order and again.  The subscription's grants are in SubscriptionBilling. *)
(***************************************************************************)
EXTENDS Integers, FiniteSets, Functions

CONSTANTS
    Users,
    Opening,        \* their first balance
    Purchases, Buyer, Bought,       \* PayPal orders, their user and credits
    Generations, Author, Price,     \* generations, their user and cost
    Auths, Payer, Entity, Budget,   \* hosting authorizations: user, entity, max_credits
    Holds, AuthOf,                  \* hosting reservations, each of an authorization
    Days, MonthOf,                  \* days 1..n, and the month of each
    DailyReward, MonthlyReward, Gift,
    MaxGiven        \* bounds the credits given away

ASSUME CreditAssumption ==
    /\ IsFiniteSet(Holds)
    /\ Opening \in Nat /\ MaxGiven \in Nat
    /\ {DailyReward, MonthlyReward, Gift} \subseteq Nat \ {0}
    /\ Buyer \in [Purchases -> Users] /\ Bought \in [Purchases -> Nat]
    /\ Author \in [Generations -> Users] /\ Price \in [Generations -> Nat]
    /\ Payer \in [Auths -> Users] /\ Budget \in [Auths -> Nat]
    /\ AuthOf \in [Holds -> Auths]
    /\ Days \subseteq Nat

VARIABLES
    credits,        \* User.credits
    log,            \* CreditLog rows that name their cause
    given,          \* the sum of a user's other rows: gifts and login rewards
    purchase,       \* the PayPal orders
    auth,           \* SpaceCreditAuthorization.enabled, or absent
    opening,        \* authorizations that hold their payer's lock
    hold,           \* SpaceCreditReservation.state
    today,          \* the date, in UTC
    last_login,     \* User.last_login_date
    monthly         \* months with a monthly_login row

balanceVars == <<credits, log, given>>
hostVars == <<auth, opening, hold>>
loginVars == <<today, last_login, monthly>>
creditVars == <<balanceVars, purchase, hostVars, loginVars>>

HoldStates == {"none", "reserved", "captured", "released"}

Cause(kind, of) == [kind |-> kind, of |-> of]

CreditTypeOK ==
    /\ credits \in [Users -> Nat]
    /\ given \in [Users -> Nat]
    /\ purchase \in [Purchases -> {"none", "created", "approved", "captured"}]
    /\ auth \in [Auths -> {"absent", "enabled", "disabled"}]
    /\ \A o \in opening : o.auth \in Auths /\ o.old \subseteq Auths
    /\ hold \in [Holds -> HoldStates]
    /\ today \in Days
    /\ last_login \in [Users -> Days \cup {0}]

CreditInit ==
    /\ credits = [u \in Users |-> Opening]
    /\ log = {}
    /\ given = [u \in Users |-> 0]
    /\ purchase = [p \in Purchases |-> "none"]
    /\ auth = [a \in Auths |-> "absent"]
    /\ opening = {}
    /\ hold = [h \in Holds |-> "none"]
    /\ today \in {d \in Days : \A e \in Days : d <= e}
    /\ last_login = [u \in Users |-> 0]
    /\ monthly = [u \in Users |-> {}]

-----------------------------------------------------------------------------
(* The balance.                                                              *)

HoldsOf(u) == {h \in Holds : Payer[AuthOf[h]] = u /\ hold[h] = "reserved"}

\* Mutant: holds are not counted.
AvailableUnheld(u) == credits[u]

\* available_balance: holds reduce what may be spent, not the balance.
Available(u) ==
    LET left == credits[u] - Cardinality(HoldsOf(u)) IN IF left > 0 THEN left ELSE 0

\* lock_balance succeeds.
Unlocked(u) == \A o \in opening : Payer[o.auth] # u

Add(u, n, cause) ==
    /\ credits' = [credits EXCEPT ![u] = @ + n]
    /\ log' = log \cup {cause}
    /\ UNCHANGED given

Give(users, n) ==
    /\ credits' = [u \in Users |-> credits[u] + IF u \in users THEN n ELSE 0]
    /\ given' = [u \in Users |-> given[u] + IF u \in users THEN n ELSE 0]
    /\ UNCHANGED log

-----------------------------------------------------------------------------
(* Purchases.                                                                *)

\* purchase_credits.
CreatePurchase(p) ==
    /\ purchase[p] = "none"
    /\ purchase' = [purchase EXCEPT ![p] = "created"]
    /\ UNCHANGED <<balanceVars, hostVars, loginVars>>

ApprovePurchase(p) ==
    /\ purchase[p] = "created"
    /\ purchase' = [purchase EXCEPT ![p] = "approved"]
    /\ UNCHANGED <<balanceVars, hostVars, loginVars>>

\* capture_credits up to PayPal's answer, which may be lost.
CapturePurchase(p) ==
    /\ purchase[p] = "approved"
    /\ purchase' = [purchase EXCEPT ![p] = "captured"]
    /\ UNCHANGED <<balanceVars, hostVars, loginVars>>

\* Mutant: no search for the row.
UnawardedUnread(p) == TRUE

\* No row for the order, read under the lock.
Unawarded(p) == Cause("purchase", p) \notin log

\* The rest of capture_credits, of that call or of a later or an overlapping
\* one that has read the order as completed.
AwardPurchase(p) ==
    /\ purchase[p] = "captured"
    /\ Unlocked(Buyer[p])
    /\ Unawarded(p)
    /\ Add(Buyer[p], Bought[p], Cause("purchase", p))
    /\ UNCHANGED <<purchase, hostVars, loginVars>>

-----------------------------------------------------------------------------
(* Generations: generate_image and refund_generation_credits, whose guards   *)
(* GenerationJobs takes apart.                                               *)

Charge(g) ==
    /\ Unlocked(Author[g])
    /\ Cause("generation", g) \notin log
    /\ Available(Author[g]) >= Price[g]
    /\ Add(Author[g], -Price[g], Cause("generation", g))
    /\ UNCHANGED <<purchase, hostVars, loginVars>>

Refund(g) ==
    /\ Unlocked(Author[g])
    /\ Cause("generation", g) \in log
    /\ Cause("refund", g) \notin log
    /\ Add(Author[g], Price[g], Cause("refund", g))
    /\ UNCHANGED <<purchase, hostVars, loginVars>>

-----------------------------------------------------------------------------
(* Gifts and the rewards of a login.                                         *)

\* The three gift handlers; a bulk gift locks its users one after another and
\* commits once.
GiveCredits(users) ==
    /\ \A u \in users : Unlocked(u) /\ given[u] + Gift <= MaxGiven
    /\ Give(users, Gift)
    /\ UNCHANGED <<purchase, hostVars, loginVars>>

NextDay ==
    /\ today + 1 \in Days
    /\ today' = today + 1
    /\ UNCHANGED <<balanceVars, purchase, hostVars, last_login, monthly>>

\* award_daily_login_credits of a request that came on day d and has waited
\* for the lock since.  A monthly row carries the time of its insertion.
RewardLogin(u, d) ==
    LET monthlyDue == MonthOf[d] \notin monthly[u]
        reward == DailyReward + IF monthlyDue THEN MonthlyReward ELSE 0
    IN  /\ d \in {today, today - 1} \cap Days
        /\ Unlocked(u)
        /\ last_login[u] # d
        /\ given[u] + reward <= MaxGiven
        /\ Give({u}, reward)
        /\ last_login' = [last_login EXCEPT ![u] = d]
        /\ monthly' = IF monthlyDue
                      THEN [monthly EXCEPT ![u] = @ \cup {MonthOf[today]}] ELSE monthly
        /\ UNCHANGED <<purchase, hostVars, today>>

-----------------------------------------------------------------------------
(* Hosting.                                                                  *)

\* authorize up to its SELECT ... FOR UPDATE of the entity's rows: those that
\* other payers insert now are not among them.
ReadAuthorizations(a) ==
    /\ auth[a] = "absent"
    /\ Unlocked(Payer[a])
    /\ opening' = opening \cup
        {[auth |-> a, old |-> {b \in Auths : Entity[b] = Entity[a] /\ auth[b] # "absent"}]}
    /\ UNCHANGED <<balanceVars, purchase, auth, hold, loginVars>>

\* The rows found are disabled, and the new one is added; a request may also
\* ask for a disabled one.
Authorize(o, state) ==
    /\ auth' = [b \in Auths |-> IF b = o.auth THEN state
                                ELSE IF b \in o.old THEN "disabled" ELSE auth[b]]
    /\ opening' = opening \ {o}
    /\ UNCHANGED <<balanceVars, purchase, hold, loginVars>>

\* locked_reservation.
Locked(h) == auth[AuthOf[h]] # "absent" /\ Unlocked(Payer[AuthOf[h]])

SpentOf(a) == {h \in Holds : AuthOf[h] = a /\ hold[h] \in {"reserved", "captured"}}

Settle(h, state) == hold' = [hold EXCEPT ![h] = state]

\* Mutant: a released hold can be reserved by a call that comes late.
ReserveAgain(h) ==
    /\ Locked(h)
    /\ hold[h] \in {"none", "released"}
    /\ Available(Payer[AuthOf[h]]) >= 1
    /\ Settle(h, "reserved")
    /\ UNCHANGED <<balanceVars, purchase, auth, opening, loginVars>>

Reserve(h) ==
    /\ Locked(h)
    /\ hold[h] = "none"
    /\ auth[AuthOf[h]] = "enabled"
    /\ Cardinality(SpentOf(AuthOf[h])) < Budget[AuthOf[h]]
    /\ Available(Payer[AuthOf[h]]) >= 1
    /\ Settle(h, "reserved")
    /\ UNCHANGED <<balanceVars, purchase, auth, opening, loginVars>>

Capture(h) ==
    /\ Locked(h)
    /\ hold[h] = "reserved"
    /\ credits[Payer[AuthOf[h]]] >= 1
    /\ Settle(h, "captured")
    /\ Add(Payer[AuthOf[h]], -1, Cause("hosting", h))
    /\ UNCHANGED <<purchase, auth, opening, loginVars>>

\* A release of a reservation that is not there leaves a tombstone.
Release(h) ==
    /\ Locked(h)
    /\ hold[h] \in {"none", "reserved"}
    /\ Settle(h, "released")
    /\ UNCHANGED <<balanceVars, purchase, auth, opening, loginVars>>

Revoke(a) ==
    /\ auth[a] # "absent"
    /\ Unlocked(Payer[a])
    /\ auth' = [auth EXCEPT ![a] = "disabled"]
    /\ UNCHANGED <<balanceVars, purchase, opening, hold, loginVars>>

-----------------------------------------------------------------------------
CreditNext ==
    \/ \E p \in Purchases :
        CreatePurchase(p) \/ ApprovePurchase(p) \/ CapturePurchase(p) \/ AwardPurchase(p)
    \/ \E g \in Generations : Charge(g) \/ Refund(g)
    \/ \E users \in (SUBSET Users) \ {{}} : GiveCredits(users)
    \/ NextDay
    \/ \E u \in Users, d \in Days : RewardLogin(u, d)
    \/ \E a \in Auths : ReadAuthorizations(a) \/ Revoke(a)
    \/ \E o \in opening, state \in {"enabled", "disabled"} : Authorize(o, state)
    \/ \E h \in Holds : Reserve(h) \/ Capture(h) \/ Release(h)

CreditSpec == CreditInit /\ [][CreditNext]_creditVars

-----------------------------------------------------------------------------
(* Properties.                                                               *)

\* What is held for hosting is there when it is captured: generations cannot
\* spend it, whatever the order of the calls (credit_balance.py:2-5,
\* space_billing.py:170).
HoldsAreCovered == \A u \in Users : Cardinality(HoldsOf(u)) <= credits[u]

Of(c) == CASE c.kind = "purchase" -> Buyer[c.of]
           [] c.kind \in {"generation", "refund"} -> Author[c.of]
           [] OTHER -> Payer[AuthOf[c.of]]

Worth(c) == CASE c.kind = "purchase" -> Bought[c.of]
              [] c.kind = "generation" -> -Price[c.of]
              [] c.kind = "refund" -> Price[c.of]
              [] OTHER -> -1

\* Every purchase, charge, refund and captured hour of hosting is in the balance
\* exactly once, however often its handler ran, and the captured holds are
\* exactly the hours debited.
BalanceIsExplained ==
    /\ \A u \in Users :
        credits[u] = Opening + given[u] + SumFunction([c \in {d \in log : Of(d) = u} |-> Worth(c)])
    /\ \A h \in Holds : hold[h] = "captured" <=> Cause("hosting", h) \in log

\* A settled hold stays as it was settled: a reserve that comes after its
\* release, or a release after a capture, changes nothing (space_billing.py:3-5).
SettlementIsFinal ==
    [][\A h \in Holds : hold[h] \in {"captured", "released"} => hold'[h] = hold[h]]_creditVars

\* An authorization never pays for more hours than it was given
\* (space_billing.py:138-142).
BudgetIsKept == \A a \in Auths : Cardinality(SpentOf(a)) <= Budget[a]

\* Of one payer, at most one authorization of an entity is enabled; those of two
\* payers that authorize at once may both be (space_billing.py:102-107).
OneAuthorizationPerPayer ==
    \A a, b \in Auths :
        /\ auth[a] = "enabled" /\ auth[b] = "enabled"
        /\ Payer[a] = Payer[b] /\ Entity[a] = Entity[b]
        => a = b

\* Hosting only takes what it may: held credits that are there, within the
\* budget of one authorization (space_billing.py:85-150).
HostingIsCovered == HoldsAreCovered /\ BudgetIsKept /\ OneAuthorizationPerPayer
=============================================================================
