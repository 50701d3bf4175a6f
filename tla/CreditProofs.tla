----------------------------- MODULE CreditProofs -----------------------------
(***************************************************************************)
(* Credits and billing, for any number of users, purchases, generations,   *)
(* authorizations, reservations, contracts and payments.                   *)
(*                                                                         *)
(* Hosting: what is held is there when it is captured, no authorization    *)
(* spends more than it was given, and a payer has one enabled              *)
(* authorization of an entity (HostingIsCovered); a settled hold stays as  *)
(* it is (SettlementIsFinal). The first two follow step by step from the   *)
(* lock of the user's row under which holds are counted.  The third needs  *)
(* OpeningInv: while a payer's request is between its query and its        *)
(* commit, nobody else opens one for him, so the rows it has found are     *)
(* still all that are enabled.                                             *)
(*                                                                         *)
(* Balance: a step that changes a balance gives, or adds one cause that    *)
(* was not there and is worth the change, so that each balance remains     *)
(* what it opened with, what was given and the sum of its causes (LogInv). *)
(*                                                                         *)
(* Billing: the row from before the keys is the first payment's, whose     *)
(* award adopts it (LegacyInv), since no two payments are of one contract  *)
(* and time (PaymentsDiffer); compensations are numbered, so that each is  *)
(* a row of its own in the sum (NumberInv).                                *)
(***************************************************************************)
EXTENDS CreditLedger, SubscriptionBilling, SumTheorems, FiniteSetTheorems, SequenceTheorems, TLAPS

\* A request under way has found every enabled row of its payer and entity.
OpeningInv ==
    \A o \in opening :
        /\ auth[o.auth] = "absent"
        /\ \A p \in opening : Payer[p.auth] = Payer[o.auth] => p = o
        /\ \A b \in o.old : auth[b] # "absent"
        /\ \A b \in Auths :
            auth[b] = "enabled" /\ Payer[b] = Payer[o.auth] /\ Entity[b] = Entity[o.auth]
            => b \in o.old

HostingInv ==
    /\ CreditTypeOK
    /\ HoldsAreCovered
    /\ BudgetIsKept
    /\ OpeningInv
    /\ OneAuthorizationPerPayer

\* Reservations are counted: their sets are finite.
LEMMA HoldsAreFinite ==
  /\ \A u : IsFiniteSet(HoldsOf(u)) /\ Cardinality(HoldsOf(u)) \in Nat
  /\ \A a : IsFiniteSet(SpentOf(a)) /\ Cardinality(SpentOf(a)) \in Nat
<1>1. \A S \in SUBSET Holds : IsFiniteSet(S) /\ Cardinality(S) \in Nat
  BY CreditAssumption, FS_Subset, FS_CardinalityType
<1>2. \A u : HoldsOf(u) \in SUBSET Holds
  BY DEF HoldsOf
<1>3. \A a : SpentOf(a) \in SUBSET Holds
  BY DEF SpentOf
<1> QED BY <1>1, <1>2, <1>3

\* One more is one more.
LEMMA OneMore ==
  ASSUME NEW S, NEW x, IsFiniteSet(S), x \notin S
  PROVE  Cardinality(S \cup {x}) = Cardinality(S) + 1
BY FS_AddElement

\* What is available is in the balance, beyond the holds.
LEMMA AvailableIsThere ==
  ASSUME CreditTypeOK, NEW u \in Users, NEW n \in Nat, Available(u) >= n
  PROVE  n = 0 \/ credits[u] >= Cardinality(HoldsOf(u)) + n
<1>1. Cardinality(HoldsOf(u)) \in Nat
  BY HoldsAreFinite
<1> QED BY <1>1 DEF Available, CreditTypeOK

\* Types, and no balance below zero.
LEMMA CreditTypeStep ==
  ASSUME CreditTypeOK, [CreditNext]_creditVars
  PROVE  CreditTypeOK'
<1> USE CreditAssumption DEF CreditTypeOK, HoldStates, balanceVars, hostVars, loginVars
<1>1. ASSUME NEW p \in Purchases,
             CreatePurchase(p) \/ ApprovePurchase(p) \/ CapturePurchase(p) \/ AwardPurchase(p)
      PROVE  CreditTypeOK'
  BY <1>1 DEF CreatePurchase, ApprovePurchase, CapturePurchase, AwardPurchase, Add
<1>2. ASSUME NEW g \in Generations, Charge(g)
      PROVE  CreditTypeOK'
  <2>1. credits[Author[g]] - Price[g] \in Nat
    BY <1>2, AvailableIsThere, HoldsAreFinite DEF Charge
  <2> QED BY <1>2, <2>1 DEF Charge, Add
<1>3. ASSUME NEW g \in Generations, Refund(g)
      PROVE  CreditTypeOK'
  BY <1>3 DEF Refund, Add
<1>4. ASSUME NEW users \in SUBSET Users, GiveCredits(users)
      PROVE  CreditTypeOK'
  BY <1>4 DEF GiveCredits, Give
<1>5. CASE NextDay
  BY <1>5 DEF NextDay
<1>6. ASSUME NEW u \in Users, NEW d \in Days, RewardLogin(u, d)
      PROVE  CreditTypeOK'
  <2> DEFINE reward == DailyReward + IF MonthOf[d] \notin monthly[u] THEN MonthlyReward ELSE 0
  <2>1. reward \in Nat /\ Give({u}, reward)
    BY <1>6 DEF RewardLogin
  <2>2. UNCHANGED <<purchase, hostVars, today>> /\ last_login' = [last_login EXCEPT ![u] = d]
    BY <1>6 DEF RewardLogin
  <2> HIDE DEF reward
  <2> QED BY <2>1, <2>2 DEF Give
<1>7. ASSUME NEW a \in Auths, ReadAuthorizations(a) \/ Revoke(a)
      PROVE  CreditTypeOK'
  BY <1>7 DEF ReadAuthorizations, Revoke
<1>8. ASSUME NEW o \in opening, NEW state \in {"enabled", "disabled"}, Authorize(o, state)
      PROVE  CreditTypeOK'
  BY <1>8 DEF Authorize
<1>9. ASSUME NEW h \in Holds, Reserve(h) \/ Release(h)
      PROVE  CreditTypeOK'
  BY <1>9 DEF Reserve, Release, Settle
<1>10. ASSUME NEW h \in Holds, Capture(h)
       PROVE  CreditTypeOK'
  BY <1>10 DEF Capture, Settle, Add
<1>11. CASE UNCHANGED creditVars
  BY <1>11 DEF creditVars
<1> QED BY <1>1, <1>2, <1>3, <1>4, <1>5, <1>6, <1>7, <1>8, <1>9, <1>10, <1>11 DEF CreditNext

\* The three steps of a reservation.
HoldStep == \E h \in Holds : Reserve(h) \/ Capture(h) \/ Release(h)

\* The steps that open, end or disable an authorization.
AuthStep ==
    \/ \E a \in Auths : ReadAuthorizations(a) \/ Revoke(a)
    \/ \E o \in opening, state \in {"enabled", "disabled"} : Authorize(o, state)

\* What is not a hold's step leaves the holds, and takes no held credit.
LEMMA OtherStepsLeaveHolds ==
  ASSUME CreditTypeOK, HoldsAreCovered, [CreditNext]_creditVars, ~HoldStep
  PROVE  /\ UNCHANGED hold
         /\ \A u \in Users : Cardinality(HoldsOf(u)) <= credits'[u]
<1> USE CreditAssumption DEF CreditTypeOK, balanceVars, hostVars, loginVars
<1> SUFFICES ASSUME NEW u \in Users
             PROVE  UNCHANGED hold /\ Cardinality(HoldsOf(u)) <= credits'[u]
  BY DEF CreditNext, HoldStep, creditVars, CreatePurchase, ApprovePurchase, CapturePurchase, AwardPurchase,
         Charge, Refund, GiveCredits, NextDay, RewardLogin, ReadAuthorizations, Revoke, Authorize
<1>0. Cardinality(HoldsOf(u)) \in Nat /\ Cardinality(HoldsOf(u)) <= credits[u]
  BY HoldsAreFinite DEF HoldsAreCovered
<1>1. ASSUME NEW p \in Purchases,
             CreatePurchase(p) \/ ApprovePurchase(p) \/ CapturePurchase(p) \/ AwardPurchase(p)
      PROVE  UNCHANGED hold /\ Cardinality(HoldsOf(u)) <= credits'[u]
  BY <1>0, <1>1 DEF CreatePurchase, ApprovePurchase, CapturePurchase, AwardPurchase, Add
<1>2. ASSUME NEW g \in Generations, Charge(g)
      PROVE  UNCHANGED hold /\ Cardinality(HoldsOf(u)) <= credits'[u]
  <2>1. Price[g] = 0 \/ credits[Author[g]] >= Cardinality(HoldsOf(Author[g])) + Price[g]
    BY <1>2, AvailableIsThere DEF Charge
  <2> QED BY <1>0, <1>2, <2>1 DEF Charge, Add
<1>3. ASSUME NEW g \in Generations, Refund(g)
      PROVE  UNCHANGED hold /\ Cardinality(HoldsOf(u)) <= credits'[u]
  BY <1>0, <1>3 DEF Refund, Add
<1>4. ASSUME NEW users \in SUBSET Users, GiveCredits(users)
      PROVE  UNCHANGED hold /\ Cardinality(HoldsOf(u)) <= credits'[u]
  BY <1>0, <1>4 DEF GiveCredits, Give
<1>5. CASE NextDay
  BY <1>0, <1>5 DEF NextDay
<1>6. ASSUME NEW v \in Users, NEW d \in Days, RewardLogin(v, d)
      PROVE  UNCHANGED hold /\ Cardinality(HoldsOf(u)) <= credits'[u]
  <2> DEFINE reward == DailyReward + IF MonthOf[d] \notin monthly[v] THEN MonthlyReward ELSE 0
  <2>1. reward \in Nat /\ Give({v}, reward) /\ UNCHANGED hold
    BY <1>6 DEF RewardLogin
  <2> HIDE DEF reward
  <2> QED BY <1>0, <2>1 DEF Give
<1>7. CASE AuthStep
  BY <1>0, <1>7 DEF AuthStep, ReadAuthorizations, Revoke, Authorize
<1>8. CASE UNCHANGED creditVars
  BY <1>0, <1>8 DEF creditVars
<1> QED BY <1>1, <1>2, <1>3, <1>4, <1>5, <1>6, <1>7, <1>8 DEF CreditNext, HoldStep, AuthStep

\* What is held stays covered.
LEMMA CoveredStep ==
  ASSUME CreditTypeOK, HoldsAreCovered, [CreditNext]_creditVars
  PROVE  HoldsAreCovered'
<1> USE CreditAssumption DEF CreditTypeOK
<1> SUFFICES ASSUME NEW u \in Users
             PROVE  Cardinality(HoldsOf(u)') <= credits'[u]
  BY DEF HoldsAreCovered
<1>0. IsFiniteSet(HoldsOf(u)) /\ Cardinality(HoldsOf(u)) \in Nat /\ Cardinality(HoldsOf(u)) <= credits[u]
  BY HoldsAreFinite DEF HoldsAreCovered
<1>1. ASSUME NEW h \in Holds, Reserve(h)
      PROVE  Cardinality(HoldsOf(u)') <= credits'[u]
  <2>1. UNCHANGED credits /\ hold' = [hold EXCEPT ![h] = "reserved"] /\ h \notin HoldsOf(u)
    BY <1>1 DEF Reserve, Settle, balanceVars, HoldsOf
  <2>2. CASE Payer[AuthOf[h]] = u
    <3>1. HoldsOf(u)' = HoldsOf(u) \cup {h}
      BY <2>1, <2>2 DEF HoldsOf
    <3>2. credits[u] >= Cardinality(HoldsOf(u)) + 1
      BY <1>1, <2>2, AvailableIsThere DEF Reserve
    <3>3. Cardinality(HoldsOf(u)') = Cardinality(HoldsOf(u)) + 1
      BY <1>0, <2>1, <3>1, OneMore
    <3> QED BY <1>0, <2>1, <3>2, <3>3
  <2>3. CASE Payer[AuthOf[h]] # u
    <3>1. HoldsOf(u)' = HoldsOf(u)
      BY <2>1, <2>3 DEF HoldsOf
    <3> QED BY <1>0, <2>1, <3>1
  <2> QED BY <2>2, <2>3
<1>2. ASSUME NEW h \in Holds, Capture(h)
      PROVE  Cardinality(HoldsOf(u)') <= credits'[u]
  <2>1. /\ hold[h] = "reserved" /\ hold' = [hold EXCEPT ![h] = "captured"]
        /\ credits' = [credits EXCEPT ![Payer[AuthOf[h]]] = @ + (-1)]
    BY <1>2 DEF Capture, Settle, Add
  <2>2. CASE Payer[AuthOf[h]] = u
    <3>1. h \in HoldsOf(u) /\ HoldsOf(u)' = HoldsOf(u) \ {h}
      BY <2>1, <2>2 DEF HoldsOf
    <3>2. credits'[u] = credits[u] - 1
      BY <2>1, <2>2
    <3>3. Cardinality(HoldsOf(u)') = Cardinality(HoldsOf(u)) - 1
      BY <1>0, <3>1, FS_RemoveElement
    <3> QED BY <1>0, <3>2, <3>3
  <2>3. CASE Payer[AuthOf[h]] # u
    <3>1. HoldsOf(u)' = HoldsOf(u) /\ credits'[u] = credits[u]
      BY <2>1, <2>3 DEF HoldsOf
    <3> QED BY <1>0, <3>1
  <2> QED BY <2>2, <2>3
<1>3. ASSUME NEW h \in Holds, Release(h)
      PROVE  Cardinality(HoldsOf(u)') <= credits'[u]
  <2>1. UNCHANGED credits /\ HoldsOf(u)' \in SUBSET HoldsOf(u)
    BY <1>3 DEF Release, Settle, balanceVars, HoldsOf
  <2>2. Cardinality(HoldsOf(u)') \in Nat /\ Cardinality(HoldsOf(u)') <= Cardinality(HoldsOf(u))
    BY <1>0, <2>1, FS_Subset, FS_CardinalityType
  <2> QED BY <1>0, <2>1, <2>2
<1>4. CASE ~HoldStep
  <2>1. UNCHANGED hold /\ Cardinality(HoldsOf(u)) <= credits'[u]
    BY <1>4, OtherStepsLeaveHolds
  <2>2. HoldsOf(u)' = HoldsOf(u)
    BY <2>1 DEF HoldsOf
  <2> QED BY <2>1, <2>2
<1> QED BY <1>1, <1>2, <1>3, <1>4 DEF HoldStep

\* No authorization spends beyond its budget.
LEMMA BudgetStep ==
  ASSUME CreditTypeOK, HoldsAreCovered, BudgetIsKept, [CreditNext]_creditVars
  PROVE  BudgetIsKept'
<1> USE CreditAssumption DEF CreditTypeOK
<1> SUFFICES ASSUME NEW a \in Auths
             PROVE  Cardinality(SpentOf(a)') <= Budget[a]
  BY DEF BudgetIsKept
<1>0. IsFiniteSet(SpentOf(a)) /\ Cardinality(SpentOf(a)) \in Nat /\ Cardinality(SpentOf(a)) <= Budget[a]
  BY HoldsAreFinite DEF BudgetIsKept
<1>1. ASSUME NEW h \in Holds, Reserve(h)
      PROVE  Cardinality(SpentOf(a)') <= Budget[a]
  <2>1. hold' = [hold EXCEPT ![h] = "reserved"] /\ h \notin SpentOf(a)
    BY <1>1 DEF Reserve, Settle, SpentOf
  <2>2. CASE AuthOf[h] = a
    <3>1. SpentOf(a)' = SpentOf(a) \cup {h} /\ Cardinality(SpentOf(a)) < Budget[a]
      BY <1>1, <2>1, <2>2 DEF SpentOf, Reserve
    <3>2. Cardinality(SpentOf(a)') = Cardinality(SpentOf(a)) + 1
      BY <1>0, <2>1, <3>1, OneMore
    <3> QED BY <1>0, <3>1, <3>2
  <2>3. CASE AuthOf[h] # a
    <3>1. SpentOf(a)' = SpentOf(a)
      BY <2>1, <2>3 DEF SpentOf
    <3> QED BY <1>0, <3>1
  <2> QED BY <2>2, <2>3
<1>2. ASSUME NEW h \in Holds, Capture(h) \/ Release(h)
      PROVE  Cardinality(SpentOf(a)') <= Budget[a]
  <2>1. SpentOf(a)' \in SUBSET SpentOf(a)
    BY <1>2 DEF Capture, Release, Settle, SpentOf
  <2>2. Cardinality(SpentOf(a)') \in Nat /\ Cardinality(SpentOf(a)') <= Cardinality(SpentOf(a))
    BY <1>0, <2>1, FS_Subset, FS_CardinalityType
  <2> QED BY <1>0, <2>2
<1>3. CASE ~HoldStep
  <2>1. SpentOf(a)' = SpentOf(a)
    BY <1>3, OtherStepsLeaveHolds DEF SpentOf
  <2> QED BY <1>0, <2>1
<1> QED BY <1>1, <1>2, <1>3 DEF HoldStep

\* What is not an authorization's step leaves them.
LEMMA OtherStepsLeaveAuths ==
  ASSUME [CreditNext]_creditVars, ~AuthStep
  PROVE  UNCHANGED <<auth, opening>>
BY DEF CreditNext, AuthStep, creditVars, balanceVars, hostVars, loginVars, CreatePurchase, ApprovePurchase,
       CapturePurchase, AwardPurchase, Charge, Refund, GiveCredits, NextDay, RewardLogin, Reserve, Capture, Release

\* Requests of one payer come one after another, so each finds what there is.
LEMMA OpeningStep ==
  ASSUME CreditTypeOK, OpeningInv, OneAuthorizationPerPayer, [CreditNext]_creditVars
  PROVE  OpeningInv' /\ OneAuthorizationPerPayer'
<1> USE CreditAssumption DEF CreditTypeOK
<1>1. ASSUME NEW a \in Auths, ReadAuthorizations(a)
      PROVE  OpeningInv' /\ OneAuthorizationPerPayer'
  <2> DEFINE new == [auth |-> a, old |-> {b \in Auths : Entity[b] = Entity[a] /\ auth[b] # "absent"}]
  <2>1. /\ auth[a] = "absent" /\ UNCHANGED auth /\ opening' = opening \cup {new}
        /\ \A o \in opening : Payer[o.auth] # Payer[a]
    BY <1>1 DEF ReadAuthorizations, Unlocked
  <2>2. /\ new.auth = a
        /\ \A b \in Auths : Entity[b] = Entity[a] => (b \in new.old <=> auth[b] # "absent")
        /\ new.old \subseteq {b \in Auths : auth[b] # "absent"}
    OBVIOUS
  <2> HIDE DEF new
  <2> QED BY <2>1, <2>2 DEF OpeningInv, OneAuthorizationPerPayer
<1>2. ASSUME NEW a \in Auths, Revoke(a)
      PROVE  OpeningInv' /\ OneAuthorizationPerPayer'
  <2>1. auth[a] # "absent" /\ auth' = [auth EXCEPT ![a] = "disabled"] /\ UNCHANGED opening
    BY <1>2 DEF Revoke
  <2> QED BY <2>1 DEF OpeningInv, OneAuthorizationPerPayer
<1>3. ASSUME NEW o \in opening, NEW state \in {"enabled", "disabled"}, Authorize(o, state)
      PROVE  OpeningInv' /\ OneAuthorizationPerPayer'
  <2>1. /\ auth' = [b \in Auths |-> IF b = o.auth THEN state
                                    ELSE IF b \in o.old THEN "disabled" ELSE auth[b]]
        /\ opening' = opening \ {o}
    BY <1>3 DEF Authorize
  <2>2. \A b \in Auths : auth'[b] = "enabled" => b = o.auth \/ (auth[b] = "enabled" /\ b \notin o.old)
    BY <2>1
  <2>3. \A p \in opening' : p \in opening /\ p.auth \in Auths /\ Payer[p.auth] # Payer[o.auth]
    BY <2>1 DEF OpeningInv
  <2>4. ASSUME NEW p \in opening' PROVE auth'[p.auth] = "absent"
    <3>1. p.auth \in Auths /\ auth[p.auth] = "absent" /\ p.auth # o.auth
      BY <2>3 DEF OpeningInv
    <3>2. p.auth \notin o.old
      BY <3>1 DEF OpeningInv
    <3> QED BY <2>1, <3>1, <3>2
  <2>5. OpeningInv'
    <3> SUFFICES ASSUME NEW p \in opening'
                 PROVE  /\ auth'[p.auth] = "absent"
                        /\ \A q \in opening' : Payer[q.auth] = Payer[p.auth] => q = p
                        /\ \A b \in p.old : auth'[b] # "absent"
                        /\ \A b \in Auths :
                            auth'[b] = "enabled" /\ Payer[b] = Payer[p.auth] /\ Entity[b] = Entity[p.auth]
                            => b \in p.old
      BY DEF OpeningInv
    <3>1. \A q \in opening' : Payer[q.auth] = Payer[p.auth] => q = p
      BY <2>3 DEF OpeningInv
    <3>2. \A b \in p.old : auth'[b] # "absent"
      BY <2>1, <2>3 DEF OpeningInv
    <3>3. \A b \in Auths :
            auth'[b] = "enabled" /\ Payer[b] = Payer[p.auth] /\ Entity[b] = Entity[p.auth] => b \in p.old
      BY <2>2, <2>3 DEF OpeningInv
    <3> QED BY <2>4, <3>1, <3>2, <3>3
  <2>6. OneAuthorizationPerPayer'
    <3> SUFFICES ASSUME NEW b \in Auths, NEW c \in Auths, auth'[b] = "enabled", auth'[c] = "enabled",
                        Payer[b] = Payer[c], Entity[b] = Entity[c]
                 PROVE  b = c
      BY DEF OneAuthorizationPerPayer
    <3>1. \A d \in Auths : auth[d] = "enabled" /\ Payer[d] = Payer[o.auth] /\ Entity[d] = Entity[o.auth]
                            => d \in o.old
      BY DEF OpeningInv
    <3> QED BY <2>2, <3>1 DEF OneAuthorizationPerPayer
  <2> QED BY <2>5, <2>6
<1>4. CASE ~AuthStep
  BY <1>4, OtherStepsLeaveAuths DEF OpeningInv, OneAuthorizationPerPayer
<1> QED BY <1>1, <1>2, <1>3, <1>4 DEF AuthStep

LEMMA HostingInvInit == CreditInit => HostingInv
<1> SUFFICES ASSUME CreditInit PROVE HostingInv
  OBVIOUS
<1> USE CreditAssumption DEF CreditInit
<1>1. CreditTypeOK
  BY DEF CreditTypeOK, HoldStates
<1>2. \A u : HoldsOf(u) = {}
  BY DEF HoldsOf
<1>3. \A a : SpentOf(a) = {}
  BY DEF SpentOf
<1>4. HoldsAreCovered /\ BudgetIsKept
  <2>1. Cardinality({}) = 0
    BY FS_EmptySet
  <2>2. (\A u : Cardinality(HoldsOf(u)) = 0) /\ \A a : Cardinality(SpentOf(a)) = 0
    BY <1>2, <1>3, <2>1
  <2> QED BY <2>2 DEF HoldsAreCovered, BudgetIsKept
<1>5. OpeningInv /\ OneAuthorizationPerPayer
  BY DEF OpeningInv, OneAuthorizationPerPayer
<1> QED BY <1>1, <1>4, <1>5 DEF HostingInv

LEMMA HostingInvStep == HostingInv /\ [CreditNext]_creditVars => HostingInv'
BY CreditTypeStep, CoveredStep, BudgetStep, OpeningStep DEF HostingInv

LEMMA HostingInvariant == CreditSpec => []HostingInv
BY HostingInvInit, HostingInvStep, PTL DEF CreditSpec

\* What is held for hosting is there when it is captured, within its budget, and
\* a payer has one enabled authorization of an entity (space_billing.py:85-178).
THEOREM HostingCovered == CreditSpec => []HostingIsCovered
<1>1. HostingInv => HostingIsCovered
  BY DEF HostingInv, HostingIsCovered
<1> QED BY <1>1, HostingInvariant, PTL

\* No balance falls below zero, whatever is charged, held and captured at once
\* (generate.py:770-777, space_billing.py:170).
THEOREM CreditTypeCorrect == CreditSpec => []CreditTypeOK
<1>1. HostingInv => CreditTypeOK
  BY DEF HostingInv
<1> QED BY <1>1, HostingInvariant, PTL

\* A captured or released hold is never anything else again
\* (space_billing.py:153-178).
THEOREM SettledIsFinal == CreditSpec => SettlementIsFinal
<1> DEFINE Final == \A h \in Holds : hold[h] \in {"captured", "released"} => hold'[h] = hold[h]
<1>1. CreditTypeOK /\ HoldsAreCovered /\ [CreditNext]_creditVars => [Final]_creditVars
  <2> SUFFICES ASSUME CreditTypeOK, HoldsAreCovered, [CreditNext]_creditVars PROVE Final
    OBVIOUS
  <2>1. CASE HoldStep
    BY <2>1 DEF HoldStep, Reserve, Capture, Release, Settle, CreditTypeOK
  <2>2. CASE ~HoldStep
    BY <2>2, OtherStepsLeaveHolds
  <2> QED BY <2>1, <2>2
<1>2. HostingInv => CreditTypeOK /\ HoldsAreCovered
  BY DEF HostingInv
<1> QED BY <1>1, <1>2, HostingInvariant, PTL DEF CreditSpec, SettlementIsFinal

-----------------------------------------------------------------------------
(* The balance is the sum of the rows that explain it.                       *)

\* The causes of a user's rows, and what they add up to.
RowsOf(u) == {c \in log : Of(c) = u}
WorthOf(rows) == SumFunction([c \in rows |-> Worth(c)])

\* Causes of what there is.
Causes ==
    [kind : {"purchase"}, of : Purchases]
        \cup [kind : {"generation", "refund"}, of : Generations]
        \cup [kind : {"hosting"}, of : Holds]

LogInv ==
    /\ IsFiniteSet(log)
    /\ log \subseteq Causes
    /\ BalanceIsExplained

LEMMA CauseTypes ==
  ASSUME NEW c \in Causes
  PROVE  Of(c) \in Users /\ Worth(c) \in Int
<1> USE CreditAssumption DEF Of, Worth
<1>1. CASE c \in [kind : {"purchase"}, of : Purchases]
  BY <1>1
<1>2. CASE c \in [kind : {"generation", "refund"}, of : Generations]
  BY <1>2
<1>3. CASE c \in [kind : {"hosting"}, of : Holds]
  BY <1>3
<1> QED BY <1>1, <1>2, <1>3 DEF Causes

\* A new row moves the balance of its user by what it is worth.
LEMMA AddExplains ==
  ASSUME CreditTypeOK, LogInv, NEW cause \in Causes, cause \notin log,
         Add(Of(cause), Worth(cause), cause),
         \A h \in Holds : hold'[h] = "captured" <=> Cause("hosting", h) \in log'
  PROVE  LogInv'
<1>1. Of(cause) \in Users /\ Worth(cause) \in Int
  BY CauseTypes
<1>2. /\ credits' = [credits EXCEPT ![Of(cause)] = @ + Worth(cause)]
      /\ log' = log \cup {cause} /\ given' = given
  BY DEF Add
<1>3. IsFiniteSet(log') /\ log' \subseteq Causes
  BY <1>2, FS_AddElement DEF LogInv
<1>4. ASSUME NEW u \in Users
      PROVE  credits'[u] = Opening + given'[u] + WorthOf(RowsOf(u)')
  <2> DEFINE S == RowsOf(u)
             f == [c \in S |-> Worth(c)]
             g == [c \in S \cup {cause} |-> Worth(c)]
  <2>1. credits[u] = Opening + given[u] + WorthOf(S)
    BY DEF LogInv, BalanceIsExplained, WorthOf, RowsOf
  <2>2. IsFiniteSet(S) /\ cause \notin S /\ \A c \in S : Worth(c) \in Int
    <3>1. S \subseteq log /\ S \subseteq Causes
      BY DEF RowsOf, LogInv
    <3> QED BY <3>1, FS_Subset, CauseTypes DEF LogInv
  <2>3. CASE Of(cause) = u
    <3>1. RowsOf(u)' = S \cup {cause}
      BY <1>2, <2>3 DEF RowsOf
    <3>2. WorthOf(S) = SumFunctionOnSet(f, S) /\ WorthOf(S \cup {cause}) = SumFunctionOnSet(g, S \cup {cause})
      BY DEF WorthOf, SumFunction
    <3>3. /\ \A c \in S : f[c] \in Int /\ g[c] = f[c]
          /\ g[cause] = Worth(cause)
      BY <2>2
    <3> HIDE DEF f, g, S
    <3>4. SumFunctionOnSet(g, S \cup {cause}) = SumFunctionOnSet(f, S) + g[cause]
      <4>1. g[cause] \in Int /\ \A c \in S : f[c] \in Int /\ g[c] = f[c]
        BY <1>1, <3>3
      <4>2. IsFiniteSet(S) /\ cause \notin S
        BY <2>2
      <4> QED BY ONLY <4>1, <4>2, SumOfOneMore
    <3>5. SumFunctionOnSet(f, S) \in Int
      BY <2>2, <3>3, SumIsInteger
    <3>6. credits'[u] = credits[u] + Worth(cause)
      BY <1>1, <1>2, <2>3 DEF CreditTypeOK
    <3> QED BY <1>1, <1>2, <2>1, <3>1, <3>2, <3>3, <3>4, <3>5, <3>6, CreditAssumption
            DEF CreditTypeOK
  <2>4. CASE Of(cause) # u
    <3>1. RowsOf(u)' = S
      BY <1>2, <2>4 DEF RowsOf
    <3>2. credits'[u] = credits[u]
      BY <1>2, <2>4 DEF CreditTypeOK
    <3> HIDE DEF S
    <3> QED BY <1>2, <2>1, <3>1, <3>2
  <2> QED BY <2>3, <2>4
<1> QED BY <1>3, <1>4 DEF LogInv, BalanceIsExplained, WorthOf, RowsOf

\* A gift moves the balances and the sums of gifts alike.
LEMMA GiveExplains ==
  ASSUME CreditTypeOK, LogInv, NEW users \in SUBSET Users, NEW n \in Nat, Give(users, n),
         UNCHANGED hold
  PROVE  LogInv'
<1>1. log' = log /\ IsFiniteSet(log') /\ log' \subseteq Causes
  BY DEF Give, LogInv
<1>2. ASSUME NEW u \in Users
      PROVE  credits'[u] = Opening + given'[u] + WorthOf(RowsOf(u)')
  <2> DEFINE S == RowsOf(u)
  <2>1. credits[u] = Opening + given[u] + WorthOf(S)
    BY DEF LogInv, BalanceIsExplained, WorthOf, RowsOf
  <2>2. RowsOf(u)' = S
    BY <1>1 DEF RowsOf
  <2>3. WorthOf(S) \in Int
    <3> DEFINE f == [c \in S |-> Worth(c)]
    <3>1. IsFiniteSet(S) /\ \A c \in S : f[c] \in Int
      <4>1. S \subseteq log /\ S \subseteq Causes
        BY DEF RowsOf, LogInv
      <4> QED BY <4>1, FS_Subset, CauseTypes DEF LogInv
    <3>2. WorthOf(S) = SumFunctionOnSet(f, S)
      BY DEF WorthOf, SumFunction
    <3> HIDE DEF f, S
    <3> QED BY <3>1, <3>2, SumIsInteger
  <2> DEFINE k == IF u \in users THEN n ELSE 0
  <2>4. credits'[u] = credits[u] + k /\ given'[u] = given[u] + k /\ k \in Nat
    BY DEF Give
  <2>5. given[u] \in Nat /\ Opening \in Nat
    BY CreditAssumption DEF CreditTypeOK
  <2> HIDE DEF S, k
  <2> QED BY <2>1, <2>2, <2>3, <2>4, <2>5
<1> QED BY <1>1, <1>2 DEF LogInv, BalanceIsExplained, WorthOf, RowsOf

LEMMA LogInvStep ==
  ASSUME CreditTypeOK, LogInv, [CreditNext]_creditVars
  PROVE  LogInv'
<1> USE CreditAssumption DEF balanceVars, hostVars, loginVars
<1>1. ASSUME UNCHANGED balanceVars,
             \A h \in Holds : hold'[h] = "captured" <=> hold[h] = "captured"
      PROVE  LogInv'
  BY <1>1 DEF LogInv, BalanceIsExplained
<1>2. \A kind, of : Cause(kind, of).kind = kind /\ Cause(kind, of).of = of
  BY DEF Cause
<1>3. ASSUME NEW p \in Purchases,
             CreatePurchase(p) \/ ApprovePurchase(p) \/ CapturePurchase(p)
      PROVE  LogInv'
  BY <1>1, <1>3 DEF CreatePurchase, ApprovePurchase, CapturePurchase
<1>4. ASSUME NEW cause \in Causes, cause \notin log, cause.kind # "hosting",
             Add(Of(cause), Worth(cause), cause), UNCHANGED hold
      PROVE  LogInv'
  <2>1. \A h \in Holds : Cause("hosting", h) \in log' <=> Cause("hosting", h) \in log
    BY <1>2, <1>4 DEF Add
  <2> QED BY <1>4, <2>1, AddExplains DEF LogInv, BalanceIsExplained
<1>5. ASSUME NEW p \in Purchases, AwardPurchase(p)
      PROVE  LogInv'
  <2> DEFINE cause == Cause("purchase", p)
  <2>1. cause \in Causes /\ cause.kind = "purchase"
    BY DEF Cause, Causes
  <2>2. Of(cause) = Buyer[p] /\ Worth(cause) = Bought[p]
    BY <1>2 DEF Of, Worth
  <2>3. cause \notin log /\ Add(Buyer[p], Bought[p], cause) /\ UNCHANGED hold
    BY <1>5 DEF AwardPurchase, Unawarded
  <2> HIDE DEF cause
  <2> QED BY <1>4, <2>1, <2>2, <2>3
<1>6. ASSUME NEW g \in Generations, Charge(g)
      PROVE  LogInv'
  <2> DEFINE cause == Cause("generation", g)
  <2>1. cause \in Causes /\ cause.kind = "generation"
    BY DEF Cause, Causes
  <2>2. Of(cause) = Author[g] /\ Worth(cause) = -Price[g]
    BY <1>2 DEF Of, Worth
  <2>3. cause \notin log /\ Add(Author[g], -Price[g], cause) /\ UNCHANGED hold
    BY <1>6 DEF Charge
  <2> HIDE DEF cause
  <2> QED BY <1>4, <2>1, <2>2, <2>3
<1>7. ASSUME NEW g \in Generations, Refund(g)
      PROVE  LogInv'
  <2> DEFINE cause == Cause("refund", g)
  <2>1. cause \in Causes /\ cause.kind = "refund"
    BY DEF Cause, Causes
  <2>2. Of(cause) = Author[g] /\ Worth(cause) = Price[g]
    BY <1>2 DEF Of, Worth
  <2>3. cause \notin log /\ Add(Author[g], Price[g], cause) /\ UNCHANGED hold
    BY <1>7 DEF Refund
  <2> HIDE DEF cause
  <2> QED BY <1>4, <2>1, <2>2, <2>3
<1>8. ASSUME NEW users \in SUBSET Users, GiveCredits(users)
      PROVE  LogInv'
  BY <1>8, GiveExplains DEF GiveCredits
<1>9. ASSUME NEW u \in Users, NEW d \in Days, RewardLogin(u, d)
      PROVE  LogInv'
  <2> DEFINE reward == DailyReward + IF MonthOf[d] \notin monthly[u] THEN MonthlyReward ELSE 0
  <2>1. reward \in Nat /\ Give({u}, reward) /\ UNCHANGED hold
    BY <1>9 DEF RewardLogin
  <2> HIDE DEF reward
  <2> QED BY <2>1, GiveExplains
<1>10. CASE NextDay \/ AuthStep
  BY <1>1, <1>10 DEF NextDay, AuthStep, ReadAuthorizations, Revoke, Authorize
<1>11. ASSUME NEW h \in Holds, Reserve(h) \/ Release(h)
       PROVE  LogInv'
  BY <1>1, <1>11 DEF Reserve, Release, Settle, CreditTypeOK
<1>12. ASSUME NEW h \in Holds, Capture(h)
       PROVE  LogInv'
  <2> DEFINE cause == Cause("hosting", h)
  <2>1. cause \in Causes
    BY DEF Cause, Causes
  <2>2. Of(cause) = Payer[AuthOf[h]] /\ Worth(cause) = -1
    BY <1>2 DEF Of, Worth
  <2>3. /\ Add(Payer[AuthOf[h]], -1, cause)
        /\ hold[h] = "reserved" /\ hold' = [hold EXCEPT ![h] = "captured"]
    BY <1>12 DEF Capture, Settle
  <2>4. cause \notin log
    BY <2>3 DEF LogInv, BalanceIsExplained
  <2>5. \A j \in Holds : hold'[j] = "captured" <=> Cause("hosting", j) \in log'
    <3>1. \A j \in Holds : Cause("hosting", j) = cause <=> j = h
      BY DEF Cause
    <3> QED BY <2>3, <3>1 DEF LogInv, BalanceIsExplained, Add, CreditTypeOK
  <2> HIDE DEF cause
  <2> QED BY <2>1, <2>2, <2>3, <2>4, <2>5, AddExplains
<1>13. CASE UNCHANGED creditVars
  BY <1>1, <1>13 DEF creditVars
<1> QED BY <1>3, <1>5, <1>6, <1>7, <1>8, <1>9, <1>10, <1>11, <1>12, <1>13 DEF CreditNext, AuthStep

LEMMA LogInvInit == CreditInit => LogInv
<1> SUFFICES ASSUME CreditInit PROVE LogInv
  OBVIOUS
<1>1. ASSUME NEW u \in Users
      PROVE  credits[u] = Opening + given[u] + WorthOf(RowsOf(u))
  <2> DEFINE f == [c \in RowsOf(u) |-> Worth(c)]
  <2>1. RowsOf(u) = {}
    BY DEF CreditInit, RowsOf
  <2>2. WorthOf(RowsOf(u)) = SumFunctionOnSet(f, RowsOf(u))
    BY DEF WorthOf, SumFunction
  <2> HIDE DEF f
  <2>3. WorthOf(RowsOf(u)) = 0
    BY <2>1, <2>2, SumEmpty
  <2> QED BY <2>3, CreditAssumption DEF CreditInit
<1>2. IsFiniteSet(log) /\ log \subseteq Causes
  BY FS_EmptySet DEF CreditInit
<1>3. \A h \in Holds : hold[h] = "captured" <=> Cause("hosting", h) \in log
  BY DEF CreditInit
<1> QED BY <1>1, <1>2, <1>3 DEF LogInv, BalanceIsExplained, WorthOf, RowsOf

\* A balance is what its rows and gifts add up to: no purchase, charge, refund
\* or captured hour is in it twice or missing, whatever the number of users and
\* of handlers that ran again (credit.py:143-206, generate.py:770-777).
THEOREM BalanceExplained == CreditSpec => []BalanceIsExplained
<1>1. HostingInv => CreditTypeOK
  BY DEF HostingInv
<1>2. LogInv => BalanceIsExplained
  BY DEF LogInv
<1>3. CreditTypeOK /\ LogInv /\ [CreditNext]_creditVars => LogInv'
  BY LogInvStep
<1> QED BY <1>1, <1>2, <1>3, LogInvInit, HostingInvariant, PTL DEF CreditSpec

-----------------------------------------------------------------------------
(* Subscription payments (SubscriptionBilling).                              *)

\* What rows of the log add up to.
AmountOf(rows) == SumFunction([g \in rows |-> g.amount])

GrantRow ==
    [kind : {"award", "legacy", "compensation"}, of : Int, nth : Int,
     contract : Contracts \cup {NoContract}, amount : Nat \ {0}, time : Int]

\* What PayPal has collected.
Payment == [contract : Contracts, time : 1..MaxMonths]

\* A contract pays once in a cycle.
PaymentsDiffer == \A m, n \in DOMAIN payments : payments[m] = payments[n] => m = n

\* The row from before the keys is that of the first payment.
LegacyInv ==
    \A g \in grants : g.kind = "legacy" =>
        /\ g.of = 1 /\ g.time = 1
        /\ 1 \in DOMAIN payments
        /\ payments[1] = [contract |-> g.contract, time |-> 1]

\* Compensations of an order are numbered in their order.
NumberInv ==
    \A g \in grants : g.kind = "compensation" => g.nth <= Cardinality(CompensationsOf(g.of))

BillingInv ==
    /\ BillingTypeOK
    /\ IsFiniteSet(grants) /\ grants \subseteq GrantRow
    /\ checked \in [Admins -> {<< >>} \cup (Int \X (Nat \ {0}))]
    /\ PaymentsDiffer
    /\ LegacyInv
    /\ NumberInv
    /\ PaymentIsServed

LEMMA AmountAdds ==
  ASSUME NEW rows, IsFiniteSet(rows), \A g \in rows : g.amount \in Int,
         NEW row, row \notin rows, row.amount \in Int
  PROVE  /\ AmountOf(rows) \in Int
         /\ AmountOf(rows \cup {row}) = AmountOf(rows) + row.amount
<1> DEFINE f == [g \in rows |-> g.amount]
           h == [g \in rows \cup {row} |-> g.amount]
<1>1. /\ AmountOf(rows) = SumFunctionOnSet(f, rows)
      /\ AmountOf(rows \cup {row}) = SumFunctionOnSet(h, rows \cup {row})
  BY DEF AmountOf, SumFunction
<1>2. h[row] = row.amount /\ \A g \in rows : f[g] \in Int /\ h[g] = f[g]
  OBVIOUS
<1> HIDE DEF f, h
<1>3. SumFunctionOnSet(f, rows) \in Int
  BY <1>2, SumIsInteger
<1>4. SumFunctionOnSet(h, rows \cup {row}) = SumFunctionOnSet(f, rows) + h[row]
  <2>1. h[row] \in Int /\ (\A g \in rows : f[g] \in Int /\ h[g] = f[g])
    BY <1>2
  <2> QED BY ONLY <2>1, IsFiniteSet(rows), row \notin rows, SumOfOneMore
<1> QED BY <1>1, <1>2, <1>3, <1>4

\* A row that takes the place of another of the same amount.
LEMMA AmountStays ==
  ASSUME NEW rows, IsFiniteSet(rows), \A g \in rows : g.amount \in Int,
         NEW old \in rows, NEW row, row \notin rows, row.amount = old.amount
  PROVE  AmountOf((rows \ {old}) \cup {row}) = AmountOf(rows)
<1> DEFINE rest == rows \ {old}
<1>1. IsFiniteSet(rest) /\ (\A g \in rest : g.amount \in Int) /\ old \notin rest /\ row \notin rest
  BY FS_Subset
<1>2. rest \cup {old} = rows
  OBVIOUS
<1>3. old.amount \in Int
  OBVIOUS
<1> HIDE DEF rest
<1>4. AmountOf(rows) = AmountOf(rest) + old.amount
  BY <1>1, <1>2, <1>3, AmountAdds
<1>5. AmountOf(rest \cup {row}) = AmountOf(rest) + row.amount
  BY <1>1, <1>3, AmountAdds
<1> QED BY <1>4, <1>5 DEF rest

LEMMA PaymentTypes ==
  ASSUME BillingTypeOK
  PROVE  /\ payments \in Seq(Payment) /\ DOMAIN payments = 1..Len(payments)
         /\ \A n \in DOMAIN payments : n \in Nat \ {0} /\ payments[n] \in Payment
<1>1. payments \in Seq(Payment) /\ DOMAIN payments = 1..Len(payments) /\ Len(payments) \in Nat
  BY DEF BillingTypeOK, Payment
<1> QED BY <1>1, ElementOfSeq

\* Awarding a payment n leaves one row for it, and the sum in the balance.
LEMMA AwardStep ==
  ASSUME BillingInv, NEW n \in DOMAIN payments, NEW webhook, Award(n, webhook),
         UNCHANGED <<month, plan, payments>>
  PROVE  /\ IsFiniteSet(grants') /\ grants' \subseteq GrantRow
         /\ LegacyInv' /\ NumberInv' /\ GrantedOncePerPayment'
<1> USE BillingAssumption DEF BillingInv, PaymentIsServed
<1>1. /\ n \in Int /\ month \in Int
      /\ payments[n] \in [contract : Contracts, time : 1..MaxMonths]
  BY PaymentTypes DEF BillingTypeOK, Payment
<1>2. granted = AmountOf(grants) /\ \A g \in grants : g.amount \in Int
  BY DEF GrantedOncePerPayment, AmountOf, GrantRow
<1>3. CASE Awarded(n, webhook) /\ UNCHANGED <<grants, granted>>
  BY <1>3 DEF LegacyInv, NumberInv, GrantedOncePerPayment, CompensationsOf
<1>4. ASSUME ~Awarded(n, webhook), NEW g \in Adoptable(n),
             grants' = (grants \ {g}) \cup {[g EXCEPT !.kind = "award", !.of = n]},
             UNCHANGED granted
      PROVE  /\ IsFiniteSet(grants') /\ grants' \subseteq GrantRow
             /\ LegacyInv' /\ NumberInv' /\ GrantedOncePerPayment'
  <2> DEFINE row == [g EXCEPT !.kind = "award", !.of = n]
  <2>1. g \in grants /\ g.kind = "legacy" /\ g.contract = payments[n].contract
        /\ g.time >= payments[n].time /\ g \in GrantRow
    BY <1>4 DEF Adoptable
  <2>2. row \in GrantRow /\ row.kind = "award" /\ row.of = n /\ row.amount = g.amount
    BY <1>1, <2>1 DEF GrantRow
  <2>3. row \notin grants
    BY <1>4, <2>2 DEF Awarded
  <2>4. n = 1 /\ g.of = 1
    <3>1. g.of = 1 /\ g.time = 1 /\ 1 \in DOMAIN payments /\ payments[1] = [contract |-> g.contract, time |-> 1]
      BY <2>1 DEF LegacyInv
    <3>2. payments[n].time = 1
      BY <1>1, <2>1, <3>1
    <3>3. payments[n] = payments[1]
      BY <1>1, <2>1, <3>1, <3>2
    <3> QED BY <3>1, <3>3 DEF PaymentsDiffer
  <2> HIDE DEF row
  <2>5. grants' = (grants \ {g}) \cup {row}
    BY <1>4 DEF row
  <2>6. IsFiniteSet(grants') /\ grants' \subseteq GrantRow
    BY <2>2, <2>5, FS_AddElement, FS_Subset
  <2>7. LegacyInv'
    BY <2>2, <2>5 DEF LegacyInv
  <2>8. NumberInv'
    <3>1. \A s : CompensationsOf(s)' = CompensationsOf(s)
      BY <2>1, <2>2, <2>5 DEF CompensationsOf
    <3> QED BY <2>2, <2>5, <3>1 DEF NumberInv
  <2>9. \A x, y \in grants' : {x.kind, y.kind} \subseteq {"award", "legacy"} /\ x.of = y.of => x = y
    <3>1. \A x \in grants \ {g} : x.kind \in {"award", "legacy"} => x.of # n
      BY <2>1, <2>4 DEF GrantedOncePerPayment
    <3> QED BY <2>2, <2>5, <3>1 DEF GrantedOncePerPayment
  <2>10. granted' = AmountOf(grants')
    BY <1>2, <1>4, <2>1, <2>2, <2>3, <2>5, AmountStays
  <2> QED BY <2>6, <2>7, <2>8, <2>9, <2>10 DEF GrantedOncePerPayment, AmountOf
<1>5. ASSUME ~Awarded(n, webhook), Adoptable(n) = {},
             grants' = grants \cup {Grant("award", n, 1, payments[n].contract,
                                          Credits(plan[payments[n].contract]))},
             granted' = granted + Credits(plan[payments[n].contract])
      PROVE  /\ IsFiniteSet(grants') /\ grants' \subseteq GrantRow
             /\ LegacyInv' /\ NumberInv' /\ GrantedOncePerPayment'
  <2> DEFINE amount == Credits(plan[payments[n].contract])
             row == Grant("award", n, 1, payments[n].contract, amount)
  <2>1. amount \in Nat \ {0}
    BY DEF Credits
  <2>2. row \in GrantRow /\ row.kind = "award" /\ row.of = n /\ row.amount = amount
    BY <1>1, <2>1 DEF GrantRow, Grant
  <2>3. row \notin grants
    BY <1>5, <2>2 DEF Awarded
  <2> HIDE DEF row, amount
  <2>4. grants' = grants \cup {row} /\ granted' = granted + amount
    BY <1>5 DEF row, amount
  <2>5. IsFiniteSet(grants') /\ grants' \subseteq GrantRow
    BY <2>2, <2>4, FS_AddElement
  <2>6. LegacyInv'
    BY <2>2, <2>4 DEF LegacyInv
  <2>7. NumberInv'
    <3>1. \A s : CompensationsOf(s)' = CompensationsOf(s)
      BY <2>2, <2>4 DEF CompensationsOf
    <3> QED BY <2>2, <2>4, <3>1 DEF NumberInv
  <2>8. \A x, y \in grants' : {x.kind, y.kind} \subseteq {"award", "legacy"} /\ x.of = y.of => x = y
    <3>1. \A x \in grants : x.kind = "award" => x.of # n
      BY <1>5 DEF Awarded
    <3>2. \A x \in grants : x.kind = "legacy" => x.of # n
      <4> SUFFICES ASSUME NEW x \in grants, x.kind = "legacy", x.of = n PROVE FALSE
        OBVIOUS
      <4>1. n = 1 /\ x.time = 1 /\ payments[n] = [contract |-> x.contract, time |-> 1]
        BY DEF LegacyInv
      <4>2. x \in Adoptable(n)
        BY <4>1 DEF Adoptable
      <4> QED BY <1>5, <4>2
    <3> QED BY <2>2, <2>4, <3>1, <3>2 DEF GrantedOncePerPayment
  <2>9. granted' = AmountOf(grants')
    BY <1>2, <2>1, <2>2, <2>3, <2>4, AmountAdds
  <2> QED BY <2>5, <2>6, <2>7, <2>8, <2>9 DEF GrantedOncePerPayment, AmountOf
<1> QED BY <1>3, <1>4, <1>5 DEF Award

\* A compensation has a number of its own.
LEMMA CompensateStep ==
  ASSUME BillingInv, NEW a \in Admins, Compensate(a)
  PROVE  /\ IsFiniteSet(grants') /\ grants' \subseteq GrantRow
         /\ LegacyInv' /\ NumberInv' /\ GrantedOncePerPayment'
<1> USE BillingAssumption DEF BillingInv, PaymentIsServed
<1>0. PICK s, nth, row :
         /\ s = checked[a][1]
         /\ nth = Cardinality(CompensationsOf(s)) + 1
         /\ row = Grant("compensation", s, nth, current, checked[a][2])
  OBVIOUS
<1>1. s \in Int /\ checked[a][2] \in Nat \ {0}
  BY <1>0 DEF Compensate
<1>2. \A t : IsFiniteSet(CompensationsOf(t)) /\ Cardinality(CompensationsOf(t)) \in Nat
  <2>1. \A t : CompensationsOf(t) \subseteq grants
    BY DEF CompensationsOf
  <2> QED BY <2>1, FS_Subset, FS_CardinalityType
<1>3. /\ row \in GrantRow /\ row.kind = "compensation" /\ row.of = s /\ row.nth = nth
      /\ row.amount = checked[a][2]
  <2>1. month \in Int /\ current \in Contracts \cup {NoContract} /\ nth \in Int
    BY <1>0, <1>2 DEF BillingTypeOK
  <2> QED BY <1>0, <1>1, <2>1 DEF Grant, GrantRow
<1>4. grants' = grants \cup {row} /\ granted' = granted + checked[a][2] /\ UNCHANGED payments
  BY <1>0 DEF Compensate
<1>5. row \notin grants
  <2> SUFFICES ASSUME row \in grants PROVE FALSE
    OBVIOUS
  <2>1. row.nth <= Cardinality(CompensationsOf(s))
    BY <1>3 DEF NumberInv
  <2>2. row.nth = Cardinality(CompensationsOf(s)) + 1
    BY <1>0, <1>3
  <2> QED BY <1>2, <2>1, <2>2
<1>6. IsFiniteSet(grants') /\ grants' \subseteq GrantRow
  BY <1>3, <1>4, FS_AddElement
<1>7. LegacyInv'
  BY <1>3, <1>4 DEF LegacyInv
<1>8. NumberInv'
  <2>1. CompensationsOf(s)' = CompensationsOf(s) \cup {row} /\ row \notin CompensationsOf(s)
    BY <1>3, <1>4, <1>5 DEF CompensationsOf
  <2>2. Cardinality(CompensationsOf(s)') = nth
    BY <1>0, <1>2, <2>1, FS_AddElement
  <2>3. \A t : t # s => CompensationsOf(t)' = CompensationsOf(t)
    BY <1>3, <1>4 DEF CompensationsOf
  <2> SUFFICES ASSUME NEW g \in grants', g.kind = "compensation"
               PROVE  g.nth <= Cardinality(CompensationsOf(g.of)')
    BY DEF NumberInv, CompensationsOf
  <2>4. CASE g = row
    <3>1. g.nth = nth /\ g.of = s /\ nth \in Nat
      BY <1>0, <1>2, <1>3, <2>4
    <3> QED BY <2>2, <3>1
  <2>5. CASE g # row /\ g.of = s
    <3>1. g.nth \in Int /\ g.nth <= Cardinality(CompensationsOf(s))
      BY <1>4, <2>5 DEF NumberInv, GrantRow
    <3> QED BY <1>0, <1>2, <2>2, <2>5, <3>1
  <2>6. CASE g # row /\ g.of # s
    BY <1>4, <2>3, <2>6 DEF NumberInv
  <2> QED BY <2>4, <2>5, <2>6
<1>9. \A x, y \in grants' : {x.kind, y.kind} \subseteq {"award", "legacy"} /\ x.of = y.of => x = y
  BY <1>3, <1>4 DEF GrantedOncePerPayment
<1>10. granted' = AmountOf(grants')
  <2>1. granted = AmountOf(grants) /\ \A g \in grants : g.amount \in Int
    BY DEF GrantedOncePerPayment, AmountOf, GrantRow
  <2> QED BY <1>1, <1>3, <1>4, <1>5, <2>1, AmountAdds
<1> QED BY <1>6, <1>7, <1>8, <1>9, <1>10 DEF GrantedOncePerPayment, AmountOf

\* What an order misses is a number.
LEMMA MissingIsNumber ==
  ASSUME BillingInv, NEW o
  PROVE  Missing(o) \subseteq Int
<1>1. Expected(o) \in Int
  BY DEF Expected, Credits
<1>2. Matches(o) \subseteq grants
  BY DEF Matches, CompensationsOf
<1>3. \A g \in grants : g.amount \in Int
  BY DEF BillingInv, GrantRow
<1> QED BY <1>1, <1>2, <1>3 DEF Missing

\* The row of a payment stays its row.
LEMMA GivenStays ==
  ASSUME [BillingNext]_billingVars
  PROVE  \A n : Given(n) => Given(n)'
<1>1. \A g \in grants : g.kind = "award" => g \in grants'
  <2>1. ASSUME NEW n, NEW webhook, Award(n, webhook)
        PROVE  \A g \in grants : g.kind = "award" => g \in grants'
    BY <2>1 DEF Award, Adoptable
  <2>2. ASSUME NEW a \in Admins, Compensate(a) PROVE grants \subseteq grants'
    BY <2>2 DEF Compensate
  <2> QED BY <2>1, <2>2 DEF BillingNext, NextMonth, Bill, Revise, ActivateUnpaid, Sale, Activate,
         CheckCompensation, billingVars
<1> QED BY <1>1 DEF Given

LEMMA AwardGives ==
  ASSUME grants \subseteq GrantRow, NEW n, NEW webhook, Award(n, webhook)
  PROVE  Given(n)'
<1>1. CASE Awarded(n, webhook) /\ UNCHANGED <<grants, granted>>
  BY <1>1 DEF Awarded, Given
<1>2. ASSUME NEW g \in Adoptable(n),
             grants' = (grants \ {g}) \cup {[g EXCEPT !.kind = "award", !.of = n]}
      PROVE  Given(n)'
  <2> DEFINE row == [g EXCEPT !.kind = "award", !.of = n]
  <2>1. row.kind = "award" /\ row.of = n
    BY <1>2 DEF Adoptable, GrantRow
  <2>2. row \in grants'
    BY <1>2
  <2> HIDE DEF row
  <2> QED BY <2>1, <2>2 DEF Given
<1> DEFINE new == Grant("award", n, 1, payments[n].contract, Credits(plan[payments[n].contract]))
<1>3. new.kind = "award" /\ new.of = n
  BY DEF Grant
<1>4. \/ Awarded(n, webhook) /\ UNCHANGED <<grants, granted>>
      \/ \E g \in Adoptable(n) : grants' = (grants \ {g}) \cup {[g EXCEPT !.kind = "award", !.of = n]}
      \/ grants' = grants \cup {new}
  BY Zenon DEF Award
<1> HIDE DEF new
<1>5. CASE grants' = grants \cup {new}
  BY <1>3, <1>5 DEF Given
<1> QED BY <1>1, <1>2, <1>4, <1>5, Zenon

\* The rest of a step: types, payments and the time of Pro.
LEMMA BillingFrameStep ==
  ASSUME BillingInv, [BillingNext]_billingVars, grants' \subseteq GrantRow
  PROVE  /\ BillingTypeOK' /\ PaymentsDiffer' /\ EntitlementIsPaid' /\ SaleIsServed'
         /\ checked' \in [Admins -> {<< >>} \cup (Int \X (Nat \ {0}))]
<1> DEFINE Checked == [Admins -> {<< >>} \cup (Int \X (Nat \ {0}))]
           Goal == BillingTypeOK' /\ PaymentsDiffer' /\ EntitlementIsPaid' /\ SaleIsServed'
                   /\ checked' \in Checked
<1> USE BillingAssumption
<1>1. /\ BillingTypeOK /\ PaymentsDiffer /\ EntitlementIsPaid /\ SaleIsServed /\ checked \in Checked
      /\ \A g \in grants' : g.amount > 0
  BY DEF BillingInv, PaymentIsServed, GrantRow
<1>2. \A n \in DOMAIN payments : payments[n] \in Payment /\ n \in Nat \ {0}
  BY <1>1, PaymentTypes
<1>0. \A n : Given(n) => Given(n)'
  BY GivenStays
<1>3. CASE NextMonth
  BY <1>0, <1>1, <1>3 DEF NextMonth, accountVars, BillingTypeOK, PaymentsDiffer, EntitlementIsPaid, SaleIsServed, PaidUntil
<1>4. ASSUME NEW c \in Contracts, Bill(c) PROVE Goal
  <2> DEFINE paid == [contract |-> c, time |-> month]
  <2>1. /\ payments \in Seq(Payment) /\ Len(payments) \in Nat /\ DOMAIN payments = 1..Len(payments)
        /\ paid \in Payment
    BY <1>1, PaymentTypes DEF BillingTypeOK, Payment
  <2>2. /\ payments' = Append(payments, paid)
        /\ \A n \in DOMAIN payments : payments[n] # paid
        /\ UNCHANGED <<month, plan, current, pro_level, pro_expires_at, sales, grants, checked>>
    BY <1>4 DEF Bill, accountVars
  <2> HIDE DEF paid
  <2>3. /\ payments' \in Seq(Payment) /\ Len(payments') = Len(payments) + 1
        /\ DOMAIN payments' = 1..(Len(payments) + 1)
        /\ \A n \in DOMAIN payments : payments'[n] = payments[n]
        /\ payments'[Len(payments) + 1] = paid
    <3>1. /\ payments' \in Seq(Payment) /\ Len(payments') = Len(payments) + 1
          /\ \A n \in 1..Len(payments) : payments'[n] = payments[n]
          /\ payments'[Len(payments) + 1] = paid
      BY <2>1, <2>2, AppendProperties
    <3>2. DOMAIN payments' = 1..Len(payments')
      BY <3>1
    <3> QED BY <2>1, <3>1, <3>2
  <2>4. PaymentsDiffer'
    BY <1>1, <2>1, <2>2, <2>3 DEF PaymentsDiffer
  <2>5. DOMAIN payments \subseteq DOMAIN payments'
    BY <2>1, <2>3
  <2>6. BillingTypeOK'
    <3>1. payments' \in Seq([contract : Contracts, time : 1..MaxMonths])
      BY <2>3 DEF Payment
    <3> QED BY <1>1, <2>2, <2>5, <3>1 DEF BillingTypeOK
  <2>7. EntitlementIsPaid' /\ SaleIsServed'
    BY <1>0, <1>1, <2>2, <2>3, <2>5 DEF EntitlementIsPaid, SaleIsServed, PaidUntil
  <2> QED BY <1>1, <2>2, <2>4, <2>6, <2>7
<1>5. ASSUME NEW c \in Contracts, Revise(c) \/ ActivateUnpaid(c) PROVE Goal
  BY <1>0, <1>1, <1>5 DEF Revise, ActivateUnpaid, accountVars, BillingTypeOK, PaymentsDiffer,
     EntitlementIsPaid, SaleIsServed, PaidUntil
<1>6. ASSUME NEW s \in DOMAIN payments, NEW n \in DOMAIN payments,
             NEW c \in Contracts \cup {NoContract}, Sale(s, n, c)
      PROVE  Goal
  <2>1. payments[s].contract \in Contracts /\ payments[n].time \in 1..MaxMonths
    BY <1>2 DEF Payment
  <2>2. UNCHANGED <<month, plan, payments, checked>> /\ current' \in Contracts \cup {NoContract}
    BY <1>1, <1>6, <2>1 DEF Sale, BillingTypeOK
  <2>3. CASE \E o \in sales : o.sale = s
    BY <1>0, <1>1, <1>6, <2>2, <2>3 DEF Sale, BillingTypeOK, PaymentsDiffer, EntitlementIsPaid,
       SaleIsServed, PaidUntil
  <2>4. CASE ~ \E o \in sales : o.sale = s
    <3>0. PICK sale : sale = [sale |-> s, paid_at |-> n, plan |-> plan[payments[s].contract]]
      OBVIOUS
    <3>1. /\ pro_expires_at' = Later(pro_expires_at, PaidUntil(n))
          /\ pro_level' \in {pro_level, plan[payments[s].contract]}
          /\ pro_level = "free" => pro_level' = plan[payments[s].contract]
          /\ sales' = sales \cup {sale}
          /\ Given(n)'
      BY <1>6, <2>4, <3>0, AwardGives DEF Sale, BillingInv
    <3>2. sale.sale = s /\ sale.paid_at = n
      BY <3>0
    <3>3. pro_expires_at' \in {pro_expires_at, payments[n].time + 1} /\ pro_expires_at' \in 0..MaxMonths + 1
      BY <1>1, <2>1, <3>1 DEF Later, PaidUntil, BillingTypeOK
    <3>4. EntitlementIsPaid'
      <4>1. CASE pro_expires_at' = pro_expires_at
        BY <1>0, <1>1, <2>2, <4>1 DEF EntitlementIsPaid, PaidUntil
      <4>2. CASE pro_expires_at' = payments[n].time + 1
        BY <2>1, <2>2, <3>1, <4>2 DEF EntitlementIsPaid, PaidUntil
      <4> QED BY <3>3, <4>1, <4>2
    <3>5. BillingTypeOK'
      <4>1. plan[payments[s].contract] \in {"pro-plus", "pro-max"}
        BY <1>1, <2>1 DEF BillingTypeOK
      <4> QED BY <1>1, <2>2, <3>1, <3>2, <3>3, <4>1 DEF BillingTypeOK
    <3>6. SaleIsServed'
      <4>0. plan[payments[s].contract] # "free"
        BY <1>1, <2>1 DEF BillingTypeOK
      <4>1. pro_level' # "free" /\ pro_expires_at' > 0
        <5>1. pro_level' # "free"
          BY <3>1, <4>0
        <5>2. pro_expires_at' > 0
          BY <1>1, <2>1, <3>1 DEF BillingTypeOK, Later, PaidUntil
        <5> QED BY <5>1, <5>2
      <4>2. \A o \in sales : Given(o.paid_at)'
        BY <1>0, <1>1, Zenon DEF SaleIsServed
      <4>3. Given(sale.paid_at)'
        BY <3>1, <3>2
      <4> QED BY <3>1, <4>1, <4>2, <4>3, Zenon DEF SaleIsServed
    <3> QED BY <1>1, <2>2, <3>4, <3>5, <3>6 DEF PaymentsDiffer
  <2> QED BY <2>3, <2>4
<1>7. ASSUME NEW c \in Contracts, NEW n \in DOMAIN payments, Activate(c, n) PROVE Goal
  <2>1. payments[n].time \in 1..MaxMonths
    BY <1>2 DEF Payment
  <2>2. /\ UNCHANGED <<month, plan, payments, sales, checked>> /\ current' = c
        /\ pro_level' = plan[c] /\ pro_expires_at' = payments[n].time + 1 /\ Given(n)'
    BY <1>7, AwardGives DEF Activate, PaidUntil, BillingInv
  <2>3. BillingTypeOK'
    BY <1>1, <2>1, <2>2 DEF BillingTypeOK
  <2>4. EntitlementIsPaid' /\ SaleIsServed'
    <3>1. plan[c] # "free" /\ pro_expires_at' > 0
      BY <1>1, <2>1, <2>2 DEF BillingTypeOK
    <3> QED BY <1>0, <1>1, <2>1, <2>2, <3>1 DEF EntitlementIsPaid, SaleIsServed, PaidUntil
  <2> QED BY <1>1, <2>2, <2>3, <2>4 DEF PaymentsDiffer
<1>8. ASSUME NEW a \in Admins, NEW o \in sales, CheckCompensation(a, o) PROVE Goal
  <2>1. UNCHANGED <<month, plan, payments, accountVars, sales, grants, granted>>
    BY <1>8 DEF CheckCompensation
  <2>2. PICK missing \in Missing(o) : missing > 0 /\ checked' = [checked EXCEPT ![a] = <<o.sale, missing>>]
    BY <1>8 DEF CheckCompensation
  <2>3. missing \in Nat \ {0}
    BY <2>2, MissingIsNumber
  <2>4. o.sale \in Int
    BY <1>1, <1>2 DEF BillingTypeOK
  <2>5. checked' \in Checked
    BY <1>1, <2>2, <2>3, <2>4
  <2> QED BY <1>0, <1>1, <2>1, <2>5 DEF accountVars, BillingTypeOK, PaymentsDiffer, EntitlementIsPaid,
         SaleIsServed, PaidUntil
<1>9. ASSUME NEW a \in Admins, Compensate(a) PROVE Goal
  <2>1. UNCHANGED <<month, plan, payments, accountVars, sales>> /\ checked' = [checked EXCEPT ![a] = << >>]
    BY <1>9 DEF Compensate
  <2> QED BY <1>0, <1>1, <2>1 DEF accountVars, BillingTypeOK, PaymentsDiffer, EntitlementIsPaid,
         SaleIsServed, PaidUntil
<1>10. CASE UNCHANGED billingVars
  BY <1>0, <1>1, <1>10 DEF billingVars, BillingTypeOK, PaymentsDiffer, EntitlementIsPaid, SaleIsServed, PaidUntil
<1> HIDE DEF Goal
<1>11. Goal
  BY <1>3, <1>4, <1>5, <1>6, <1>7, <1>8, <1>9, <1>10 DEF BillingNext, Goal
<1> QED BY <1>11 DEF Goal

LEMMA BillingInvStep == BillingInv /\ [BillingNext]_billingVars => BillingInv'
<1> SUFFICES ASSUME BillingInv, [BillingNext]_billingVars PROVE BillingInv'
  OBVIOUS
<1> DEFINE Rows == /\ IsFiniteSet(grants') /\ grants' \subseteq GrantRow
                   /\ LegacyInv' /\ NumberInv' /\ GrantedOncePerPayment'
<1>1. ASSUME UNCHANGED <<grants, granted, payments>> PROVE Rows
  BY <1>1 DEF BillingInv, LegacyInv, NumberInv, PaymentIsServed, GrantedOncePerPayment, CompensationsOf
<1>2. ASSUME NEW c \in Contracts, Bill(c) PROVE Rows
  <2>1. UNCHANGED <<grants, granted>> /\ payments' = Append(payments, [contract |-> c, time |-> month])
    BY <1>2 DEF Bill
  <2>2. payments \in Seq(Payment) /\ [contract |-> c, time |-> month] \in Payment
    BY PaymentTypes DEF BillingInv, BillingTypeOK, Payment
  <2>3. 1 \in DOMAIN payments => 1 \in DOMAIN payments' /\ payments'[1] = payments[1]
    <3>1. /\ payments' \in Seq(Payment) /\ Len(payments') = Len(payments) + 1
          /\ \A n \in 1..Len(payments) : payments'[n] = payments[n]
      BY <2>1, <2>2, AppendProperties
    <3>2. DOMAIN payments' = 1..Len(payments') /\ DOMAIN payments = 1..Len(payments)
      BY <2>2, <3>1
    <3> QED BY <2>2, <3>1, <3>2
  <2> QED BY <2>1, <2>3 DEF BillingInv, LegacyInv, NumberInv, PaymentIsServed, GrantedOncePerPayment,
         CompensationsOf
<1>3. ASSUME NEW s \in DOMAIN payments, NEW n \in DOMAIN payments,
             NEW c \in Contracts \cup {NoContract}, Sale(s, n, c)
      PROVE  Rows
  <2>1. UNCHANGED <<grants, granted, payments>> \/ (Award(n, TRUE) /\ UNCHANGED <<month, plan, payments>>)
    BY <1>3 DEF Sale
  <2> QED BY <1>1, <2>1, AwardStep
<1>4. ASSUME NEW c \in Contracts, NEW n \in DOMAIN payments, Activate(c, n) PROVE Rows
  BY <1>4, AwardStep DEF Activate
<1>5. ASSUME NEW a \in Admins, Compensate(a) PROVE Rows
  BY <1>5, CompensateStep
<1>6. Rows
  <2> HIDE DEF Rows
  <2>1. NextMonth \/ (\E c \in Contracts : Revise(c) \/ ActivateUnpaid(c))
           \/ (\E a \in Admins, o \in sales : CheckCompensation(a, o)) \/ UNCHANGED billingVars
        => UNCHANGED <<grants, granted, payments>>
    BY DEF NextMonth, Revise, ActivateUnpaid, CheckCompensation, billingVars
  <2> QED BY <1>1, <1>2, <1>3, <1>4, <1>5, <2>1 DEF BillingNext
<1> QED BY <1>6, BillingFrameStep DEF BillingInv, PaymentIsServed

LEMMA BillingInvInit == BillingInit => BillingInv
<1> SUFFICES ASSUME BillingInit PROVE BillingInv
  OBVIOUS
<1> USE BillingAssumption
<1>1. CASE payments = << >> /\ grants = {} /\ granted = 0
  <2>1. AmountOf({}) = 0
    <3> DEFINE f == [g \in {} |-> g.amount]
    <3>1. AmountOf({}) = SumFunctionOnSet(f, {})
      BY DEF AmountOf, SumFunction
    <3> HIDE DEF f
    <3> QED BY <3>1, SumEmpty
  <2>2. GrantedOncePerPayment
    BY <1>1, <2>1 DEF GrantedOncePerPayment, AmountOf
  <2>3. BillingTypeOK
    BY <1>1 DEF BillingInit, BillingTypeOK
  <2> QED BY <1>1, <2>2, <2>3, FS_EmptySet DEF BillingInit, BillingInv, PaymentsDiffer, LegacyInv, NumberInv,
         PaymentIsServed, EntitlementIsPaid, SaleIsServed
<1>2. ASSUME NEW c \in Contracts,
             payments = <<[contract |-> c, time |-> 1]>>,
             grants = {Grant("legacy", 1, 1, c, Credits(plan[c]))},
             granted = Credits(plan[c])
      PROVE  BillingInv
  <2> DEFINE row == Grant("legacy", 1, 1, c, Credits(plan[c]))
  <2>1. /\ row \in GrantRow /\ row.kind = "legacy" /\ row.of = 1 /\ row.contract = c /\ row.time = 1
        /\ row.amount = granted /\ granted \in Nat \ {0}
    BY <1>2 DEF Grant, GrantRow, Credits, BillingInit
  <2> HIDE DEF row
  <2>2. grants = {row}
    BY <1>2 DEF row
  <2>3. AmountOf(grants) = granted
    <3>1. AmountOf({}) = 0
      <4> DEFINE f == [g \in {} |-> g.amount]
      <4>1. AmountOf({}) = SumFunctionOnSet(f, {})
        BY DEF AmountOf, SumFunction
      <4> HIDE DEF f
      <4> QED BY <4>1, SumEmpty
    <3>2. AmountOf({} \cup {row}) = AmountOf({}) + row.amount
      BY <2>1, FS_EmptySet, AmountAdds
    <3>3. {} \cup {row} = grants
      BY <2>2
    <3> QED BY <2>1, <3>1, <3>2, <3>3
  <2>4. GrantedOncePerPayment
    BY <2>2, <2>3 DEF GrantedOncePerPayment, AmountOf
  <2>5. DOMAIN payments = {1} /\ payments[1] = [contract |-> c, time |-> 1]
    BY <1>2
  <2>6. BillingTypeOK
    <3>1. payments \in Seq([contract : Contracts, time : 1..MaxMonths])
      BY <1>2
    <3>2. \A g \in grants : g.amount > 0
      BY <2>1, <2>2
    <3> QED BY <3>1, <3>2 DEF BillingInit, BillingTypeOK
  <2>7. LegacyInv /\ NumberInv /\ PaymentsDiffer
    BY <2>1, <2>2, <2>5 DEF LegacyInv, NumberInv, PaymentsDiffer
  <2>8. IsFiniteSet(grants) /\ grants \subseteq GrantRow
    BY <2>1, <2>2, FS_Singleton
  <2> QED BY <2>4, <2>6, <2>7, <2>8 DEF BillingInit, BillingInv, PaymentIsServed,
         EntitlementIsPaid, SaleIsServed
<1> QED BY <1>1, <1>2 DEF BillingInit

\* A sale that is put on record shortens nothing.
LEMMA SaleStep == BillingInv /\ [BillingNext]_billingVars => [NoSaleShortens]_billingVars
<1> SUFFICES ASSUME BillingInv, [BillingNext]_billingVars, NEW o \in sales', o \notin sales
             PROVE  pro_expires_at' >= pro_expires_at /\ pro_expires_at' >= PaidUntil(o.paid_at)
  BY DEF NoSaleShortens
<1>1. PICK s \in DOMAIN payments, n \in DOMAIN payments, c \in Contracts \cup {NoContract} : Sale(s, n, c)
  BY DEF BillingNext, NextMonth, Bill, Revise, ActivateUnpaid, Activate, CheckCompensation, Compensate,
     billingVars
<1>2. pro_expires_at' = Later(pro_expires_at, PaidUntil(n)) /\ o.paid_at = n
  <2> DEFINE sale == [sale |-> s, paid_at |-> n, plan |-> plan[payments[s].contract]]
  <2>1. /\ pro_expires_at' = Later(pro_expires_at, PaidUntil(n))
        /\ sales' = sales \cup {sale}
    BY <1>1 DEF Sale
  <2>2. o = sale
    BY <2>1
  <2> QED BY <2>1, <2>2
<1>3. pro_expires_at \in Int /\ PaidUntil(n) \in Int
  BY PaymentTypes, BillingAssumption DEF BillingInv, BillingTypeOK, PaidUntil, Payment
<1> QED BY <1>2, <1>3 DEF Later

\* However often and in whatever order activation and webhook see a payment, it
\* has one row and its credits are in the balance once; Pro ends with a payment
\* that has its credits, a recorded sale has brought both, and none shortens
\* Pro (backend_utils.py:235-284, webhooks.py:132-208).
THEOREM PaymentGivesOnce == BillingSpec => PaymentGivesItsDue
<1>1. BillingInv' => PaymentIsServed'
  BY DEF BillingInv
<1>2. BillingInv /\ BillingInv' /\ [BillingNext]_billingVars => [PaymentIsServed' /\ NoSaleShortens]_billingVars
  BY <1>1, SaleStep
<1> QED BY <1>2, BillingInvInit, BillingInvStep, PTL DEF BillingSpec, PaymentGivesItsDue
=============================================================================
