------------------------ MODULE CreatorPayoutsProofs ------------------------
(***************************************************************************)
(* For every set of withdrawals, of workers and of amounts: a withdrawal   *)
(* is sent to PayPal once, and its status tells what became of the money.  *)
(*                                                                         *)
(* The argument has three parts.  PayPal forgets a submission only when    *)
(* none can be repeated any more (ForgetInv), so there is at most one      *)
(* (SentInv).  At most one attempt is the last, and the first attempt, as  *)
(* long as it is the last, is the only one (CallInv): a refusal it brings  *)
(* means that nothing was sent.  Reports of a final state stay true while  *)
(* they travel (AnswerInv).  So an answer never makes spent what had been   *)
(* released, and what is spent grows by a request only (SpentStep).        *)
(*                                                                         *)
(* The refinement: of all steps only a request, the creation of a batch,   *)
(* a move at PayPal and a new status move money, one withdrawal's each;    *)
(* the rest is quiet.  What the two counts add up to is the same.          *)
(***************************************************************************)
EXTENDS CreatorPayouts, SumTheorems, TLAPS

\* Before its first attempt nothing of a withdrawal is outside the database.
UntouchedInv ==
    /\ \A p \in Payouts : window[p] = "none" <=> attempt_count[p] = 0
    /\ \A p \in Payouts : window[p] = "none" => paypal[p] = "none" /\ ~batch_known[p]
    /\ \A c \in calls : window[c.payout] # "none"
    /\ \A p \in Payouts : status[p] \in {"absent", "pending_review", "rejected"} => window[p] = "none"
    /\ \A p \in Payouts : status[p] = "paid" => batch_known[p]

\* PayPal forgets a submission when nobody can repeat it.
ForgetInv ==
    \A p \in Payouts : ~remembered[p] =>
        /\ window[p] = "closed"
        /\ \A c \in calls : c.payout = p /\ c.answer = "waiting" => c.known

SentInv == \A p \in Payouts : submissions[p] = IF paypal[p] = "none" THEN 0 ELSE 1

\* At most one attempt is the last; if it is also the first it is the only one.
CallInv ==
    \A c \in calls :
        /\ status[c.payout] \in Released => ~c.last /\ paypal[c.payout] # "none"
        /\ c.last => \A d \in calls : d.payout = c.payout /\ (d.last \/ c.first) => d = c
        /\ c.last /\ c.first /\ c.answer \in {"waiting", "rejected"} => paypal[c.payout] = "none"

\* A report of success or of a final state is still true when it arrives.
AnswerInv ==
    \A c \in calls :
        /\ c.answer = "SUCCESS" => paypal[c.payout] \in {"SUCCESS", "RETURNED"}
        /\ c.answer \in {"FAILED", "RETURNED", "DENIED"} => paypal[c.payout] = c.answer

PayoutInv ==
    /\ PayoutTypeOK
    /\ UntouchedInv
    /\ ForgetInv
    /\ SentInv
    /\ CallInv
    /\ AnswerInv
    /\ ReleasedIsNotPaid
    /\ PaidWasSent

\* The type invariant is inductive.
LEMMA PayoutTypeStep ==
  ASSUME PayoutTypeOK, [Next]_vars
  PROVE  PayoutTypeOK'
<1> USE WorkerAssumption, AmountAssumption DEF PayoutTypeOK, Call, Held, Reconcile, Released,
    ItemStates, Submitted, Answers, NoMoney, rowVars, payPalVars
<1>1. ASSUME NEW cents \in 0..MaxEarnings, EarningsChange(cents)
      PROVE  PayoutTypeOK'
  BY <1>1 DEF EarningsChange
<1>2. ASSUME NEW p \in Payouts, Request(p)
      PROVE  PayoutTypeOK'
  BY <1>2 DEF Request
<1>3. ASSUME NEW p \in Payouts, Approve(p)
      PROVE  PayoutTypeOK'
  BY <1>3 DEF Approve
<1>4. ASSUME NEW p \in Payouts, Reject(p)
      PROVE  PayoutTypeOK'
  BY <1>4 DEF Reject
<1>5. ASSUME JobReads
      PROVE  PayoutTypeOK'
  BY <1>5 DEF JobReads
<1>6. ASSUME NEW p \in Payouts, JobSkips(p)
      PROVE  PayoutTypeOK'
  BY <1>6 DEF JobSkips
<1>7. ASSUME NEW w \in Workers, NEW p \in Payouts, GiveUp(w, p)
      PROVE  PayoutTypeOK'
  BY <1>7 DEF GiveUp, Wanted, MayProcess, TooLate
<1>8. ASSUME NEW w \in Workers, NEW p \in Payouts, BalanceChanged(w, p)
      PROVE  PayoutTypeOK'
  BY <1>8 DEF BalanceChanged, Wanted, MayProcess
<1>9. ASSUME NEW w \in Workers, NEW p \in Payouts, Begin(w, p)
      PROVE  PayoutTypeOK'
  <2>1. calls' \subseteq Call
    <3> DEFINE new == [worker |-> w, payout |-> p, first |-> attempt_count[p] = 0,
                       known |-> batch_known[p], last |-> TRUE, answer |-> "waiting"]
    <3>1. new \in Call
      OBVIOUS
    <3>2. \A c \in Call : [c EXCEPT !.last = c.last /\ c.payout # p] \in Call
      OBVIOUS
    <3>3. calls' = {[c EXCEPT !.last = c.last /\ c.payout # p] : c \in calls} \cup {new}
      BY <1>9 DEF Begin
    <3> HIDE DEF new
    <3>4. {[c EXCEPT !.last = c.last /\ c.payout # p] : c \in calls} \subseteq Call
      <4> SUFFICES ASSUME NEW c \in calls
                   PROVE  [c EXCEPT !.last = c.last /\ c.payout # p] \in Call
        OBVIOUS
      <4>1. c \in Call
        OBVIOUS
      <4> QED BY <3>2, <4>1
    <3> QED BY <3>1, <3>3, <3>4
  <2>2. attempt_count' \in [Payouts -> 0..2] /\ window' \in [Payouts -> {"none", "open", "closed"}]
    BY <1>9 DEF Begin
  <2>3. lease' \in [Payouts -> {"none", "running", "over"}] /\ picked' \subseteq Payouts
    BY <1>9 DEF Begin, Wanted
  <2> QED BY <1>9, <2>1, <2>2, <2>3 DEF Begin
<1>10. ASSUME NEW c \in calls, Finish(c)
      PROVE  PayoutTypeOK'
  <2>1. c \in Call
    BY <1>10 DEF Finish
  <2>2. Outcome(c) \in {"absent", "paid"} \cup Held \cup Released
    BY <2>1 DEF Outcome, Meaning
  <2>3. status' \in [Payouts -> {"absent", "paid"} \cup Held \cup Released]
    BY <1>10, <2>1, <2>2 DEF Finish
  <2>4. UNCHANGED <<eligible, attempt_count, window, picked, payPalVars>> /\ calls' \subseteq calls
    BY <1>10 DEF Finish
  <2>5. /\ batch_known' \in [Payouts -> BOOLEAN]
        /\ lease' \in [Payouts -> {"none", "running", "over"}]
        /\ due' \in [Payouts -> BOOLEAN]
    BY <1>10, <2>1 DEF Finish
  <2> QED BY <2>3, <2>4, <2>5
<1>11. ASSUME NEW c \in calls, Vanish(c)
      PROVE  PayoutTypeOK'
  BY <1>11 DEF Vanish
<1>12. ASSUME NEW c \in calls, NEW answer \in Answers, PayPalCreates(c, answer)
      PROVE  PayoutTypeOK'
  BY <1>12 DEF PayPalCreates, Answered
<1>13. ASSUME NEW c \in calls, NEW answer \in Answers, PayPalRefuses(c, answer)
      PROVE  PayoutTypeOK'
  BY <1>13 DEF PayPalRefuses, Answered
<1>14. ASSUME NEW c \in calls, NEW answer \in Answers, PayPalReports(c, answer)
      PROVE  PayoutTypeOK'
  BY <1>14 DEF PayPalReports, Answered
<1>15. ASSUME NEW p \in Payouts, NEW to \in Submitted, PayPalMoves(p, to)
      PROVE  PayoutTypeOK'
  BY <1>15 DEF PayPalMoves
<1>16. ASSUME NEW p \in Payouts, LeaseEnds(p)
      PROVE  PayoutTypeOK'
  BY <1>16 DEF LeaseEnds
<1>17. ASSUME NEW p \in Payouts, CheckIsDue(p)
      PROVE  PayoutTypeOK'
  BY <1>17 DEF CheckIsDue
<1>18. ASSUME NEW p \in Payouts, WindowCloses(p)
      PROVE  PayoutTypeOK'
  BY <1>18 DEF WindowCloses
<1>19. ASSUME NEW p \in Payouts, PayPalForgets(p)
      PROVE  PayoutTypeOK'
  BY <1>19 DEF PayPalForgets
<1>20. CASE UNCHANGED vars
  BY <1>20 DEF vars
<1> HIDE DEF PayoutTypeOK, Call, Held, Reconcile, Released, ItemStates, Submitted, Answers,
    NoMoney, rowVars, payPalVars
<1> QED
  BY <1>1, <1>2, <1>3, <1>4, <1>5, <1>6, <1>7, <1>8, <1>9, <1>10, <1>11, <1>12, <1>13, <1>14,
      <1>15, <1>16, <1>17, <1>18, <1>19, <1>20
     DEF Next, CreatorStep, ProcessStep, PayPalStep, TimeStep

\* An attempt starts the window, and nothing PayPal knows of precedes it.
LEMMA UntouchedStep ==
  ASSUME PayoutInv, PayoutTypeOK', [Next]_vars
  PROVE  UntouchedInv'
<1> USE WorkerAssumption, AmountAssumption DEF PayoutInv, UntouchedInv, CallInv, AnswerInv,
    PaidWasSent, PayoutTypeOK, Call, Held, Reconcile, Released, ItemStates, Submitted, Answers,
    NoMoney, rowVars, payPalVars
<1>1. ASSUME NEW cents \in 0..MaxEarnings, EarningsChange(cents)
      PROVE  UntouchedInv'
  BY <1>1 DEF EarningsChange
<1>2. ASSUME NEW p \in Payouts, Request(p)
      PROVE  UntouchedInv'
  BY <1>2 DEF Request
<1>3. ASSUME NEW p \in Payouts, Approve(p)
      PROVE  UntouchedInv'
  BY <1>3 DEF Approve
<1>4. ASSUME NEW p \in Payouts, Reject(p)
      PROVE  UntouchedInv'
  BY <1>4 DEF Reject
<1>5. ASSUME JobReads
      PROVE  UntouchedInv'
  BY <1>5 DEF JobReads
<1>6. ASSUME NEW p \in Payouts, JobSkips(p)
      PROVE  UntouchedInv'
  BY <1>6 DEF JobSkips
<1>7. ASSUME NEW w \in Workers, NEW p \in Payouts, GiveUp(w, p)
      PROVE  UntouchedInv'
  BY <1>7 DEF GiveUp, Wanted, MayProcess, TooLate
<1>8. ASSUME NEW w \in Workers, NEW p \in Payouts, BalanceChanged(w, p)
      PROVE  UntouchedInv'
  BY <1>8 DEF BalanceChanged, Wanted, MayProcess
<1>9. ASSUME NEW w \in Workers, NEW p \in Payouts, Begin(w, p)
      PROVE  UntouchedInv'
  BY <1>9 DEF Begin, Wanted, MayProcess, TooLate
<1>10. ASSUME NEW c \in calls, Finish(c)
      PROVE  UntouchedInv'
  BY <1>10 DEF Finish, Outcome, StillLast, RefusedForGood, Meaning, Reopens
<1>11. ASSUME NEW c \in calls, Vanish(c)
      PROVE  UntouchedInv'
  BY <1>11 DEF Vanish
<1>12. ASSUME NEW c \in calls, NEW answer \in Answers, PayPalCreates(c, answer)
      PROVE  UntouchedInv'
  BY <1>12 DEF PayPalCreates, Answered
<1>13. ASSUME NEW c \in calls, NEW answer \in Answers, PayPalRefuses(c, answer)
      PROVE  UntouchedInv'
  BY <1>13 DEF PayPalRefuses, Answered
<1>14. ASSUME NEW c \in calls, NEW answer \in Answers, PayPalReports(c, answer)
      PROVE  UntouchedInv'
  BY <1>14 DEF PayPalReports, Answered
<1>15. ASSUME NEW p \in Payouts, NEW to \in Submitted, PayPalMoves(p, to)
      PROVE  UntouchedInv'
  BY <1>15 DEF PayPalMoves
<1>16. ASSUME NEW p \in Payouts, LeaseEnds(p)
      PROVE  UntouchedInv'
  BY <1>16 DEF LeaseEnds
<1>17. ASSUME NEW p \in Payouts, CheckIsDue(p)
      PROVE  UntouchedInv'
  BY <1>17 DEF CheckIsDue
<1>18. ASSUME NEW p \in Payouts, WindowCloses(p)
      PROVE  UntouchedInv'
  BY <1>18 DEF WindowCloses
<1>19. ASSUME NEW p \in Payouts, PayPalForgets(p)
      PROVE  UntouchedInv'
  BY <1>19 DEF PayPalForgets
<1>20. CASE UNCHANGED vars
  BY <1>20 DEF vars
<1> HIDE DEF PayoutInv, UntouchedInv, CallInv, AnswerInv, PaidWasSent, PayoutTypeOK, Call, Held,
    Reconcile, Released, ItemStates, Submitted, Answers, NoMoney, rowVars, payPalVars
<1> QED
  BY <1>1, <1>2, <1>3, <1>4, <1>5, <1>6, <1>7, <1>8, <1>9, <1>10, <1>11, <1>12, <1>13, <1>14,
      <1>15, <1>16, <1>17, <1>18, <1>19, <1>20
     DEF Next, CreatorStep, ProcessStep, PayPalStep, TimeStep

\* What PayPal forgets is not submitted again.
LEMMA ForgetStep ==
  ASSUME PayoutInv, PayoutTypeOK', [Next]_vars
  PROVE  ForgetInv'
<1> USE WorkerAssumption, AmountAssumption DEF PayoutInv, ForgetInv, UntouchedInv, PayoutTypeOK,
    Call, Held, Reconcile, Released, ItemStates, Submitted, Answers, NoMoney, rowVars,
    payPalVars
<1>1. ASSUME NEW cents \in 0..MaxEarnings, EarningsChange(cents)
      PROVE  ForgetInv'
  BY <1>1 DEF EarningsChange
<1>2. ASSUME NEW p \in Payouts, Request(p)
      PROVE  ForgetInv'
  BY <1>2 DEF Request
<1>3. ASSUME NEW p \in Payouts, Approve(p)
      PROVE  ForgetInv'
  BY <1>3 DEF Approve
<1>4. ASSUME NEW p \in Payouts, Reject(p)
      PROVE  ForgetInv'
  BY <1>4 DEF Reject
<1>5. ASSUME JobReads
      PROVE  ForgetInv'
  BY <1>5 DEF JobReads
<1>6. ASSUME NEW p \in Payouts, JobSkips(p)
      PROVE  ForgetInv'
  BY <1>6 DEF JobSkips
<1>7. ASSUME NEW w \in Workers, NEW p \in Payouts, GiveUp(w, p)
      PROVE  ForgetInv'
  BY <1>7 DEF GiveUp, Wanted, MayProcess, TooLate
<1>8. ASSUME NEW w \in Workers, NEW p \in Payouts, BalanceChanged(w, p)
      PROVE  ForgetInv'
  BY <1>8 DEF BalanceChanged, Wanted, MayProcess
<1>9. ASSUME NEW w \in Workers, NEW p \in Payouts, Begin(w, p)
      PROVE  ForgetInv'
  BY <1>9 DEF Begin, Wanted, MayProcess, TooLate
<1>10. ASSUME NEW c \in calls, Finish(c)
      PROVE  ForgetInv'
  BY <1>10 DEF Finish, Outcome, StillLast, RefusedForGood, Meaning, Reopens
<1>11. ASSUME NEW c \in calls, Vanish(c)
      PROVE  ForgetInv'
  BY <1>11 DEF Vanish
<1>12. ASSUME NEW c \in calls, NEW answer \in Answers, PayPalCreates(c, answer)
      PROVE  ForgetInv'
  BY <1>12 DEF PayPalCreates, Answered
<1>13. ASSUME NEW c \in calls, NEW answer \in Answers, PayPalRefuses(c, answer)
      PROVE  ForgetInv'
  BY <1>13 DEF PayPalRefuses, Answered
<1>14. ASSUME NEW c \in calls, NEW answer \in Answers, PayPalReports(c, answer)
      PROVE  ForgetInv'
  BY <1>14 DEF PayPalReports, Answered
<1>15. ASSUME NEW p \in Payouts, NEW to \in Submitted, PayPalMoves(p, to)
      PROVE  ForgetInv'
  BY <1>15 DEF PayPalMoves
<1>16. ASSUME NEW p \in Payouts, LeaseEnds(p)
      PROVE  ForgetInv'
  BY <1>16 DEF LeaseEnds
<1>17. ASSUME NEW p \in Payouts, CheckIsDue(p)
      PROVE  ForgetInv'
  BY <1>17 DEF CheckIsDue
<1>18. ASSUME NEW p \in Payouts, WindowCloses(p)
      PROVE  ForgetInv'
  BY <1>18 DEF WindowCloses
<1>19. ASSUME NEW p \in Payouts, PayPalForgets(p)
      PROVE  ForgetInv'
  BY <1>19 DEF PayPalForgets
<1>20. CASE UNCHANGED vars
  BY <1>20 DEF vars
<1> HIDE DEF PayoutInv, ForgetInv, UntouchedInv, PayoutTypeOK, Call, Held, Reconcile, Released,
    ItemStates, Submitted, Answers, NoMoney, rowVars, payPalVars
<1> QED
  BY <1>1, <1>2, <1>3, <1>4, <1>5, <1>6, <1>7, <1>8, <1>9, <1>10, <1>11, <1>12, <1>13, <1>14,
      <1>15, <1>16, <1>17, <1>18, <1>19, <1>20
     DEF Next, CreatorStep, ProcessStep, PayPalStep, TimeStep

\* PayPal creates a batch only for a withdrawal that has none.
LEMMA SentStep ==
  ASSUME PayoutInv, PayoutTypeOK', [Next]_vars
  PROVE  SentInv'
<1> USE WorkerAssumption, AmountAssumption DEF PayoutInv, ForgetInv, SentInv, PayoutTypeOK,
    Call, Held, Reconcile, Released, ItemStates, Submitted, Answers, NoMoney, rowVars,
    payPalVars
<1>1. ASSUME NEW cents \in 0..MaxEarnings, EarningsChange(cents)
      PROVE  SentInv'
  BY <1>1 DEF EarningsChange
<1>2. ASSUME NEW p \in Payouts, Request(p)
      PROVE  SentInv'
  BY <1>2 DEF Request
<1>3. ASSUME NEW p \in Payouts, Approve(p)
      PROVE  SentInv'
  BY <1>3 DEF Approve
<1>4. ASSUME NEW p \in Payouts, Reject(p)
      PROVE  SentInv'
  BY <1>4 DEF Reject
<1>5. ASSUME JobReads
      PROVE  SentInv'
  BY <1>5 DEF JobReads
<1>6. ASSUME NEW p \in Payouts, JobSkips(p)
      PROVE  SentInv'
  BY <1>6 DEF JobSkips
<1>7. ASSUME NEW w \in Workers, NEW p \in Payouts, GiveUp(w, p)
      PROVE  SentInv'
  BY <1>7 DEF GiveUp, Wanted, MayProcess, TooLate
<1>8. ASSUME NEW w \in Workers, NEW p \in Payouts, BalanceChanged(w, p)
      PROVE  SentInv'
  BY <1>8 DEF BalanceChanged, Wanted, MayProcess
<1>9. ASSUME NEW w \in Workers, NEW p \in Payouts, Begin(w, p)
      PROVE  SentInv'
  BY <1>9 DEF Begin, Wanted, MayProcess, TooLate
<1>10. ASSUME NEW c \in calls, Finish(c)
      PROVE  SentInv'
  BY <1>10 DEF Finish, Outcome, StillLast, RefusedForGood, Meaning, Reopens
<1>11. ASSUME NEW c \in calls, Vanish(c)
      PROVE  SentInv'
  BY <1>11 DEF Vanish
<1>12. ASSUME NEW c \in calls, NEW answer \in Answers, PayPalCreates(c, answer)
      PROVE  SentInv'
  BY <1>12 DEF PayPalCreates, Answered
<1>13. ASSUME NEW c \in calls, NEW answer \in Answers, PayPalRefuses(c, answer)
      PROVE  SentInv'
  BY <1>13 DEF PayPalRefuses, Answered
<1>14. ASSUME NEW c \in calls, NEW answer \in Answers, PayPalReports(c, answer)
      PROVE  SentInv'
  BY <1>14 DEF PayPalReports, Answered
<1>15. ASSUME NEW p \in Payouts, NEW to \in Submitted, PayPalMoves(p, to)
      PROVE  SentInv'
  BY <1>15 DEF PayPalMoves
<1>16. ASSUME NEW p \in Payouts, LeaseEnds(p)
      PROVE  SentInv'
  BY <1>16 DEF LeaseEnds
<1>17. ASSUME NEW p \in Payouts, CheckIsDue(p)
      PROVE  SentInv'
  BY <1>17 DEF CheckIsDue
<1>18. ASSUME NEW p \in Payouts, WindowCloses(p)
      PROVE  SentInv'
  BY <1>18 DEF WindowCloses
<1>19. ASSUME NEW p \in Payouts, PayPalForgets(p)
      PROVE  SentInv'
  BY <1>19 DEF PayPalForgets
<1>20. CASE UNCHANGED vars
  BY <1>20 DEF vars
<1> HIDE DEF PayoutInv, ForgetInv, SentInv, PayoutTypeOK, Call, Held, Reconcile, Released,
    ItemStates, Submitted, Answers, NoMoney, rowVars, payPalVars
<1> QED
  BY <1>1, <1>2, <1>3, <1>4, <1>5, <1>6, <1>7, <1>8, <1>9, <1>10, <1>11, <1>12, <1>13, <1>14,
      <1>15, <1>16, <1>17, <1>18, <1>19, <1>20
     DEF Next, CreatorStep, ProcessStep, PayPalStep, TimeStep

\* A new attempt is the last one; the first is alone until then.
LEMMA CallStep ==
  ASSUME PayoutInv, PayoutTypeOK', [Next]_vars
  PROVE  CallInv'
<1> USE WorkerAssumption, AmountAssumption DEF PayoutInv, ForgetInv, UntouchedInv, CallInv,
    AnswerInv, PayoutTypeOK, Call, Held, Reconcile, Released, ItemStates, Submitted, Answers,
    NoMoney, rowVars, payPalVars
<1>1. ASSUME NEW cents \in 0..MaxEarnings, EarningsChange(cents)
      PROVE  CallInv'
  BY <1>1 DEF EarningsChange
<1>2. ASSUME NEW p \in Payouts, Request(p)
      PROVE  CallInv'
  BY <1>2 DEF Request
<1>3. ASSUME NEW p \in Payouts, Approve(p)
      PROVE  CallInv'
  BY <1>3 DEF Approve
<1>4. ASSUME NEW p \in Payouts, Reject(p)
      PROVE  CallInv'
  BY <1>4 DEF Reject
<1>5. ASSUME JobReads
      PROVE  CallInv'
  BY <1>5 DEF JobReads
<1>6. ASSUME NEW p \in Payouts, JobSkips(p)
      PROVE  CallInv'
  BY <1>6 DEF JobSkips
<1>7. ASSUME NEW w \in Workers, NEW p \in Payouts, GiveUp(w, p)
      PROVE  CallInv'
  BY <1>7 DEF GiveUp, Wanted, MayProcess, TooLate
<1>8. ASSUME NEW w \in Workers, NEW p \in Payouts, BalanceChanged(w, p)
      PROVE  CallInv'
  BY <1>8 DEF BalanceChanged, Wanted, MayProcess
<1>9. ASSUME NEW w \in Workers, NEW p \in Payouts, Begin(w, p)
      PROVE  CallInv'
  BY <1>9 DEF Begin, Wanted, MayProcess, TooLate
<1>10. ASSUME NEW c \in calls, Finish(c)
      PROVE  CallInv'
  BY <1>10 DEF Finish, Outcome, StillLast, RefusedForGood, Meaning, Reopens
<1>11. ASSUME NEW c \in calls, Vanish(c)
      PROVE  CallInv'
  BY <1>11 DEF Vanish
<1>12. ASSUME NEW c \in calls, NEW answer \in Answers, PayPalCreates(c, answer)
      PROVE  CallInv'
  BY <1>12 DEF PayPalCreates, Answered
<1>13. ASSUME NEW c \in calls, NEW answer \in Answers, PayPalRefuses(c, answer)
      PROVE  CallInv'
  BY <1>13 DEF PayPalRefuses, Answered
<1>14. ASSUME NEW c \in calls, NEW answer \in Answers, PayPalReports(c, answer)
      PROVE  CallInv'
  BY <1>14 DEF PayPalReports, Answered
<1>15. ASSUME NEW p \in Payouts, NEW to \in Submitted, PayPalMoves(p, to)
      PROVE  CallInv'
  BY <1>15 DEF PayPalMoves
<1>16. ASSUME NEW p \in Payouts, LeaseEnds(p)
      PROVE  CallInv'
  BY <1>16 DEF LeaseEnds
<1>17. ASSUME NEW p \in Payouts, CheckIsDue(p)
      PROVE  CallInv'
  BY <1>17 DEF CheckIsDue
<1>18. ASSUME NEW p \in Payouts, WindowCloses(p)
      PROVE  CallInv'
  BY <1>18 DEF WindowCloses
<1>19. ASSUME NEW p \in Payouts, PayPalForgets(p)
      PROVE  CallInv'
  BY <1>19 DEF PayPalForgets
<1>20. CASE UNCHANGED vars
  BY <1>20 DEF vars
<1> HIDE DEF PayoutInv, ForgetInv, UntouchedInv, CallInv, AnswerInv, PayoutTypeOK, Call, Held,
    Reconcile, Released, ItemStates, Submitted, Answers, NoMoney, rowVars, payPalVars
<1> QED
  BY <1>1, <1>2, <1>3, <1>4, <1>5, <1>6, <1>7, <1>8, <1>9, <1>10, <1>11, <1>12, <1>13, <1>14,
      <1>15, <1>16, <1>17, <1>18, <1>19, <1>20
     DEF Next, CreatorStep, ProcessStep, PayPalStep, TimeStep

\* PayPal reports what is so, and a final state stays so.
LEMMA AnswerStep ==
  ASSUME PayoutInv, PayoutTypeOK', [Next]_vars
  PROVE  AnswerInv'
<1> USE WorkerAssumption, AmountAssumption DEF PayoutInv, ForgetInv, AnswerInv, PayoutTypeOK,
    Call, Held, Reconcile, Released, ItemStates, Submitted, Answers, NoMoney, rowVars,
    payPalVars
<1>1. ASSUME NEW cents \in 0..MaxEarnings, EarningsChange(cents)
      PROVE  AnswerInv'
  BY <1>1 DEF EarningsChange
<1>2. ASSUME NEW p \in Payouts, Request(p)
      PROVE  AnswerInv'
  BY <1>2 DEF Request
<1>3. ASSUME NEW p \in Payouts, Approve(p)
      PROVE  AnswerInv'
  BY <1>3 DEF Approve
<1>4. ASSUME NEW p \in Payouts, Reject(p)
      PROVE  AnswerInv'
  BY <1>4 DEF Reject
<1>5. ASSUME JobReads
      PROVE  AnswerInv'
  BY <1>5 DEF JobReads
<1>6. ASSUME NEW p \in Payouts, JobSkips(p)
      PROVE  AnswerInv'
  BY <1>6 DEF JobSkips
<1>7. ASSUME NEW w \in Workers, NEW p \in Payouts, GiveUp(w, p)
      PROVE  AnswerInv'
  BY <1>7 DEF GiveUp, Wanted, MayProcess, TooLate
<1>8. ASSUME NEW w \in Workers, NEW p \in Payouts, BalanceChanged(w, p)
      PROVE  AnswerInv'
  BY <1>8 DEF BalanceChanged, Wanted, MayProcess
<1>9. ASSUME NEW w \in Workers, NEW p \in Payouts, Begin(w, p)
      PROVE  AnswerInv'
  BY <1>9 DEF Begin, Wanted, MayProcess, TooLate
<1>10. ASSUME NEW c \in calls, Finish(c)
      PROVE  AnswerInv'
  BY <1>10 DEF Finish, Outcome, StillLast, RefusedForGood, Meaning, Reopens
<1>11. ASSUME NEW c \in calls, Vanish(c)
      PROVE  AnswerInv'
  BY <1>11 DEF Vanish
<1>12. ASSUME NEW c \in calls, NEW answer \in Answers, PayPalCreates(c, answer)
      PROVE  AnswerInv'
  BY <1>12 DEF PayPalCreates, Answered
<1>13. ASSUME NEW c \in calls, NEW answer \in Answers, PayPalRefuses(c, answer)
      PROVE  AnswerInv'
  BY <1>13 DEF PayPalRefuses, Answered
<1>14. ASSUME NEW c \in calls, NEW answer \in Answers, PayPalReports(c, answer)
      PROVE  AnswerInv'
  BY <1>14 DEF PayPalReports, Answered
<1>15. ASSUME NEW p \in Payouts, NEW to \in Submitted, PayPalMoves(p, to)
      PROVE  AnswerInv'
  BY <1>15 DEF PayPalMoves
<1>16. ASSUME NEW p \in Payouts, LeaseEnds(p)
      PROVE  AnswerInv'
  BY <1>16 DEF LeaseEnds
<1>17. ASSUME NEW p \in Payouts, CheckIsDue(p)
      PROVE  AnswerInv'
  BY <1>17 DEF CheckIsDue
<1>18. ASSUME NEW p \in Payouts, WindowCloses(p)
      PROVE  AnswerInv'
  BY <1>18 DEF WindowCloses
<1>19. ASSUME NEW p \in Payouts, PayPalForgets(p)
      PROVE  AnswerInv'
  BY <1>19 DEF PayPalForgets
<1>20. CASE UNCHANGED vars
  BY <1>20 DEF vars
<1> HIDE DEF PayoutInv, ForgetInv, AnswerInv, PayoutTypeOK, Call, Held, Reconcile, Released,
    ItemStates, Submitted, Answers, NoMoney, rowVars, payPalVars
<1> QED
  BY <1>1, <1>2, <1>3, <1>4, <1>5, <1>6, <1>7, <1>8, <1>9, <1>10, <1>11, <1>12, <1>13, <1>14,
      <1>15, <1>16, <1>17, <1>18, <1>19, <1>20
     DEF Next, CreatorStep, ProcessStep, PayPalStep, TimeStep

\* Money is released by a report of PayPal's, a refusal of the only attempt, or before any.
LEMMA ReleasedStep ==
  ASSUME PayoutInv, PayoutTypeOK', [Next]_vars
  PROVE  ReleasedIsNotPaid'
<1> USE WorkerAssumption, AmountAssumption DEF PayoutInv, ForgetInv, UntouchedInv, CallInv,
    AnswerInv, ReleasedIsNotPaid, PaidWasSent, PayoutTypeOK, Call, Held, Reconcile, Released,
    ItemStates, Submitted, Answers, NoMoney, rowVars, payPalVars
<1>1. ASSUME NEW cents \in 0..MaxEarnings, EarningsChange(cents)
      PROVE  ReleasedIsNotPaid'
  BY <1>1 DEF EarningsChange
<1>2. ASSUME NEW p \in Payouts, Request(p)
      PROVE  ReleasedIsNotPaid'
  BY <1>2 DEF Request
<1>3. ASSUME NEW p \in Payouts, Approve(p)
      PROVE  ReleasedIsNotPaid'
  BY <1>3 DEF Approve
<1>4. ASSUME NEW p \in Payouts, Reject(p)
      PROVE  ReleasedIsNotPaid'
  BY <1>4 DEF Reject
<1>5. ASSUME JobReads
      PROVE  ReleasedIsNotPaid'
  BY <1>5 DEF JobReads
<1>6. ASSUME NEW p \in Payouts, JobSkips(p)
      PROVE  ReleasedIsNotPaid'
  BY <1>6 DEF JobSkips
<1>7. ASSUME NEW w \in Workers, NEW p \in Payouts, GiveUp(w, p)
      PROVE  ReleasedIsNotPaid'
  BY <1>7 DEF GiveUp, Wanted, MayProcess, TooLate
<1>8. ASSUME NEW w \in Workers, NEW p \in Payouts, BalanceChanged(w, p)
      PROVE  ReleasedIsNotPaid'
  BY <1>8 DEF BalanceChanged, Wanted, MayProcess
<1>9. ASSUME NEW w \in Workers, NEW p \in Payouts, Begin(w, p)
      PROVE  ReleasedIsNotPaid'
  BY <1>9 DEF Begin, Wanted, MayProcess, TooLate
<1>10. ASSUME NEW c \in calls, Finish(c)
      PROVE  ReleasedIsNotPaid'
  BY <1>10 DEF Finish, Outcome, StillLast, RefusedForGood, Meaning, Reopens
<1>11. ASSUME NEW c \in calls, Vanish(c)
      PROVE  ReleasedIsNotPaid'
  BY <1>11 DEF Vanish
<1>12. ASSUME NEW c \in calls, NEW answer \in Answers, PayPalCreates(c, answer)
      PROVE  ReleasedIsNotPaid'
  BY <1>12 DEF PayPalCreates, Answered
<1>13. ASSUME NEW c \in calls, NEW answer \in Answers, PayPalRefuses(c, answer)
      PROVE  ReleasedIsNotPaid'
  BY <1>13 DEF PayPalRefuses, Answered
<1>14. ASSUME NEW c \in calls, NEW answer \in Answers, PayPalReports(c, answer)
      PROVE  ReleasedIsNotPaid'
  BY <1>14 DEF PayPalReports, Answered
<1>15. ASSUME NEW p \in Payouts, NEW to \in Submitted, PayPalMoves(p, to)
      PROVE  ReleasedIsNotPaid'
  BY <1>15 DEF PayPalMoves
<1>16. ASSUME NEW p \in Payouts, LeaseEnds(p)
      PROVE  ReleasedIsNotPaid'
  BY <1>16 DEF LeaseEnds
<1>17. ASSUME NEW p \in Payouts, CheckIsDue(p)
      PROVE  ReleasedIsNotPaid'
  BY <1>17 DEF CheckIsDue
<1>18. ASSUME NEW p \in Payouts, WindowCloses(p)
      PROVE  ReleasedIsNotPaid'
  BY <1>18 DEF WindowCloses
<1>19. ASSUME NEW p \in Payouts, PayPalForgets(p)
      PROVE  ReleasedIsNotPaid'
  BY <1>19 DEF PayPalForgets
<1>20. CASE UNCHANGED vars
  BY <1>20 DEF vars
<1> HIDE DEF PayoutInv, ForgetInv, UntouchedInv, CallInv, AnswerInv, ReleasedIsNotPaid,
    PaidWasSent, PayoutTypeOK, Call, Held, Reconcile, Released, ItemStates, Submitted, Answers,
    NoMoney, rowVars, payPalVars
<1> QED
  BY <1>1, <1>2, <1>3, <1>4, <1>5, <1>6, <1>7, <1>8, <1>9, <1>10, <1>11, <1>12, <1>13, <1>14,
      <1>15, <1>16, <1>17, <1>18, <1>19, <1>20
     DEF Next, CreatorStep, ProcessStep, PayPalStep, TimeStep

\* Only a report of success makes a withdrawal paid.
LEMMA PaidStep ==
  ASSUME PayoutInv, PayoutTypeOK', [Next]_vars
  PROVE  PaidWasSent'
<1> USE WorkerAssumption, AmountAssumption DEF PayoutInv, ForgetInv, UntouchedInv, CallInv,
    AnswerInv, PaidWasSent, PayoutTypeOK, Call, Held, Reconcile, Released, ItemStates,
    Submitted, Answers, NoMoney, rowVars, payPalVars
<1>1. ASSUME NEW cents \in 0..MaxEarnings, EarningsChange(cents)
      PROVE  PaidWasSent'
  BY <1>1 DEF EarningsChange
<1>2. ASSUME NEW p \in Payouts, Request(p)
      PROVE  PaidWasSent'
  BY <1>2 DEF Request
<1>3. ASSUME NEW p \in Payouts, Approve(p)
      PROVE  PaidWasSent'
  BY <1>3 DEF Approve
<1>4. ASSUME NEW p \in Payouts, Reject(p)
      PROVE  PaidWasSent'
  BY <1>4 DEF Reject
<1>5. ASSUME JobReads
      PROVE  PaidWasSent'
  BY <1>5 DEF JobReads
<1>6. ASSUME NEW p \in Payouts, JobSkips(p)
      PROVE  PaidWasSent'
  BY <1>6 DEF JobSkips
<1>7. ASSUME NEW w \in Workers, NEW p \in Payouts, GiveUp(w, p)
      PROVE  PaidWasSent'
  BY <1>7 DEF GiveUp, Wanted, MayProcess, TooLate
<1>8. ASSUME NEW w \in Workers, NEW p \in Payouts, BalanceChanged(w, p)
      PROVE  PaidWasSent'
  BY <1>8 DEF BalanceChanged, Wanted, MayProcess
<1>9. ASSUME NEW w \in Workers, NEW p \in Payouts, Begin(w, p)
      PROVE  PaidWasSent'
  BY <1>9 DEF Begin, Wanted, MayProcess, TooLate
<1>10. ASSUME NEW c \in calls, Finish(c)
      PROVE  PaidWasSent'
  BY <1>10 DEF Finish, Outcome, StillLast, RefusedForGood, Meaning, Reopens
<1>11. ASSUME NEW c \in calls, Vanish(c)
      PROVE  PaidWasSent'
  BY <1>11 DEF Vanish
<1>12. ASSUME NEW c \in calls, NEW answer \in Answers, PayPalCreates(c, answer)
      PROVE  PaidWasSent'
  BY <1>12 DEF PayPalCreates, Answered
<1>13. ASSUME NEW c \in calls, NEW answer \in Answers, PayPalRefuses(c, answer)
      PROVE  PaidWasSent'
  BY <1>13 DEF PayPalRefuses, Answered
<1>14. ASSUME NEW c \in calls, NEW answer \in Answers, PayPalReports(c, answer)
      PROVE  PaidWasSent'
  BY <1>14 DEF PayPalReports, Answered
<1>15. ASSUME NEW p \in Payouts, NEW to \in Submitted, PayPalMoves(p, to)
      PROVE  PaidWasSent'
  BY <1>15 DEF PayPalMoves
<1>16. ASSUME NEW p \in Payouts, LeaseEnds(p)
      PROVE  PaidWasSent'
  BY <1>16 DEF LeaseEnds
<1>17. ASSUME NEW p \in Payouts, CheckIsDue(p)
      PROVE  PaidWasSent'
  BY <1>17 DEF CheckIsDue
<1>18. ASSUME NEW p \in Payouts, WindowCloses(p)
      PROVE  PaidWasSent'
  BY <1>18 DEF WindowCloses
<1>19. ASSUME NEW p \in Payouts, PayPalForgets(p)
      PROVE  PaidWasSent'
  BY <1>19 DEF PayPalForgets
<1>20. CASE UNCHANGED vars
  BY <1>20 DEF vars
<1> HIDE DEF PayoutInv, ForgetInv, UntouchedInv, CallInv, AnswerInv, PaidWasSent, PayoutTypeOK,
    Call, Held, Reconcile, Released, ItemStates, Submitted, Answers, NoMoney, rowVars,
    payPalVars
<1> QED
  BY <1>1, <1>2, <1>3, <1>4, <1>5, <1>6, <1>7, <1>8, <1>9, <1>10, <1>11, <1>12, <1>13, <1>14,
      <1>15, <1>16, <1>17, <1>18, <1>19, <1>20
     DEF Next, CreatorStep, ProcessStep, PayPalStep, TimeStep

\* The type invariant and the conjuncts above are inductive together.
LEMMA PayoutInvInit == Init => PayoutInv
  BY WorkerAssumption, AmountAssumption
     DEF Init, PayoutInv, UntouchedInv, ForgetInv, SentInv, CallInv, AnswerInv,
         ReleasedIsNotPaid, PaidWasSent, PayoutTypeOK, Call, Held, Reconcile, Released,
             ItemStates, Submitted, Answers, NoMoney, rowVars, payPalVars

LEMMA PayoutInvStep ==
  ASSUME PayoutInv, [Next]_vars
  PROVE  PayoutInv'
<1>1. PayoutTypeOK'
  BY PayoutTypeStep DEF PayoutInv
<1> QED
  BY <1>1, UntouchedStep, ForgetStep, SentStep, CallStep, AnswerStep, ReleasedStep,
     PaidStep DEF PayoutInv

THEOREM PayoutInvariant == Spec => []PayoutInv
<1>1. PayoutInv /\ [Next]_vars => PayoutInv'
  BY PayoutInvStep
<1> QED BY <1>1, PayoutInvInit, PTL DEF Spec

\* Every variable of the withdrawals keeps its type.
THEOREM PayoutTypeCorrect == Spec => []PayoutTypeOK
BY PayoutInvariant, PTL DEF PayoutInv

\* However workers, crashes, timeouts and lost answers interleave, PayPal creates
\* at most one batch for a withdrawal.
THEOREM SentOnce == Spec => []SentAtMostOnce
<1>1. PayoutInv => SentAtMostOnce
  BY DEF PayoutInv, SentInv, SentAtMostOnce
<1> QED BY <1>1, PayoutInvariant, PTL

\* An amount that is available again has not been, and is not being, paid out.
THEOREM ReleasedUnpaid == Spec => []ReleasedIsNotPaid
BY PayoutInvariant, PTL DEF PayoutInv

\* A withdrawal called paid was paid.
THEOREM PaidSent == Spec => []PaidWasSent
BY PayoutInvariant, PTL DEF PayoutInv

\* What is paid stays paid or comes back.
PaidKept ==
    \A p \in Payouts : status[p] = "paid" => status'[p] \in {"paid", "returned"}

\* No step takes back what is paid, except its return.
LEMMA PaidKeptStep ==
  ASSUME PayoutInv, [Next]_vars
  PROVE  PaidKept
<1> USE WorkerAssumption, AmountAssumption DEF PaidKept, PayoutInv, UntouchedInv, CallInv,
    AnswerInv, PaidWasSent, PayoutTypeOK, Call, Held, Reconcile, Released, ItemStates,
    Submitted, Answers, NoMoney, rowVars, payPalVars
<1>1. ASSUME NEW cents \in 0..MaxEarnings, EarningsChange(cents)
      PROVE  PaidKept
  BY <1>1 DEF EarningsChange
<1>2. ASSUME NEW p \in Payouts, Request(p)
      PROVE  PaidKept
  BY <1>2 DEF Request
<1>3. ASSUME NEW p \in Payouts, Approve(p)
      PROVE  PaidKept
  BY <1>3 DEF Approve
<1>4. ASSUME NEW p \in Payouts, Reject(p)
      PROVE  PaidKept
  BY <1>4 DEF Reject
<1>5. ASSUME JobReads
      PROVE  PaidKept
  BY <1>5 DEF JobReads
<1>6. ASSUME NEW p \in Payouts, JobSkips(p)
      PROVE  PaidKept
  BY <1>6 DEF JobSkips
<1>7. ASSUME NEW w \in Workers, NEW p \in Payouts, GiveUp(w, p)
      PROVE  PaidKept
  BY <1>7 DEF GiveUp, Wanted, MayProcess, TooLate
<1>8. ASSUME NEW w \in Workers, NEW p \in Payouts, BalanceChanged(w, p)
      PROVE  PaidKept
  BY <1>8 DEF BalanceChanged, Wanted, MayProcess
<1>9. ASSUME NEW w \in Workers, NEW p \in Payouts, Begin(w, p)
      PROVE  PaidKept
  BY <1>9 DEF Begin, Wanted, MayProcess, TooLate
<1>10. ASSUME NEW c \in calls, Finish(c)
      PROVE  PaidKept
  BY <1>10 DEF Finish, Outcome, StillLast, RefusedForGood, Meaning, Reopens
<1>11. ASSUME NEW c \in calls, Vanish(c)
      PROVE  PaidKept
  BY <1>11 DEF Vanish
<1>12. ASSUME NEW c \in calls, NEW answer \in Answers, PayPalCreates(c, answer)
      PROVE  PaidKept
  BY <1>12 DEF PayPalCreates, Answered
<1>13. ASSUME NEW c \in calls, NEW answer \in Answers, PayPalRefuses(c, answer)
      PROVE  PaidKept
  BY <1>13 DEF PayPalRefuses, Answered
<1>14. ASSUME NEW c \in calls, NEW answer \in Answers, PayPalReports(c, answer)
      PROVE  PaidKept
  BY <1>14 DEF PayPalReports, Answered
<1>15. ASSUME NEW p \in Payouts, NEW to \in Submitted, PayPalMoves(p, to)
      PROVE  PaidKept
  BY <1>15 DEF PayPalMoves
<1>16. ASSUME NEW p \in Payouts, LeaseEnds(p)
      PROVE  PaidKept
  BY <1>16 DEF LeaseEnds
<1>17. ASSUME NEW p \in Payouts, CheckIsDue(p)
      PROVE  PaidKept
  BY <1>17 DEF CheckIsDue
<1>18. ASSUME NEW p \in Payouts, WindowCloses(p)
      PROVE  PaidKept
  BY <1>18 DEF WindowCloses
<1>19. ASSUME NEW p \in Payouts, PayPalForgets(p)
      PROVE  PaidKept
  BY <1>19 DEF PayPalForgets
<1>20. CASE UNCHANGED vars
  BY <1>20 DEF vars
<1> HIDE DEF PaidKept, PayoutInv, UntouchedInv, CallInv, AnswerInv, PaidWasSent, PayoutTypeOK,
    Call, Held, Reconcile, Released, ItemStates, Submitted, Answers, NoMoney, rowVars,
    payPalVars
<1> QED
  BY <1>1, <1>2, <1>3, <1>4, <1>5, <1>6, <1>7, <1>8, <1>9, <1>10, <1>11, <1>12, <1>13, <1>14,
      <1>15, <1>16, <1>17, <1>18, <1>19, <1>20
     DEF Next, CreatorStep, ProcessStep, PayPalStep, TimeStep

\* A late or unfitting answer never reopens a paid withdrawal.
THEOREM PaidIsKept == Spec => PaidStaysPaid
<1>1. PayoutInv /\ [Next]_vars =>
        [\A p \in Payouts : status[p] = "paid" => status'[p] \in {"paid", "returned"}]_vars
  BY PaidKeptStep DEF PaidKept
<1> QED BY <1>1, PayoutInvariant, PTL DEF Spec, PaidStaysPaid

\* What withdrawal p takes of the commission.
Share(p) == IF CountsAsSpent(status[p]) THEN Amount[p] ELSE 0

\* Only a request makes an amount count as spent that did not: an answer that
\* arrives after the money was released is not the last attempt's.
LEMMA SpentStep ==
  ASSUME PayoutInv, [Next]_vars, \A p \in Payouts : ~Request(p)
  PROVE  \A p \in Payouts : CountsAsSpent(status'[p]) => CountsAsSpent(status[p])
<1> DEFINE Kept == \A p \in Payouts : CountsAsSpent(status'[p]) => CountsAsSpent(status[p])
<1> USE DEF PayoutInv, PayoutTypeOK, CountsAsSpent, Held
<1>1. ASSUME NEW p \in Payouts, Approve(p)
      PROVE  Kept
  BY <1>1 DEF Approve
<1>2. ASSUME NEW p \in Payouts, Reject(p)
      PROVE  Kept
  BY <1>2 DEF Reject
<1>3. ASSUME NEW w \in Workers, NEW p \in Payouts, GiveUp(w, p)
      PROVE  Kept
  BY <1>3 DEF GiveUp, Wanted, MayProcess, Reconcile
<1>4. ASSUME NEW w \in Workers, NEW p \in Payouts, BalanceChanged(w, p)
      PROVE  Kept
  BY <1>4 DEF BalanceChanged
<1>5. ASSUME NEW c \in calls, Finish(c)
      PROVE  Kept
  <2>1. c.payout \in Payouts /\ c \in Call
    BY DEF Call
  <2>2. c.last => status[c.payout] \notin Released \cup {"absent", "pending_review"}
    BY <2>1 DEF CallInv, UntouchedInv, Released
  <2>3. c.last => CountsAsSpent(status[c.payout])
    BY <2>1, <2>2 DEF Released
  <2> QED BY <1>5, <2>1, <2>3 DEF Finish, StillLast
<1>6. CASE UNCHANGED status
  BY <1>6
<1>7. \/ UNCHANGED status
      \/ \E p \in Payouts : Request(p) \/ Approve(p) \/ Reject(p)
      \/ \E w \in Workers, p \in Payouts : GiveUp(w, p) \/ BalanceChanged(w, p)
      \/ \E c \in calls : Finish(c)
  <2> USE DEF rowVars
  <2>1. CreatorStep => UNCHANGED status \/ \E p \in Payouts : Request(p) \/ Approve(p) \/ Reject(p)
    BY DEF CreatorStep, EarningsChange
  <2>2. ProcessStep => \/ UNCHANGED status
                       \/ \E w \in Workers, p \in Payouts : GiveUp(w, p) \/ BalanceChanged(w, p)
                       \/ \E c \in calls : Finish(c)
    BY DEF ProcessStep, JobReads, JobSkips, Begin, Vanish
  <2>3. PayPalStep => UNCHANGED status
    BY DEF PayPalStep, PayPalCreates, PayPalRefuses, PayPalReports, PayPalMoves
  <2>4. TimeStep => UNCHANGED status
    BY DEF TimeStep, LeaseEnds, CheckIsDue, WindowCloses, PayPalForgets
  <2> QED BY <2>1, <2>2, <2>3, <2>4 DEF Next, vars
<1> QED BY <1>1, <1>2, <1>3, <1>4, <1>5, <1>6, <1>7

\* The sum of the spent amounts, as the library's lemmas speak of it.
LEMMA SpentIsSum ==
  /\ Spent = SumFunctionOnSet([p \in Payouts |-> Share(p)], Payouts)
  /\ Spent' = SumFunctionOnSet([p \in Payouts |-> Share(p)'], Payouts)
  BY DEF Spent, Share, SumFunction

\* A step that adds to what is reserved or paid stays within the commission.
LEMMA SpendingStep ==
  ASSUME IsFiniteSet(Payouts), PayoutInv, [Next]_vars
  PROVE  Spent' > Spent => Spent' <= eligible'
<1> DEFINE f == [p \in Payouts |-> Share(p)]
           g == [p \in Payouts |-> Share(p)']
<1>1. PayoutTypeOK /\ PayoutTypeOK'
  BY PayoutTypeStep DEF PayoutInv
<1>2. \A p \in Payouts : f[p] = Share(p) /\ g[p] = Share(p)' /\ f[p] \in Nat /\ g[p] \in Nat
  BY AmountAssumption DEF Share
<1>3. Spent = SumFunctionOnSet(f, Payouts) /\ Spent' = SumFunctionOnSet(g, Payouts)
  BY SpentIsSum
<1>4. Spent \in Int /\ Spent' \in Int
  <2> HIDE DEF f, g
  <2> QED BY <1>2, <1>3, SumIsInteger
<1>5. CASE \E p \in Payouts : Request(p)
  <2> PICK p \in Payouts : Request(p)
    BY <1>5
  <2>1. Share(p) = 0 /\ Share(p)' = Amount[p] /\ \A q \in Payouts \ {p} : Share(q)' = Share(q)
    BY <1>1 DEF Request, Share, CountsAsSpent, Held, PayoutTypeOK
  <2>2. Spent' = Spent - Share(p) + Share(p)'
    <3> HIDE DEF f, g
    <3>1. SumFunctionOnSet(g, Payouts) = SumFunctionOnSet(f, Payouts) - f[p] + g[p]
      BY <1>2, <2>1, SumChanges
    <3> QED BY <3>1, <1>2, <1>3
  <2>3. Amount[p] <= eligible - Spent /\ eligible' = eligible /\ Amount[p] \in Nat /\ eligible \in Nat
    BY <1>1, AmountAssumption DEF Request, PayoutTypeOK
  <2>4. Spent' <= eligible'
    BY <1>4, <2>1, <2>2, <2>3
  <2> QED BY <2>4
<1>6. CASE \A p \in Payouts : ~Request(p)
  <2>1. \A p \in Payouts : Share(p)' <= Share(p)
    BY <1>6, SpentStep, AmountAssumption DEF Share
  <2>2. Spent' <= Spent
    <3> HIDE DEF f, g
    <3> QED BY <1>2, <1>3, <2>1, SumIsMonotonic
  <2> QED BY <1>4, <2>2
<1> QED BY <1>5, <1>6

\* Only Begin counts a first attempt, and it looks at the balance then.
LEMMA FirstAttemptStep ==
  ASSUME PayoutInv, [Next]_vars, NEW p \in Payouts
  PROVE  attempt_count[p] = 0 /\ attempt_count'[p] > 0 => eligible >= Spent
<1> DEFINE First == attempt_count[p] = 0 /\ attempt_count'[p] > 0 => eligible >= Spent
<1> USE DEF rowVars
<1>1. ASSUME NEW w \in Workers, NEW q \in Payouts, Begin(w, q)
      PROVE  First
  <2>1. attempt_count \in [Payouts -> 0..2]
    BY DEF PayoutInv, PayoutTypeOK
  <2>2. p # q => attempt_count'[p] = attempt_count[p]
    BY <1>1, <2>1 DEF Begin
  <2>3. attempt_count[q] = 0 => eligible >= Spent
    BY <1>1 DEF Begin, Covered, PayoutInv, UntouchedInv
  <2> QED BY <2>1, <2>2, <2>3
<1>2. ASSUME UNCHANGED attempt_count
      PROVE  First
  <2>1. attempt_count[p] \in 0..2
    BY DEF PayoutInv, PayoutTypeOK
  <2> QED BY <1>2, <2>1
<1>3. \/ UNCHANGED attempt_count
      \/ \E w \in Workers, q \in Payouts : Begin(w, q)
  <2>1. CreatorStep => UNCHANGED attempt_count
    BY DEF CreatorStep, EarningsChange, Request, Approve, Reject
  <2>2. ProcessStep => UNCHANGED attempt_count \/ \E w \in Workers, q \in Payouts : Begin(w, q)
    BY DEF ProcessStep, JobReads, JobSkips, GiveUp, BalanceChanged, Finish, Vanish
  <2>3. PayPalStep => UNCHANGED attempt_count
    BY DEF PayPalStep, PayPalCreates, PayPalRefuses, PayPalReports, PayPalMoves
  <2>4. TimeStep => UNCHANGED attempt_count
    BY DEF TimeStep, LeaseEnds, CheckIsDue, WindowCloses, PayPalForgets
  <2> QED BY <2>1, <2>2, <2>3, <2>4 DEF Next, vars
<1> QED BY <1>1, <1>2, <1>3

\* Whatever is refunded, and however late an answer is: what is reserved or paid
\* grows within the commission there is, and a withdrawal is first sent when it
\* is covered, for every finite set of withdrawals.
THEOREM SpendingCovered ==
  ASSUME IsFiniteSet(Payouts)
  PROVE  Spec => SpendingIsCovered
<1>1. PayoutInv /\ [Next]_vars =>
        [/\ Spent' > Spent => Spent' <= eligible'
         /\ \A p \in Payouts : attempt_count[p] = 0 /\ attempt_count'[p] > 0 => eligible >= Spent]_vars
  BY SpendingStep, FirstAttemptStep
<1> QED BY <1>1, PayoutInvariant, PTL DEF Spec, SpendingIsCovered

-----------------------------------------------------------------------------
(* The abstract withdrawals.                                                 *)

Phase == [p \in Payouts |-> PhaseOf(p)]

\* What the steps below need to know of a withdrawal.
LEMMA PhaseFacts ==
  ASSUME PayoutInv, NEW p \in Payouts
  PROVE  /\ status[p] = "absent" => paypal[p] = "none"
         /\ status[p] = "paid" => paypal[p] \in {"SUCCESS", "RETURNED"}
         /\ status[p] \in Released => paypal[p] \in NoMoney
         /\ paypal[p] \in Submitted \cup {"none"}
BY DEF PayoutInv, PayoutTypeOK, UntouchedInv, PaidWasSent, ReleasedIsNotPaid

\* The promise adds up as the code does.
LEMMA SumsAreTheSame == \A f : Abstract!SumFunction(f) = SumFunction(f)
BY Zenon DEF SumFunction, SumFunctionOnSet, FoldFunctionOnSet, MapThenFoldSet,
    Abstract!SumFunction, Abstract!SumFunctionOnSet, Abstract!FoldFunctionOnSet,
    Abstract!MapThenFoldSet

\* What the code counts as spent is what the promise counts as taken.
LEMMA SpentIsTaken ==
  ASSUME PayoutInv
  PROVE  Spent = Abstract!Taken
<1>1. \A p \in Payouts : CountsAsSpent(status[p]) <=> PhaseOf(p) \notin {"none", "available"}
  BY DEF PayoutInv, PayoutTypeOK, CountsAsSpent, PhaseOf, Held, Released
<1>2. [p \in Payouts |-> IF CountsAsSpent(status[p]) THEN Amount[p] ELSE 0]
        = [p \in Payouts |->
             IF [q \in Payouts |-> PhaseOf(q)][p] \in {"none", "available"} THEN 0 ELSE Amount[p]]
  BY <1>1
<1> QED BY <1>2, SumsAreTheSame DEF Spent, Abstract!Taken

\* A step that leaves status and PayPal's books alone leaves the phases alone.
LEMMA QuietStep ==
  ASSUME UNCHANGED <<status, paypal, eligible>>
  PROVE  UNCHANGED <<eligible, Phase>>
BY DEF Phase, PhaseOf

\* A step that is about one withdrawal moves no other.
LEMMA OneMoves ==
  ASSUME NEW p \in Payouts, NEW to,
         \A q \in Payouts \ {p} : status'[q] = status[q] /\ paypal'[q] = paypal[q],
         PhaseOf(p)' = to
  PROVE  Phase' = [Phase EXCEPT ![p] = to]
<1>1. \A q \in Payouts \ {p} : PhaseOf(q)' = PhaseOf(q)
  BY DEF PhaseOf
<1> QED BY <1>1 DEF Phase

\* A new status of a withdrawal that is under way releases what has not left or
\* is back, calls paid what was received, or says nothing about the money.
LEMMA StatusRefines ==
  ASSUME PayoutInv, PayoutInv', NEW p \in Payouts, UNCHANGED <<eligible, paypal>>,
         \A q \in Payouts \ {p} : status'[q] = status[q],
         status[p] \notin Released \cup {"absent"}, status'[p] # "absent",
         status[p] = "paid" => status'[p] \in {"paid", "returned"}
  PROVE  [Abstract!Next]_<<eligible, Phase>>
<1> DEFINE to == PhaseOf(p)'
<1>1. Phase[p] = PhaseOf(p)
  BY DEF Phase
<1>2. Phase' = [Phase EXCEPT ![p] = to]
  BY OneMoves
<1>3. /\ paypal[p] \in Submitted \cup {"none"}
      /\ status[p] = "paid" => paypal[p] \in {"SUCCESS", "RETURNED"}
      /\ status'[p] = "paid" => paypal[p] \in {"SUCCESS", "RETURNED"}
      /\ status'[p] \in Released => paypal[p] \in NoMoney
  BY PhaseFacts DEF PayoutInv, PayoutTypeOK, PaidWasSent, ReleasedIsNotPaid
<1>4. CASE status'[p] \in Released
  <2>1. to = "available" /\ PhaseOf(p) \in {"reserved", "back"}
    BY <1>3, <1>4 DEF PhaseOf, Released, NoMoney
  <2> QED BY <1>1, <1>2, <2>1 DEF Phase, Abstract!Next, Abstract!Release, Abstract!Move
<1>5. CASE status'[p] \notin Released /\ paypal[p] = "SUCCESS" /\ status[p] # "paid" /\ status'[p] = "paid"
  <2>1. to = "paid" /\ PhaseOf(p) = "received"
    BY <1>5 DEF PhaseOf, Released
  <2> QED BY <1>1, <1>2, <2>1 DEF Phase, Abstract!Next, Abstract!Record, Abstract!Move
<1>6. CASE status'[p] \notin Released /\ ~(paypal[p] = "SUCCESS" /\ status[p] # "paid" /\ status'[p] = "paid")
  <2>1. to = PhaseOf(p)
    BY <1>3, <1>6 DEF PhaseOf, Released
  <2> QED BY <1>1, <1>2, <2>1 DEF Phase
<1> QED BY <1>4, <1>5, <1>6

LEMMA RequestRefines ==
  ASSUME PayoutInv, NEW p \in Payouts, Request(p)
  PROVE  Abstract!Next
<1>1. PhaseOf(p) = "none" /\ PhaseOf(p)' = "reserved"
  BY PhaseFacts DEF Request, PhaseOf, Released, PayoutInv, PayoutTypeOK, payPalVars
<1>2. Phase' = [Phase EXCEPT ![p] = "reserved"]
  BY <1>1, OneMoves DEF Request, PayoutInv, PayoutTypeOK, payPalVars
<1>3. Amount[p] <= eligible - Abstract!Taken
  BY SpentIsTaken DEF Request
<1> QED BY <1>1, <1>2, <1>3 DEF Phase, Request, Abstract!Next, Abstract!Request, Abstract!Move

\* PayPal takes a submission once: a repeated one is recognised.
LEMMA CreateRefines ==
  ASSUME PayoutInv, NEW c \in calls, NEW answer, PayPalCreates(c, answer)
  PROVE  Abstract!Next
<1> DEFINE p == c.payout
<1>1. p \in Payouts
  BY DEF PayoutInv, PayoutTypeOK, Call
<1>2. paypal[p] = "none" /\ status[p] \notin Released \cup {"absent"}
  BY <1>1 DEF PayPalCreates, PayoutInv, ForgetInv, CallInv, UntouchedInv
<1>3. PhaseOf(p) = "reserved" /\ PhaseOf(p)' = "sent"
  BY <1>1, <1>2 DEF PayPalCreates, PhaseOf, PayoutInv, PayoutTypeOK, rowVars
<1>4. Phase' = [Phase EXCEPT ![p] = "sent"]
  BY <1>1, <1>3, OneMoves DEF PayPalCreates, PayoutInv, PayoutTypeOK, rowVars
<1> QED BY <1>1, <1>3, <1>4 DEF Phase, PayPalCreates, Abstract!Next, Abstract!Send, Abstract!Move

LEMMA TransferRefines ==
  ASSUME PayoutInv, NEW p \in Payouts, NEW to, PayPalMoves(p, to)
  PROVE  [Abstract!Next]_<<eligible, Phase>>
<1>1. /\ status[p] \notin Released \cup {"absent"}
      /\ paypal'[p] = to /\ status' = status /\ eligible' = eligible
      /\ \A q \in Payouts \ {p} : paypal'[q] = paypal[q]
  BY PhaseFacts DEF PayPalMoves, PayoutInv, PayoutTypeOK, rowVars, NoMoney
<1>2. Phase' = [Phase EXCEPT ![p] = PhaseOf(p)']
  BY <1>1, OneMoves
<1>3. CASE to \in {"UNCLAIMED", "ONHOLD"}
  <2>1. PhaseOf(p) = "sent" /\ PhaseOf(p)' = "sent"
    BY <1>1, <1>3 DEF PayPalMoves, PhaseOf
  <2> QED BY <1>1, <1>2, <2>1 DEF Phase
<1>4. CASE to = "SUCCESS"
  <2>1. PhaseOf(p) = "sent" /\ PhaseOf(p)' = "received"
    BY <1>1, <1>4, PhaseFacts DEF PayPalMoves, PhaseOf
  <2> QED BY <1>1, <1>2, <2>1 DEF Phase, Abstract!Next, Abstract!Receive, Abstract!Move
<1>5. CASE to \in {"FAILED", "RETURNED", "DENIED"}
  <2>1. PhaseOf(p) \in {"sent", "received", "paid"} /\ PhaseOf(p)' = "back"
    BY <1>1, <1>5 DEF PayPalMoves, PhaseOf
  <2> QED BY <1>1, <1>2, <2>1 DEF Phase, Abstract!Next, Abstract!Return, Abstract!Move
<1> QED BY <1>3, <1>4, <1>5 DEF PayPalMoves

\* An answer is applied by the last attempt alone, which a released withdrawal
\* does not have.
LEMMA FinishRefines ==
  ASSUME PayoutInv, PayoutInv', PaidKept, NEW c \in calls, Finish(c)
  PROVE  [Abstract!Next]_<<eligible, Phase>>
<1> DEFINE p == c.payout
<1>1. p \in Payouts /\ UNCHANGED <<eligible, paypal>>
  BY DEF Finish, PayoutInv, PayoutTypeOK, Call, payPalVars
<1>2. CASE ~StillLast(c)
  BY <1>1, <1>2, QuietStep DEF Finish
<1>3. CASE StillLast(c)
  <2>1. status[p] \notin Released \cup {"absent"}
    BY <1>1, <1>3 DEF StillLast, PayoutInv, CallInv, UntouchedInv
  <2>2. status' = [status EXCEPT ![p] = Outcome(c)]
    BY <1>3 DEF Finish
  <2>3. status'[p] # "absent" /\ \A q \in Payouts \ {p} : status'[q] = status[q]
    <3>1. Outcome(c) # "absent"
      BY <1>1, <2>1 DEF Outcome, Meaning, ItemStates, Finish, PayoutInv, PayoutTypeOK, Call, Answers, Submitted
    <3> QED BY <1>1, <2>2, <3>1 DEF PayoutInv, PayoutTypeOK
  <2> QED BY <1>1, <2>1, <2>3, StatusRefines DEF PaidKept
<1> QED BY <1>2, <1>3

LEMMA PayoutStepRefines ==
  ASSUME PayoutInv, PayoutInv', [Next]_vars
  PROVE  [Abstract!Next]_<<eligible, Phase>>
<1> DEFINE Refines == [Abstract!Next]_<<eligible, Phase>>
<1>1. ASSUME NEW cents, EarningsChange(cents)
      PROVE  Refines
  <2>1. UNCHANGED <<status, paypal>> /\ eligible' \in Nat
    BY <1>1 DEF EarningsChange, rowVars, payPalVars, PayoutInv, PayoutTypeOK
  <2> QED BY <2>1 DEF Phase, PhaseOf, Abstract!Next, Abstract!Earn
<1>2. ASSUME NEW p \in Payouts, Request(p)
      PROVE  Refines
  BY <1>2, RequestRefines
<1>3. ASSUME NEW p \in Payouts, Approve(p) \/ Reject(p)
      PROVE  Refines
  BY <1>3, StatusRefines DEF Approve, Reject, PayoutInv, PayoutTypeOK, Released, payPalVars
<1>4. ASSUME NEW w \in Workers, NEW p \in Payouts, GiveUp(w, p) \/ BalanceChanged(w, p)
      PROVE  Refines
  <2>1. status[p] \in Reconcile \cup {"manual_review"} /\ status[p] # "paid"
    BY <1>4 DEF GiveUp, BalanceChanged, Wanted, MayProcess, TooLate, PayoutInv, UntouchedInv
  <2> QED BY <1>4, <2>1, StatusRefines
        DEF GiveUp, BalanceChanged, PayoutInv, PayoutTypeOK, Released, Reconcile, payPalVars
<1>5. ASSUME NEW c \in calls, NEW answer \in Answers, PayPalCreates(c, answer)
      PROVE  Refines
  BY <1>5, CreateRefines
<1>6. ASSUME NEW p \in Payouts, NEW to \in Submitted, PayPalMoves(p, to)
      PROVE  Refines
  BY <1>6, TransferRefines
<1>7. ASSUME NEW c \in calls, Finish(c)
      PROVE  Refines
  BY <1>7, PaidKeptStep, FinishRefines
<1>8. CASE UNCHANGED <<status, paypal, eligible>>
  BY <1>8, QuietStep
<1>9. \/ UNCHANGED <<status, paypal, eligible>>
      \/ \E cents \in 0..MaxEarnings : EarningsChange(cents)
      \/ \E p \in Payouts : Request(p) \/ Approve(p) \/ Reject(p)
      \/ \E w \in Workers, p \in Payouts : GiveUp(w, p) \/ BalanceChanged(w, p)
      \/ \E c \in calls, answer \in Answers : PayPalCreates(c, answer)
      \/ \E p \in Payouts, to \in Submitted : PayPalMoves(p, to)
      \/ \E c \in calls : Finish(c)
  <2> USE DEF rowVars, payPalVars
  <2>1. ASSUME ProcessStep, \A c \in calls : ~Finish(c),
               \A w \in Workers, p \in Payouts : ~GiveUp(w, p) /\ ~BalanceChanged(w, p)
        PROVE  UNCHANGED <<status, paypal, eligible>>
    BY <2>1 DEF ProcessStep, JobReads, JobSkips, Begin, Vanish
  <2>2. ASSUME PayPalStep, \A c \in calls, answer \in Answers : ~PayPalCreates(c, answer),
               \A p \in Payouts, to \in Submitted : ~PayPalMoves(p, to)
        PROVE  UNCHANGED <<status, paypal, eligible>>
    BY <2>2 DEF PayPalStep, PayPalRefuses, PayPalReports
  <2>3. TimeStep => UNCHANGED <<status, paypal, eligible>>
    BY DEF TimeStep, LeaseEnds, CheckIsDue, WindowCloses, PayPalForgets
  <2>4. UNCHANGED vars => UNCHANGED <<status, paypal, eligible>>
    BY DEF vars
  <2> QED BY <2>1, <2>2, <2>3, <2>4 DEF Next, CreatorStep
<1> QED BY <1>1, <1>2, <1>3, <1>4, <1>5, <1>6, <1>7, <1>8, <1>9

\* Each step of the code moves the money of one withdrawal as promised, or none:
\* it leaves once, it is granted from what is left of the commission, and neither
\* released nor called paid before PayPal's books say so.
THEOREM PayoutsImplementWithdrawals == Spec => ImplementsWithdrawals
<1>1. Init => Abstract!Init
  BY DEF Init, Abstract!Init, PhaseOf
<1>2. PayoutInv /\ PayoutInv' /\ [Next]_vars => [Abstract!Next]_<<eligible, Phase>>
  BY PayoutStepRefines
<1> QED BY <1>1, <1>2, PayoutInvariant, PTL
        DEF Spec, ImplementsWithdrawals, Abstract!Spec, Abstract!vars, Phase
=============================================================================
