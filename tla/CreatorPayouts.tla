---------------------------- MODULE CreatorPayouts ----------------------------
(***************************************************************************)
(* Withdrawals of one creator's commission: request, review, transfer by   *)
(* PayPal and reconciliation (creator_payouts.py, routers/creators.py).    *)
(*                                                                         *)
(* Every transaction holds the lock of the creator's row, so it is one     *)
(* action; creators share nothing else, and one of them is modelled.       *)
(* process_payout is three steps: Begin commits a lease and the number of  *)
(* the attempt, PayPal is called with no lock held (PayPalCreates and so   *)
(* on), and Finish locks the payout again and applies the answer if the    *)
(* attempt is still the last one.  A crash (Vanish) may end it in between, *)
(* and time runs on: the 90-second lease, the next check, the 29 days in   *)
(* which a submission may be repeated and the 30 in which PayPal           *)
(* recognises it.                                                          *)
(***************************************************************************)
EXTENDS Integers, FiniteSets, Functions

CONSTANTS
    Payouts,      \* withdrawals the creator may ask for
    Workers,      \* the reconciliation job and concurrent admin requests
    Job,          \* the job's worker
    Amount,       \* amount_cents of each withdrawal
    MaxEarnings   \* bound on the commission the creator has at a time

ASSUME WorkerAssumption == Job \in Workers
ASSUME AmountAssumption == Amount \in [Payouts -> Nat \ {0}] /\ MaxEarnings \in Nat

VARIABLES
    eligible,      \* commission of completed orders older than three days
    status,        \* CreatorPayout.status; "absent" before the row
    batch_known,   \* paypal_batch_id is saved
    attempt_count, \* 0, 1 or 2, which stands for any number above 1
    lease,         \* processing_until: "none", "running" or "over"
    due,           \* next_check_at has passed
    window,        \* 29 days since first_sent_at: "none", "open" or "closed"
    picked,        \* ids the job has read and not yet handled
    calls,         \* attempts between their two transactions
    paypal,        \* what PayPal did with the submission
    remembered,    \* PayPal still recognises the sender_batch_id
    submissions    \* batches PayPal has created: the money was sent that often

rowVars    == <<status, batch_known, attempt_count, lease, due, window>>
payPalVars == <<paypal, remembered, submissions>>
vars == <<eligible, rowVars, picked, calls, payPalVars>>

Held == {"pending_review", "processing", "unclaimed", "on_hold", "manual_review"}
Reconcile == {"processing", "unclaimed", "on_hold", "paid"}
Released == {"failed", "returned", "rejected"}

\* States of a submission, and what PayPal may say instead of one: "lost", no
\* answer; "rejected", a definitive refusal; "unreadable", an answer that is not
\* about this batch; "mismatch", an item that does not fit; "empty", no item yet.
ItemStates == {"PENDING", "UNCLAIMED", "ONHOLD", "SUCCESS", "FAILED", "RETURNED"}
Submitted == ItemStates \cup {"DENIED"}
Answers == Submitted \cup {"lost", "rejected", "unreadable", "mismatch", "empty"}
NoMoney == {"none", "FAILED", "RETURNED", "DENIED"}

Call == [worker : Workers, payout : Payouts, first : BOOLEAN, known : BOOLEAN,
         last : BOOLEAN, answer : Answers \cup {"waiting"}]

PayoutTypeOK ==
    /\ eligible \in Nat
    /\ status \in [Payouts -> {"absent", "paid"} \cup Held \cup Released]
    /\ batch_known \in [Payouts -> BOOLEAN]
    /\ attempt_count \in [Payouts -> 0..2]
    /\ lease \in [Payouts -> {"none", "running", "over"}]
    /\ due \in [Payouts -> BOOLEAN]
    /\ window \in [Payouts -> {"none", "open", "closed"}]
    /\ picked \subseteq Payouts
    /\ calls \subseteq Call
    /\ paypal \in [Payouts -> Submitted \cup {"none"}]
    /\ remembered \in [Payouts -> BOOLEAN]
    /\ submissions \in [Payouts -> Nat]

Init ==
    /\ eligible = 0
    /\ status = [p \in Payouts |-> "absent"]
    /\ batch_known = [p \in Payouts |-> FALSE]
    /\ attempt_count = [p \in Payouts |-> 0]
    /\ lease = [p \in Payouts |-> "none"]
    /\ due = [p \in Payouts |-> TRUE]
    /\ window = [p \in Payouts |-> "none"]
    /\ picked = {}
    /\ calls = {}
    /\ paypal = [p \in Payouts |-> "none"]
    /\ remembered = [p \in Payouts |-> TRUE]
    /\ submissions = [p \in Payouts |-> 0]

-----------------------------------------------------------------------------
(* The balance.                                                              *)

\* Mutant: money that waits for its recipient counts as available again.
CountsAsSpentIfPaid(state) == state \in {"pending_review", "processing", "paid"}

\* Statuses whose money is reserved or gone.
CountsAsSpent(state) == state \in Held \cup {"paid"}

Spent == SumFunction([p \in Payouts |-> IF CountsAsSpent(status[p]) THEN Amount[p] ELSE 0])

\* An order is completed and three days old, or is refunded after that.
EarningsChange(cents) ==
    /\ cents \in 0..MaxEarnings
    /\ eligible' = cents
    /\ UNCHANGED <<rowVars, picked, calls, payPalVars>>

\* request_payout; a repeated request_key only reads the row.
Request(p) ==
    /\ status[p] = "absent"
    /\ Amount[p] <= eligible - Spent
    /\ status' = [status EXCEPT ![p] = "pending_review"]
    /\ UNCHANGED <<eligible, batch_known, attempt_count, lease, due, window,
                   picked, calls, payPalVars>>

\* review_payout; an approval goes on with process_payout (Begin).
Approve(p) ==
    /\ status[p] = "pending_review"
    /\ eligible >= Spent
    /\ status' = [status EXCEPT ![p] = "processing"]
    /\ UNCHANGED <<eligible, batch_known, attempt_count, lease, due, window,
                   picked, calls, payPalVars>>

Reject(p) ==
    /\ status[p] = "pending_review"
    /\ status' = [status EXCEPT ![p] = "rejected"]
    /\ UNCHANGED <<eligible, batch_known, attempt_count, lease, due, window,
                   picked, calls, payPalVars>>

-----------------------------------------------------------------------------
(* process_payout, first transaction.                                        *)

\* Mutants: a submission is repeated however old it is; a lease that has run out
\* still belongs to the worker that crashed.
TooLateNever(p) == FALSE
LeaseNeverOver(p) == status[p] \in Reconcile \cup {"manual_review"} /\ lease[p] = "none"

\* Reconcilable, and no other worker's lease on it is running.
MayProcess(p) == status[p] \in Reconcile \cup {"manual_review"} /\ lease[p] # "running"

\* PayPal may soon not recognise the submission any more.
TooLate(p) == ~batch_known[p] /\ window[p] = "closed"

\* An attempt by the job needs the check to be due; an administrator's does not.
Wanted(w, p) ==
    /\ \A c \in calls : c.worker # w
    /\ IF w = Job THEN p \in picked /\ picked' = picked \ {p} ELSE UNCHANGED picked
    /\ MayProcess(p)
    /\ w = Job => due[p]

\* reconcile_due reads the ids that are due and handles them one by one.
JobReads ==
    /\ picked = {}
    /\ picked' = {p \in Payouts : status[p] \in Reconcile /\ due[p]}
    /\ picked' # {}
    /\ UNCHANGED <<eligible, rowVars, calls, payPalVars>>

\* Changed meanwhile: not due, not reconcilable or leased.
JobSkips(p) ==
    /\ p \in picked
    /\ picked' = picked \ {p}
    /\ \/ ~MayProcess(p)
       \/ ~due[p]
       \/ status[p] = "manual_review" /\ ~batch_known[p] /\ ~TooLate(p)
    /\ UNCHANGED <<eligible, rowVars, calls, payPalVars>>

GiveUp(w, p) ==
    /\ Wanted(w, p)
    /\ TooLate(p)
    /\ status' = [status EXCEPT ![p] = "manual_review"]
    /\ UNCHANGED <<eligible, batch_known, attempt_count, lease, due, window,
                   calls, payPalVars>>

\* Mutant: the balance is not looked at again before the first submission.
CoveredUnread == TRUE

\* What was granted is still there.
Covered == eligible >= Spent

\* The earnings behind a payout that was never sent have been refunded.
BalanceChanged(w, p) ==
    /\ Wanted(w, p)
    /\ ~TooLate(p)
    /\ status[p] = "manual_review" => batch_known[p]
    /\ window[p] = "none"
    /\ ~Covered
    /\ status' = [status EXCEPT ![p] = "rejected"]
    /\ UNCHANGED <<eligible, batch_known, attempt_count, lease, due, window,
                   calls, payPalVars>>

\* Commit the lease and the attempt's number before PayPal is called; any
\* earlier attempt on the payout is no longer the last one.
Begin(w, p) ==
    /\ Wanted(w, p)
    /\ ~TooLate(p)
    /\ status[p] = "manual_review" => batch_known[p]
    /\ window[p] = "none" => Covered
    /\ window' = [window EXCEPT ![p] = IF @ = "none" THEN "open" ELSE @]
    /\ lease' = [lease EXCEPT ![p] = "running"]
    /\ attempt_count' = [attempt_count EXCEPT ![p] = IF @ = 0 THEN 1 ELSE 2]
    /\ calls' = {[c EXCEPT !.last = c.last /\ c.payout # p] : c \in calls} \cup
                {[worker |-> w, payout |-> p, first |-> attempt_count[p] = 0,
                  known |-> batch_known[p], last |-> TRUE, answer |-> "waiting"]}
    /\ UNCHANGED <<eligible, status, batch_known, due, payPalVars>>

-----------------------------------------------------------------------------
(* PayPal (paypal_payouts.py and the service behind it).                     *)

\* The call c is answered with the given word.
Answered(c, answer) ==
    calls' = (calls \ {c}) \cup {[c EXCEPT !.answer = answer]}

\* create_batch, for a sender_batch_id PayPal does not recognise.
PayPalCreates(c, answer) ==
    LET p == c.payout IN
    /\ c.answer = "waiting"
    /\ ~c.known
    /\ paypal[p] = "none" \/ ~remembered[p]
    /\ answer \in {"empty", "lost", "unreadable"}
    /\ paypal' = [paypal EXCEPT ![p] = "PENDING"]
    /\ remembered' = [remembered EXCEPT ![p] = TRUE]
    /\ submissions' = [submissions EXCEPT ![p] = @ + 1]
    /\ Answered(c, answer)
    /\ UNCHANGED <<eligible, rowVars, picked>>

\* create_batch is refused for good, or nothing comes of either call.
PayPalRefuses(c, answer) ==
    /\ c.answer = "waiting"
    /\ answer \in {"lost", "unreadable"} \cup (IF c.known THEN {} ELSE {"rejected"})
    /\ Answered(c, answer)
    /\ UNCHANGED <<eligible, rowVars, picked, payPalVars>>

\* get_batch, for a known batch or one that create_batch finds a duplicate.
PayPalReports(c, answer) ==
    LET p == c.payout IN
    /\ c.answer = "waiting"
    /\ paypal[p] \in Submitted
    /\ c.known \/ remembered[p]
    /\ answer \in {paypal[p], "mismatch"} \cup (IF paypal[p] = "PENDING" THEN {"empty"} ELSE {})
    /\ Answered(c, answer)
    /\ UNCHANGED <<eligible, rowVars, picked, payPalVars>>

\* The transfer goes on at PayPal.
PayPalMoves(p, to) ==
    /\ \/ paypal[p] = "PENDING" /\ to \in {"SUCCESS", "UNCLAIMED", "ONHOLD", "FAILED", "DENIED"}
       \/ paypal[p] = "UNCLAIMED" /\ to \in {"SUCCESS", "RETURNED"}
       \/ paypal[p] = "ONHOLD" /\ to \in {"SUCCESS", "FAILED", "RETURNED"}
       \/ paypal[p] = "SUCCESS" /\ to = "RETURNED"
    /\ paypal' = [paypal EXCEPT ![p] = to]
    /\ UNCHANGED <<eligible, rowVars, picked, calls, remembered, submissions>>

-----------------------------------------------------------------------------
(* process_payout, second transaction.                                       *)

\* Mutant: a refusal releases the money whatever was sent before.
RefusedForGoodAnytime(c) == c.answer = "rejected" /\ ~c.known

\* apply_paypal_result, the meaning of an item's state.
Meaning(answer) ==
    CASE answer = "SUCCESS" -> "paid"
      [] answer = "PENDING" -> "processing"
      [] answer = "UNCLAIMED" -> "unclaimed"
      [] answer = "ONHOLD" -> "on_hold"
      [] answer = "FAILED" -> "failed"
      [] answer = "RETURNED" -> "returned"

\* Only a first submission PayPal refused cannot have been sent by an earlier one.
RefusedForGood(c) == c.answer = "rejected" /\ ~c.known /\ c.first

\* A paid transfer is only ever taken back by its return.
Reopens(p, result) == status[p] = "paid" => result \in {"paid", "returned"}

\* No other attempt has begun since.
StillLast(c) == c.last

\* The status the answer to c leads to.
Outcome(c) ==
    LET p == c.payout IN
    CASE c.answer \in ItemStates ->
             IF Reopens(p, Meaning(c.answer)) THEN Meaning(c.answer) ELSE status[p]
      [] c.answer = "DENIED" -> IF status[p] = "paid" THEN "paid" ELSE "failed"
      [] c.answer \in {"unreadable", "mismatch"} ->
             IF status[p] = "paid" THEN "paid" ELSE "manual_review"
      [] c.answer = "rejected" -> IF RefusedForGood(c) THEN "failed" ELSE status[p]
      [] OTHER -> status[p]

Finish(c) ==
    LET p == c.payout IN
    /\ c \in calls
    /\ c.answer # "waiting"
    /\ calls' = calls \ {c}
    /\ IF StillLast(c)
       THEN /\ status' = [status EXCEPT ![p] = Outcome(c)]
            /\ batch_known' = [batch_known EXCEPT ![p] =
                   @ \/ c.answer \in Submitted \cup {"empty", "mismatch"}]
            /\ lease' = [lease EXCEPT ![p] = "none"]
            /\ due' = [due EXCEPT ![p] = FALSE]
       ELSE UNCHANGED <<status, batch_known, lease, due>>
    /\ UNCHANGED <<eligible, attempt_count, window, picked, payPalVars>>

\* The worker crashes; its lease is left to run out.
Vanish(c) ==
    /\ c \in calls
    /\ calls' = calls \ {c}
    /\ UNCHANGED <<eligible, rowVars, picked, payPalVars>>

-----------------------------------------------------------------------------
(* Time.                                                                     *)

LeaseEnds(p) ==
    /\ lease[p] = "running"
    /\ lease' = [lease EXCEPT ![p] = "over"]
    /\ UNCHANGED <<eligible, status, batch_known, attempt_count, due, window,
                   picked, calls, payPalVars>>

\* next_check_at passes, or a signed webhook brings it forward.
CheckIsDue(p) ==
    /\ ~due[p]
    /\ due' = [due EXCEPT ![p] = TRUE]
    /\ UNCHANGED <<eligible, status, batch_known, attempt_count, lease, window,
                   picked, calls, payPalVars>>

WindowCloses(p) ==
    /\ window[p] = "open"
    /\ window' = [window EXCEPT ![p] = "closed"]
    /\ UNCHANGED <<eligible, status, batch_known, attempt_count, lease, due,
                   picked, calls, payPalVars>>

\* A day after the window has closed, and so long after any submission begun
\* inside it, PayPal forgets the sender_batch_id.
PayPalForgets(p) ==
    /\ window[p] = "closed"
    /\ remembered[p]
    /\ \A c \in calls : ~(c.payout = p /\ c.answer = "waiting" /\ ~c.known)
    /\ remembered' = [remembered EXCEPT ![p] = FALSE]
    /\ UNCHANGED <<eligible, rowVars, picked, calls, paypal, submissions>>

-----------------------------------------------------------------------------

CreatorStep ==
    \/ \E cents \in 0..MaxEarnings : EarningsChange(cents)
    \/ \E p \in Payouts : Request(p) \/ Approve(p) \/ Reject(p)

ProcessStep ==
    \/ JobReads
    \/ \E p \in Payouts : JobSkips(p)
    \/ \E w \in Workers, p \in Payouts : GiveUp(w, p) \/ BalanceChanged(w, p) \/ Begin(w, p)
    \/ \E c \in calls : Finish(c) \/ Vanish(c)

PayPalStep ==
    \/ \E c \in calls, answer \in Answers :
           PayPalCreates(c, answer) \/ PayPalRefuses(c, answer) \/ PayPalReports(c, answer)
    \/ \E p \in Payouts, to \in Submitted : PayPalMoves(p, to)

TimeStep ==
    \E p \in Payouts : LeaseEnds(p) \/ CheckIsDue(p) \/ WindowCloses(p) \/ PayPalForgets(p)

Next == CreatorStep \/ ProcessStep \/ PayPalStep \/ TimeStep

Spec == Init /\ [][Next]_vars

(* The job runs every 30 seconds for as long as the service is up, and time  *)
(* passes.  PayPal need not answer a submission ever; the state of a batch   *)
(* it has created it reports sooner or later, and it ends what is pending.   *)
JobProgress(p) ==
    /\ WF_vars(LeaseEnds(p))
    /\ WF_vars(CheckIsDue(p))
    /\ WF_vars(WindowCloses(p))
    /\ WF_vars(JobSkips(p))
    /\ SF_vars(Begin(Job, p) \/ GiveUp(Job, p) \/ BalanceChanged(Job, p))
    /\ SF_vars(\E c \in calls : c.worker = Job /\ c.payout = p
                                /\ c.answer \in Submitted /\ Finish(c))
    /\ SF_vars(\E c \in calls : c.worker = Job /\ c.payout = p
                                /\ PayPalReports(c, paypal[p]))
    /\ WF_vars(\E to \in Submitted : paypal[p] = "PENDING" /\ PayPalMoves(p, to))

FairSpec ==
    /\ Spec
    /\ WF_vars(JobReads)
    /\ WF_vars(\E c \in calls : c.worker = Job /\ (Finish(c) \/ Vanish(c)))
    /\ \A p \in Payouts : JobProgress(p)

-----------------------------------------------------------------------------
(* Properties.                                                               *)

\* Crashes, timeouts, lost answers and concurrent administrators: a withdrawal
\* is sent to PayPal once, also when the window for repeating it has closed.
SentAtMostOnce == \A p \in Payouts : submissions[p] <= 1

\* A withdrawal whose amount is available again has not been, and is not being,
\* paid out (creator_payouts.py:172).
ReleasedIsNotPaid == \A p \in Payouts : status[p] \in Released => paypal[p] \in NoMoney

\* A withdrawal called paid was paid, though it may have come back since.
PaidWasSent == \A p \in Payouts : status[p] = "paid" => paypal[p] \in {"SUCCESS", "RETURNED"}

\* "Never let a delayed pending/failure response reopen a paid balance"
\* (creator_payouts.py:123): what is paid stays paid or comes back.
PaidStaysPaid ==
    [][\A p \in Payouts : status[p] = "paid" => status'[p] \in {"paid", "returned"}]_vars

\* Money that was released is not taken again: what is reserved or paid grows
\* only within the commission there is, whatever is refunded afterwards.  And
\* no first attempt to send a withdrawal begins while refunds since have left
\* less than was granted (creator_payouts.py:147).
SpendingIsCovered ==
    [][/\ Spent' > Spent => Spent' <= eligible'
       /\ \A p \in Payouts : attempt_count[p] = 0 /\ attempt_count'[p] > 0 => eligible >= Spent]_vars

\* Where the amount of a withdrawal is, by PayPal's books first.
PhaseOf(p) ==
    IF status[p] = "absent" THEN "none"
    ELSE IF status[p] \in Released THEN "available"
    ELSE CASE paypal[p] = "none" -> "reserved"
           [] paypal[p] \in {"PENDING", "UNCLAIMED", "ONHOLD"} -> "sent"
           [] paypal[p] = "SUCCESS" -> IF status[p] = "paid" THEN "paid" ELSE "received"
           [] OTHER -> "back"

Abstract == INSTANCE Withdrawals WITH phase <- [p \in Payouts |-> PhaseOf(p)]

\* Whatever workers, leases, crashes and answers do, each step moves the money of
\* one withdrawal as promised, or none (creator_payouts.py:60-70, 92-126): it
\* leaves once, and is neither released nor called paid before PayPal's books say so.
ImplementsWithdrawals == Abstract!Spec

\* An approved withdrawal is paid, released, waiting for its recipient, or in
\* the hands of a person, even if PayPal never answers the submission.
ApprovedIsResolved ==
    \A p \in Payouts : status[p] = "processing" ~> status[p] # "processing"

=============================================================================
