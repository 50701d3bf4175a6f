------------------------ MODULE SubscriptionLifecycle ------------------------
(***************************************************************************)
(* One account's PayPal subscription contracts: checkout, approval,        *)
(* cancellation and its reconciliation (subscription_lifecycle.py).        *)
(*                                                                         *)
(* Every transaction holds the lock of the account's row, also while it    *)
(* talks to PayPal, so a transaction is one action.  Three handlers commit *)
(* in the middle and go on in a second transaction: cancel_all, the        *)
(* checkout, and select_contract when it stops a contract.  What is left   *)
(* to do is in cancelling, finishing and stopping; it may run at any later *)
(* time, or, after a crash, never.  PayPal's answers may be late, stale or *)
(* lost, and a transaction may be rolled back after PayPal has acted.      *)
(***************************************************************************)
EXTENDS Naturals, FiniteSets

CONSTANTS
    Requests,   \* checkouts of the account; each has its own PayPal-Request-Id
    Approvals,  \* contracts of the account that PayPal knows and the table does not
    Nobody      \* no current contract

Contracts == Requests \cup Approvals

ASSUME ContractAssumption == Requests \cap Approvals = {} /\ Nobody \notin Contracts

VARIABLES
    db,         \* per contract: its row, and the row of a checkout without PayPal's id
    paypal,     \* per contract: what PayPal holds
    current,    \* User.paypal_subscription_id
    finishing,  \* checkouts whose second transaction is to come
    stopping,   \* contracts select_contract is about to cancel
    cancelling  \* the second transaction of cancel_all is to come

vars == <<db, paypal, current, finishing, stopping, cancelling>>

\* ACTIVE stands for SUSPENDED too, APPROVAL_PENDING for APPROVED, and CANCELLED
\* for EXPIRED: the code treats them alike here.
Live == {"APPROVAL_PENDING", "ACTIVE"}
Statuses == Live \cup {"CANCELLED"}

\* request is the row without PayPal's id and whether its replay is still allowed,
\* stop its cancel_requested_at; check is next_check_at of the row with an id.
Row == [request : {"none", "open", "closed"}, stop : BOOLEAN,
        status : Statuses \cup {"none"}, cancel_requested : BOOLEAN, check : BOOLEAN]

\* before: created no later than the account's last cancellation.
Contract == [status : Statuses \cup {"none"}, activated : BOOLEAN, before : BOOLEAN,
             remembered : BOOLEAN, created : Nat]

NoRow == [request |-> "none", stop |-> FALSE, status |-> "none",
          cancel_requested |-> FALSE, check |-> FALSE]

NoContract == [status |-> "none", activated |-> FALSE, before |-> FALSE,
               remembered |-> FALSE, created |-> 0]

\* A contract PayPal has just created.
NewContract(created) == [status |-> "APPROVAL_PENDING", activated |-> FALSE, before |-> FALSE,
                         remembered |-> TRUE, created |-> created]

SubscriptionTypeOK ==
    /\ db \in [Contracts -> Row]
    /\ \A c \in Contracts : db[c].stop => db[c].request # "none"
    /\ paypal \in [Contracts -> Contract]
    /\ current \in Contracts \cup {Nobody}
    /\ finishing \subseteq Contracts
    /\ stopping \subseteq Contracts
    /\ cancelling \in BOOLEAN

Init ==
    /\ db = [c \in Contracts |-> NoRow]
    /\ paypal = [c \in Contracts |-> IF c \in Approvals THEN NewContract(1) ELSE NoContract]
    /\ current = Nobody
    /\ finishing = {}
    /\ stopping = {}
    /\ cancelling = FALSE

-----------------------------------------------------------------------------
(* One row and one contract: what a call to PayPal and its answer do.        *)

\* apply_status; dated: the answer carries the time of the status.
Apply(status, answer, dated) ==
    IF \/ status = "CANCELLED"
       \/ dated /\ answer = "APPROVAL_PENDING" /\ status = "ACTIVE"
    THEN status ELSE answer

\* What a request for the contract may return: its state, or an earlier one.
Reported(contract) ==
    {"APPROVAL_PENDING", contract.status} \cup (IF contract.activated THEN {"ACTIVE"} ELSE {})

\* Mutant: an answer that cannot be read counts as the contract's end.
UpdatesOrEnded(status, contract) == Reported(contract) \cup {"CANCELLED"}

Updates(status, contract) ==
    {Apply(status, answer, dated) : answer \in Reported(contract), dated \in BOOLEAN}

Ended(contract) == [contract EXCEPT !.status = "CANCELLED"]

\* The creation, or its replay, as PayPal takes it.
Created(contract) ==
    IF contract.status # "none" /\ contract.remembered THEN contract
    ELSE NewContract(contract.created + 1)

\* Mutants: a creation is replayed after PayPal has forgotten it; a row that a
\* webhook made first takes over nothing from the checkout's row.
MayReplayEver(row) == row.request # "none"
MergedWithoutIntent(row, status) == [row EXCEPT !.request = "none", !.stop = FALSE, !.status = status]

MayReplay(row) == row.request = "open"

\* The checkout's row gets PayPal's id, or gives way to the row that has it.
Merged(row, status) ==
    [row EXCEPT !.request = "none", !.stop = FALSE, !.status = status,
                !.cancel_requested = @ \/ row.stop,
                !.check = @ \/ (row.stop /\ row.status = "none")]

\* recover_create: the results of a creation that PayPal has answered.
Recovered(row, contract) ==
    IF row.request = "none" THEN {[row |-> row, contract |-> contract]}
    ELSE {[row |-> Merged(row, status), contract |-> Created(contract)] :
             status \in IF MayReplay(row) THEN Updates(row.status, Created(contract)) ELSE {}}

\* The checkout's row is to be cancelled: create it for certain first, if that
\* is still allowed; the answer may be lost.
RequestResults(row, contract) ==
    IF row.request = "none" \/ ~row.stop THEN {[row |-> row, contract |-> contract]}
    ELSE Recovered(row, contract) \cup
         {[row |-> row, contract |-> contract]} \cup
         (IF MayReplay(row) THEN {[row |-> row, contract |-> Created(contract)]} ELSE {})

\* Mutants: a cancellation without an answer counts as one, or is not tried again.
UnconfirmedAsDone(row, contract) ==
    {[row |-> [row EXCEPT !.status = "CANCELLED", !.check = FALSE], contract |-> contract]}

UnconfirmedOnce(row, contract) ==
    {[row |-> [row EXCEPT !.check = FALSE], contract |-> after] :
        after \in {contract, Ended(contract)}}

Rechecked(row, status) == [row EXCEPT !.status = status, !.check = TRUE]

\* PayPal may have ended the contract or not; the row is checked again.
Unconfirmed(row, contract) ==
    {[row |-> Rechecked(row, status), contract |-> after] :
        status \in {row.status} \cup (Updates(row.status, contract) \cap Live),
        after \in {contract, Ended(contract)}}

\* cancel_one of a row with PayPal's id.
ContractResults(row, contract) ==
    IF row.status \notin Live \/ ~row.cancel_requested THEN {[row |-> row, contract |-> contract]}
    ELSE Unconfirmed(row, contract) \cup
         {[row |-> [row EXCEPT !.status = "CANCELLED", !.check = FALSE], contract |-> Ended(contract)]}

CancelResults(row, contract) ==
    UNION {ContractResults(r.row, r.contract) : r \in RequestResults(row, contract)}

\* Cancellation was asked for and is not confirmed.
RequestPending(row) == row.request # "none" /\ row.stop
ContractPending(row) == row.status \in Live /\ row.cancel_requested
CancelPending(row) == RequestPending(row) \/ ContractPending(row)

\* One transaction that takes every contract of S to one of its results.
Outcomes(S, Results(_, _)) ==
    {f \in [S -> UNION {Results(db[c], paypal[c]) : c \in S}] :
        \A c \in S : f[c] \in Results(db[c], paypal[c])}

Store(f) ==
    /\ db' = [c \in Contracts |-> IF c \in DOMAIN f THEN f[c].row ELSE db[c]]
    /\ paypal' = [c \in Contracts |-> IF c \in DOMAIN f THEN f[c].contract ELSE paypal[c]]

-----------------------------------------------------------------------------
(* Cancellation.                                                             *)

\* cancel_all, first transaction: the intent, before PayPal is asked.
CancelAll ==
    /\ db' = [c \in Contracts |->
                 [db[c] EXCEPT !.stop = db[c].request # "none",
                               !.cancel_requested = db[c].status # "none",
                               !.check = @ \/ db[c].status \in Live]]
    /\ paypal' = [c \in Contracts |-> [paypal[c] EXCEPT !.before = paypal[c].status # "none"]]
    /\ cancelling' = TRUE
    /\ UNCHANGED <<current, finishing, stopping>>

CancelPass ==
    \E f \in Outcomes({c \in Contracts : CancelPending(db[c])}, CancelResults) : Store(f)

\* cancel_all, second transaction.
CancelAllFinish ==
    /\ cancelling
    /\ cancelling' = FALSE
    /\ CancelPass
    /\ UNCHANGED <<current, finishing, stopping>>

\* The job selects rows by next_check_at, which a checkout's row keeps.
Due(row) == RequestPending(row) \/ (ContractPending(row) /\ row.check)

\* reconcile_cancellations, for this account.
Reconcile ==
    /\ \E c \in Contracts : Due(db[c])
    /\ CancelPass
    /\ UNCHANGED <<current, finishing, stopping, cancelling>>

-----------------------------------------------------------------------------
(* Choosing the current contract.                                            *)

\* Mutant: a contract from before the cancellation is accepted after it.
OverdueNever(c) == FALSE

\* Another live contract is current; now is its status.
IsSecond(c, row, now) == row.status \in Live /\ current \notin {Nobody, c} /\ now \in Live

Overdue(c) == paypal[c].before

\* select_contract for the row of c, and the end of its transaction; the creation
\* times of two contracts are not kept, so a webhook may find c newer or older.
Select(c, row, explicit) ==
    \E now \in IF current \in {Nobody, c} THEN {"none"}
               ELSE IF row.status \in Live /\ db[current].status \in Live
               THEN Updates(db[current].status, paypal[current])
               ELSE {db[current].status},
       newer \in {explicit, TRUE} :
        LET refused == Overdue(c) \/ IsSecond(c, row, now)
            asked == [row EXCEPT !.cancel_requested = @ \/ refused,
                                 !.check = @ \/ (refused /\ row.status \in Live)]
        IN  /\ db' = [d \in Contracts |->
                         IF d = c THEN asked
                         ELSE IF d = current THEN [db[d] EXCEPT !.status = now] ELSE db[d]]
            /\ stopping' = IF ContractPending(asked) THEN stopping \cup {c} ELSE stopping
            /\ current' = IF /\ ~asked.cancel_requested
                             /\ \/ current \in {Nobody, c}
                                \/ row.status \in Live /\ now \notin Live /\ newer
                          THEN c ELSE current

\* The transaction in which select_contract cancels the contract it refused.
StopContract(c) ==
    /\ c \in stopping
    /\ stopping' = stopping \ {c}
    /\ \E r \in ContractResults(db[c], paypal[c]) : Store([d \in {c} |-> r])
    /\ UNCHANGED <<current, finishing, cancelling>>

-----------------------------------------------------------------------------
(* Checkout and approval.                                                    *)

\* Recover every creation and look up every live contract.
Refreshed(row, contract) ==
    UNION {IF r.row.status \in Live
           THEN {[r EXCEPT !.row.status = status] : status \in Updates(r.row.status, r.contract)}
           ELSE {r} : r \in Recovered(row, contract)}

Unused(q) == db[q] = NoRow /\ paypal[q] = NoContract

\* create_checkout, first transaction, when PayPal answers: it opens a new
\* checkout only if no contract is live.
CheckoutBegin ==
    /\ \A c \in Contracts : ~CancelPending(db[c])
    /\ \E f \in Outcomes(Contracts, Refreshed) :
        LET live == {c \in Contracts : f[c].row.status \in Live} IN
        \/ /\ Cardinality(live) > 1
           /\ Store(f)
           /\ UNCHANGED <<current, finishing>>
        \/ \E c \in live :
              /\ live = {c}
              /\ Store(f)
              /\ current' = IF f[c].row.status = "ACTIVE" THEN c ELSE current
              /\ finishing' \in IF f[c].row.status = "ACTIVE" THEN {finishing}
                                ELSE {finishing, finishing \cup {c}}
        \/ /\ live = {}
           /\ \E q \in Requests :
                 /\ Unused(q)
                 /\ Store([f EXCEPT ![q].row.request = "open"])
                 /\ finishing' = finishing \cup {q}
           /\ UNCHANGED current
    /\ UNCHANGED <<stopping, cancelling>>

\* create_checkout, second transaction; the answer of PayPal may be RolledBack.
CheckoutFinish(c) ==
    /\ c \in finishing
    /\ finishing' = finishing \ {c}
    /\ \E r \in Recovered(db[c], paypal[c]) :
          /\ Select(c, r.row, TRUE)
          /\ paypal' = [paypal EXCEPT ![c] = r.contract]
    /\ UNCHANGED cancelling

\* A webhook about the contract, or the buyer's return from the approval page
\* (explicit), which only goes on with an ACTIVE contract.
Learn(c, explicit) ==
    /\ paypal[c].status # "none"
    /\ \E status \in IF explicit /\ paypal[c].activated THEN {Apply(db[c].status, "ACTIVE", TRUE)}
                     ELSE IF explicit THEN {} ELSE Updates(db[c].status, paypal[c]) :
          Select(c, [db[c] EXCEPT !.status = status], explicit)
    /\ UNCHANGED <<paypal, finishing, cancelling>>

-----------------------------------------------------------------------------
(* PayPal, time and crashes.                                                 *)

Approve(c) ==
    /\ paypal[c].status = "APPROVAL_PENDING"
    /\ paypal' = [paypal EXCEPT ![c].status = "ACTIVE", ![c].activated = TRUE]
    /\ UNCHANGED <<db, current, finishing, stopping, cancelling>>

\* Cancelled at PayPal, expired or never approved.
End(c) ==
    /\ paypal[c].status \in Live
    /\ paypal' = [paypal EXCEPT ![c] = Ended(@)]
    /\ UNCHANGED <<db, current, finishing, stopping, cancelling>>

\* PayPal has created or ended the contract, and the transaction is lost.
RolledBack(c) ==
    /\ \/ db[c].request = "open" /\ paypal' = [paypal EXCEPT ![c] = Created(@)]
       \/ ContractPending(db[c]) /\ paypal' = [paypal EXCEPT ![c] = Ended(@)]
    /\ UNCHANGED <<db, current, finishing, stopping, cancelling>>

\* 71 hours have passed since the checkout.
WindowCloses(c) ==
    /\ db[c].request = "open"
    /\ db' = [db EXCEPT ![c].request = "closed"]
    /\ UNCHANGED <<paypal, current, finishing, stopping, cancelling>>

\* 72 hours have passed.
PayPalForgets(c) ==
    /\ db[c].request = "closed"
    /\ paypal[c].remembered
    /\ paypal' = [paypal EXCEPT ![c].remembered = FALSE]
    /\ UNCHANGED <<db, current, finishing, stopping, cancelling>>

-----------------------------------------------------------------------------

CancelStep == CancelAll \/ CancelAllFinish \/ Reconcile \/ \E c \in Contracts : StopContract(c)

CheckoutStep ==
    \/ CheckoutBegin
    \/ \E c \in Contracts : CheckoutFinish(c)
    \/ \E c \in Contracts, explicit \in BOOLEAN : Learn(c, explicit)

PayPalStep ==
    \E c \in Contracts : Approve(c) \/ End(c) \/ RolledBack(c) \/ WindowCloses(c) \/ PayPalForgets(c)

Next == CancelStep \/ CheckoutStep \/ PayPalStep

Spec == Init /\ [][Next]_vars

\* The job runs every minute, and PayPal answers each cancellation sooner or later.
FairSpec ==
    Spec /\ \A c \in Contracts :
        SF_vars(CancelPending(db[c]) /\ Reconcile /\ db'[c].status = "CANCELLED")

-----------------------------------------------------------------------------
(* Properties.                                                               *)

\* A contract the account shows as cancelled does not go on charging: "Never
\* report uncertain success" (subscription_lifecycle.py:156).
CancelledIsOver ==
    \A c \in Contracts : db[c].status = "CANCELLED" => paypal[c].status = "CANCELLED"

\* Timeouts, retries and webhooks: one checkout creates one contract.
CreatedAtMostOnce == \A c \in Contracts : paypal[c].created <= 1

\* "Never displace another live contract" (subscription_lifecycle.py:206): the
\* current contract is exchanged only when PayPal has ended it.
LiveIsNotDisplaced ==
    [][current' # current /\ current # Nobody => paypal[current].status = "CANCELLED"]_vars

\* A contract from before the last cancellation, even one the account learns of
\* later, is to be cancelled (subscription_lifecycle.py:206).
CancellationCoversEarlier ==
    \A c \in Contracts : paypal[c].before /\ db[c].status \in Live => db[c].cancel_requested

\* The wish to cancel outlives crashes, retries and the merge of two rows.
IntentIsKept ==
    [][\A c \in Contracts :
          CancelPending(db[c]) => CancelPending(db'[c]) \/ db'[c].status = "CANCELLED"]_vars

\* A contract that is scheduled to be checked is cancelled in the end, however
\* often PayPal times out and whatever webhooks say meanwhile.
ScheduledIsCancelled == \A c \in Contracts : db[c].check ~> db[c].status = "CANCELLED"

\* "Cancellation is not yet confirmed by PayPal; we will keep retrying"
\* (subscription_lifecycle.py:201): a contract that is to be cancelled, and that
\* nobody is about to cancel, is one that the job will look at.
PendingIsScheduled ==
    \A c \in Contracts : ContractPending(db[c]) => db[c].check

=============================================================================
