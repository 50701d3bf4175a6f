--------------------------- MODULE SubscriptionProofs ---------------------------
(***************************************************************************)
(* For any number of checkouts and approvals: what is shown as cancelled   *)
(* is over at PayPal, a checkout creates one contract, a cancellation      *)
(* covers what was there before it and is not forgotten, and a live        *)
(* contract is not displaced.                                              *)
(*                                                                         *)
(* Nearly all of it is about one row and its contract.  Sound says what    *)
(* holds of such a pair: above all that a creation which may still be      *)
(* replayed is one that PayPal remembers, and that a checkout's row is to  *)
(* be cancelled when its contract is from before the cancellation.  Each   *)
(* operator that turns a pair into another is shown to keep Sound, and     *)
(* the wish to cancel (Keeps); then each transaction keeps it of every     *)
(* pair.                                                                   *)
(***************************************************************************)
EXTENDS SubscriptionLifecycle, TLAPS

-----------------------------------------------------------------------------
(* One row and one contract.                                                 *)

\* The row is right about the contract, and its creation is not repeated.
Truthful(row, contract) ==
    /\ row \in Row /\ contract \in Contract
    /\ row.stop => row.request # "none"
    /\ row.status = "CANCELLED" => contract.status = "CANCELLED"
    /\ row.status # "none" => contract.status # "none"
    /\ contract.created = IF contract.status = "none" THEN 0 ELSE 1
    /\ row.request = "open" => contract.status = "none" \/ contract.remembered
    /\ contract.before /\ row.request # "none" => row.stop

Covered(row, contract) == contract.before /\ row.status \in Live => row.cancel_requested

Sound(row, contract) == Truthful(row, contract) /\ Covered(row, contract)

\* The wish to cancel is kept or fulfilled, and what is known stays known.
Keeps(row, after) ==
    /\ CancelPending(row) => CancelPending(after) \/ after.status = "CANCELLED"
    /\ row.status # "none" => after.status # "none"
    /\ row.request # "none" => after.request # "none" \/ after.status # "none"

\* What PayPal answers about a contract that exists.
LEMMA UpdatesAreTrue ==
  ASSUME NEW status \in Statuses \cup {"none"}, NEW contract \in Contract, contract.status # "none",
         status = "CANCELLED" => contract.status = "CANCELLED",
         NEW now \in Updates(status, contract)
  PROVE  now \in Statuses /\ (now = "CANCELLED" => contract.status = "CANCELLED")
BY DEF Updates, Apply, Reported, Statuses, Live, Contract

LEMMA EndedKeepsSound ==
  ASSUME NEW row, NEW contract, Sound(row, contract), contract.status # "none"
  PROVE  Sound(row, Ended(contract)) /\ Ended(contract).status = "CANCELLED"
BY DEF Sound, Truthful, Covered, Ended, Contract, Statuses, Live

LEMMA CreatedKeepsSound ==
  ASSUME NEW row, NEW contract, Sound(row, contract), MayReplay(row)
  PROVE  /\ Sound(row, Created(contract))
         /\ Created(contract).status # "none"
         /\ Created(contract).before => row.stop
         /\ Created(contract).status = "CANCELLED" => contract.status = "CANCELLED"
BY DEF Sound, Truthful, Covered, MayReplay, Created, NewContract, Contract, Statuses, Live

LEMMA MergedKeepsSound ==
  ASSUME NEW row, NEW contract, Sound(row, contract), row.request # "none",
         NEW status \in Statuses, contract.status # "none",
         status = "CANCELLED" => contract.status = "CANCELLED"
  PROVE  /\ Sound(Merged(row, status), contract)
         /\ Keeps(row, Merged(row, status))
         /\ Merged(row, status).status # "none"
BY DEF Sound, Truthful, Covered, Keeps, Merged, Row, Statuses, Live, CancelPending, RequestPending, ContractPending

LEMMA RecoveredKeepsSound ==
  ASSUME NEW row, NEW contract, Sound(row, contract), NEW r \in Recovered(row, contract)
  PROVE  /\ Sound(r.row, r.contract) /\ Keeps(row, r.row)
         /\ row.request # "none" => r.row.status # "none"
         /\ r.contract.status = "CANCELLED" => contract.status = "CANCELLED"
         /\ r.contract.before => contract.before
<1>1. CASE row.request = "none"
  BY <1>1 DEF Recovered, Keeps
<1>2. CASE row.request # "none"
  <2>1. PICK status \in Updates(row.status, Created(contract)) :
            MayReplay(row) /\ r = [row |-> Merged(row, status), contract |-> Created(contract)]
    BY <1>2 DEF Recovered
  <2>2. /\ Sound(row, Created(contract)) /\ Created(contract).status # "none"
        /\ Created(contract).status = "CANCELLED" => contract.status = "CANCELLED"
    BY <2>1, CreatedKeepsSound
  <2>3. status \in Statuses /\ (status = "CANCELLED" => Created(contract).status = "CANCELLED")
    BY <2>2, UpdatesAreTrue DEF Sound, Truthful, Covered, Row
  <2>4. /\ Sound(Merged(row, status), Created(contract)) /\ Keeps(row, Merged(row, status))
        /\ Merged(row, status).status # "none"
    BY <1>2, <2>2, <2>3, MergedKeepsSound
  <2>5. Created(contract).before => contract.before
    BY DEF Created, NewContract
  <2> QED BY <2>1, <2>2, <2>4, <2>5
<1> QED BY <1>1, <1>2

LEMMA ContractResultsKeepSound ==
  ASSUME NEW row, NEW contract, Sound(row, contract), NEW r \in ContractResults(row, contract)
  PROVE  Sound(r.row, r.contract) /\ Keeps(row, r.row)
<1>1. CASE row.status \notin Live \/ ~row.cancel_requested
  BY <1>1 DEF ContractResults, Keeps
<1>2. CASE row.status \in Live /\ row.cancel_requested
  <2>1. contract.status # "none" /\ contract \in Contract /\ row \in Row
    BY <1>2 DEF Sound, Truthful, Covered, Live
  <2>2. Sound(row, Ended(contract)) /\ Ended(contract).status = "CANCELLED"
    BY <2>1, EndedKeepsSound
  <2>3. ASSUME r \in Unconfirmed(row, contract)
        PROVE  Sound(r.row, r.contract) /\ Keeps(row, r.row)
    <3>1. PICK status \in {row.status} \cup (Updates(row.status, contract) \cap Live),
               after \in {contract, Ended(contract)} :
              r = [row |-> Rechecked(row, status), contract |-> after]
      BY <2>3 DEF Unconfirmed
    <3>2. status \in Live
      BY <1>2, <3>1
    <3>3. Sound(row, after) /\ after.status # "none"
      BY <2>1, <2>2, <3>1
    <3>4. Sound(Rechecked(row, status), after)
      BY <1>2, <3>2, <3>3 DEF Rechecked, Sound, Truthful, Covered, Row, Live, Statuses
    <3>5. Keeps(row, Rechecked(row, status))
      BY <1>2, <2>1, <3>2 DEF Rechecked, Keeps, Row, Live, CancelPending, ContractPending
    <3> QED BY <3>1, <3>4, <3>5
  <2>4. ASSUME r = [row |-> [row EXCEPT !.status = "CANCELLED", !.check = FALSE],
                    contract |-> Ended(contract)]
        PROVE  Sound(r.row, r.contract) /\ Keeps(row, r.row)
    <3>1. Sound([row EXCEPT !.status = "CANCELLED", !.check = FALSE], Ended(contract))
      BY <2>2 DEF Sound, Truthful, Covered, Row, Live, Statuses
    <3>2. Keeps(row, [row EXCEPT !.status = "CANCELLED", !.check = FALSE])
      BY <2>1 DEF Keeps, Row
    <3> QED BY <2>4, <3>1, <3>2
  <2> QED BY <1>2, <2>3, <2>4 DEF ContractResults
<1> QED BY <1>1, <1>2

LEMMA RequestResultsKeepSound ==
  ASSUME NEW row, NEW contract, Sound(row, contract), NEW r \in RequestResults(row, contract)
  PROVE  Sound(r.row, r.contract) /\ Keeps(row, r.row)
<1>1. CASE r = [row |-> row, contract |-> contract]
  BY <1>1 DEF Keeps
<1>2. CASE r \in Recovered(row, contract)
  BY <1>2, RecoveredKeepsSound
<1>3. CASE MayReplay(row) /\ r = [row |-> row, contract |-> Created(contract)]
  BY <1>3, CreatedKeepsSound DEF Keeps
<1> QED BY <1>1, <1>2, <1>3 DEF RequestResults

LEMMA CancelResultsKeepSound ==
  ASSUME NEW row, NEW contract, Sound(row, contract), NEW r \in CancelResults(row, contract)
  PROVE  Sound(r.row, r.contract) /\ Keeps(row, r.row)
<1>1. PICK s \in RequestResults(row, contract) : r \in ContractResults(s.row, s.contract)
  BY DEF CancelResults
<1>2. Sound(s.row, s.contract) /\ Keeps(row, s.row)
  BY RequestResultsKeepSound
<1>3. Sound(r.row, r.contract) /\ Keeps(s.row, r.row)
  BY <1>1, <1>2, ContractResultsKeepSound
<1>4. s.row.status = "CANCELLED" => r.row.status = "CANCELLED"
  BY <1>1 DEF ContractResults, Live
<1> QED BY <1>2, <1>3, <1>4 DEF Keeps

LEMMA RefreshedKeepsSound ==
  ASSUME NEW row, NEW contract, Sound(row, contract), NEW r \in Refreshed(row, contract)
  PROVE  /\ Sound(r.row, r.contract)
         /\ row.status # "none" \/ row.request # "none" => r.row.status # "none"
         /\ r.contract.status = "CANCELLED" => contract.status = "CANCELLED"
<1>1. PICK s \in Recovered(row, contract) :
          r \in IF s.row.status \in Live
                THEN {[s EXCEPT !.row.status = status] : status \in Updates(s.row.status, s.contract)}
                ELSE {s}
  BY DEF Refreshed
<1>2. /\ Sound(s.row, s.contract) /\ Keeps(row, s.row)
      /\ row.request # "none" => s.row.status # "none"
      /\ s.contract.status = "CANCELLED" => contract.status = "CANCELLED"
  BY RecoveredKeepsSound
<1>3. CASE s.row.status \notin Live
  BY <1>1, <1>2, <1>3 DEF Keeps
<1>4. CASE s.row.status \in Live
  <2>1. PICK status \in Updates(s.row.status, s.contract) : r = [s EXCEPT !.row.status = status]
    BY <1>1, <1>4
  <2>2. s = [row |-> s.row, contract |-> s.contract]
    BY DEF Recovered
  <2>3. r.row = [s.row EXCEPT !.status = status] /\ r.contract = s.contract
    BY <2>1, <2>2
  <2>4. status \in Statuses /\ (status = "CANCELLED" => s.contract.status = "CANCELLED")
    BY <1>2, <1>4, UpdatesAreTrue DEF Sound, Truthful, Covered, Row, Live
  <2>5. Sound(r.row, r.contract) /\ r.row.status # "none"
    BY <1>2, <1>4, <2>3, <2>4 DEF Sound, Truthful, Covered, Row, Live, Statuses
  <2> QED BY <1>2, <2>3, <2>5
<1> QED BY <1>3, <1>4

-----------------------------------------------------------------------------
(* Transactions.                                                             *)

SubscriptionInv ==
    /\ db \in [Contracts -> Row] /\ paypal \in [Contracts -> Contract]
    /\ current \in Contracts \cup {Nobody}
    /\ finishing \subseteq Contracts /\ stopping \subseteq Contracts /\ cancelling \in BOOLEAN
    /\ \A c \in Contracts : Sound(db[c], paypal[c])
    /\ current # Nobody => db[current].status # "none"
    /\ \A c \in finishing : db[c].request # "none" \/ db[c].status # "none"

\* What every transaction does to every pair.
PairsKept ==
    /\ db' \in [Contracts -> Row] /\ paypal' \in [Contracts -> Contract]
    /\ \A c \in Contracts : Sound(db'[c], paypal'[c]) /\ Keeps(db[c], db'[c])

\* What it may do to the current contract and to what is left to do.
ChoiceKept ==
    /\ \/ current' = current
       \/ /\ current' \in Contracts /\ db'[current'].status # "none"
          /\ current # Nobody => paypal[current].status = "CANCELLED"
    /\ stopping' \subseteq Contracts /\ cancelling' \in BOOLEAN
    /\ finishing' \subseteq Contracts
    /\ \A c \in finishing' :
        c \in finishing \/ db'[c].request # "none" \/ db'[c].status # "none"

LEMMA SoundPairsAreTyped ==
  ASSUME NEW row, NEW contract, Sound(row, contract)
  PROVE  row \in Row /\ contract \in Contract
BY DEF Sound, Truthful

LEMMA StoreKeeps ==
  ASSUME SubscriptionInv, NEW S \in SUBSET Contracts, NEW f, DOMAIN f = S, Store(f),
         \A c \in S : Sound(f[c].row, f[c].contract) /\ Keeps(db[c], f[c].row)
  PROVE  /\ PairsKept
         /\ \A c \in S : db'[c] = f[c].row
<1>1. ASSUME NEW c \in Contracts
      PROVE  Sound(db'[c], paypal'[c]) /\ Keeps(db[c], db'[c])
  <2>1. CASE c \in S
    BY <2>1 DEF Store
  <2>2. CASE c \notin S
    BY <2>2 DEF Store, SubscriptionInv, Keeps
  <2> QED BY <2>1, <2>2
<1>2. \A c \in Contracts : db'[c] \in Row /\ paypal'[c] \in Contract
  BY <1>1, SoundPairsAreTyped
<1>3. db' \in [Contracts -> Row] /\ paypal' \in [Contracts -> Contract]
  BY <1>2 DEF Store
<1> QED BY <1>1, <1>3 DEF PairsKept, Store

LEMMA CancelPassKeeps ==
  ASSUME SubscriptionInv, CancelPass
  PROVE  PairsKept
<1> DEFINE S == {c \in Contracts : CancelPending(db[c])}
<1>1. PICK f \in Outcomes(S, CancelResults) : Store(f)
  BY DEF CancelPass
<1>2. DOMAIN f = S /\ \A c \in S : f[c] \in CancelResults(db[c], paypal[c])
  BY DEF Outcomes
<1>3. \A c \in S : Sound(f[c].row, f[c].contract) /\ Keeps(db[c], f[c].row)
  BY <1>2, CancelResultsKeepSound DEF SubscriptionInv
<1> QED BY <1>1, <1>2, <1>3, StoreKeeps

LEMMA CancelAllKeeps ==
  ASSUME SubscriptionInv, CancelAll
  PROVE  PairsKept
<1> DEFINE row(c) == [db[c] EXCEPT !.stop = db[c].request # "none",
                                   !.cancel_requested = db[c].status # "none",
                                   !.check = @ \/ db[c].status \in Live]
           contract(c) == [paypal[c] EXCEPT !.before = paypal[c].status # "none"]
<1>1. ASSUME NEW c \in Contracts
      PROVE  Sound(row(c), contract(c)) /\ Keeps(db[c], row(c))
  <2>1. Sound(db[c], paypal[c])
    BY DEF SubscriptionInv
  <2>2. row(c) \in Row /\ contract(c) \in Contract
    BY <2>1 DEF Sound, Truthful, Row, Contract
  <2>3. Sound(row(c), contract(c))
    BY <2>1, <2>2 DEF Sound, Truthful, Covered, Row, Contract, Live
  <2>4. Keeps(db[c], row(c))
    BY <2>1 DEF Sound, Truthful, Keeps, CancelPending, RequestPending, ContractPending, Row, Live
  <2> QED BY <2>3, <2>4
<1>2. /\ db' = [c \in Contracts |-> row(c)]
      /\ paypal' = [c \in Contracts |-> contract(c)]
  BY DEF CancelAll
<1>3. \A c \in Contracts : row(c) \in Row /\ contract(c) \in Contract
  BY <1>1, SoundPairsAreTyped
<1> HIDE DEF row, contract
<1> QED BY <1>1, <1>2, <1>3 DEF PairsKept

\* The account's choice of a contract, and the change of its row that comes with it.
LEMMA SelectKeeps ==
  ASSUME SubscriptionInv, NEW c \in Contracts, NEW row, NEW contract, NEW explicit \in BOOLEAN,
         Truthful(row, contract), Keeps(db[c], row), row.status # "none",
         contract.before => paypal[c].before,
         paypal' = [paypal EXCEPT ![c] = contract], Select(c, row, explicit)
  PROVE  /\ PairsKept
         /\ stopping' \subseteq Contracts
         /\ \/ current' = current
            \/ /\ current' \in Contracts /\ db'[current'].status # "none"
               /\ current # Nobody => paypal[current].status = "CANCELLED"
<1> DEFINE Nows == IF current \in {Nobody, c} THEN {"none"}
                   ELSE IF row.status \in Live /\ db[current].status \in Live
                   THEN Updates(db[current].status, paypal[current])
                   ELSE {db[current].status}
           refused(now) == Overdue(c) \/ IsSecond(c, row, now)
           asked(now) == [row EXCEPT !.cancel_requested = @ \/ refused(now),
                                     !.check = @ \/ (refused(now) /\ row.status \in Live)]
<1>1. PICK now \in Nows, newer \in {explicit, TRUE} :
        /\ db' = [d \in Contracts |->
                     IF d = c THEN asked(now)
                     ELSE IF d = current THEN [db[d] EXCEPT !.status = now] ELSE db[d]]
        /\ stopping' = IF ContractPending(asked(now)) THEN stopping \cup {c} ELSE stopping
        /\ current' = IF /\ ~asked(now).cancel_requested
                         /\ \/ current \in {Nobody, c}
                            \/ row.status \in Live /\ now \notin Live /\ newer
                      THEN c ELSE current
  BY DEF Select
<1>2. /\ row \in Row /\ refused(now) \in BOOLEAN
      /\ (contract.before => refused(now))
  BY DEF Overdue, Truthful, IsSecond
<1>3. /\ asked(now) \in Row /\ asked(now).request = row.request /\ asked(now).stop = row.stop
      /\ asked(now).status = row.status
      /\ asked(now).cancel_requested = (row.cancel_requested \/ refused(now))
  BY <1>2 DEF Row
<1> HIDE DEF asked, refused
<1>4. Sound(asked(now), contract)
  BY <1>2, <1>3 DEF Sound, Truthful, Covered
<1>5. Keeps(db[c], asked(now))
  BY <1>3 DEF Keeps, CancelPending, RequestPending, ContractPending
<1>6. ASSUME current \in Contracts, current # c
      PROVE  /\ now \in Statuses /\ (now = "CANCELLED" => paypal[current].status = "CANCELLED")
             /\ now \in Live => db[current].status \in Live
             /\ Sound([db[current] EXCEPT !.status = now], paypal[current])
             /\ Keeps(db[current], [db[current] EXCEPT !.status = now])
  <2>1. Sound(db[current], paypal[current]) /\ db[current].status # "none" /\ current # Nobody
    BY <1>6, ContractAssumption DEF SubscriptionInv
  <2>2. CASE now \in Updates(db[current].status, paypal[current]) /\ db[current].status \in Live
    <3>1. now \in Statuses /\ (now = "CANCELLED" => paypal[current].status = "CANCELLED")
      BY <2>1, <2>2, UpdatesAreTrue DEF Sound, Truthful, Row, Live
    <3> QED BY <2>1, <2>2, <3>1 DEF Sound, Truthful, Covered, Keeps, Row, Live, Statuses,
            CancelPending, RequestPending, ContractPending
  <2>3. CASE now = db[current].status
    <3>1. [db[current] EXCEPT !.status = now] = db[current]
      BY <2>1, <2>3 DEF Sound, Truthful, Row
    <3> QED BY <2>1, <2>3, <3>1 DEF Sound, Truthful, Keeps, Row
  <2> QED BY <1>1, <1>6, <2>1, <2>2, <2>3
<1>7. ASSUME NEW d \in Contracts
      PROVE  Sound(db'[d], paypal'[d]) /\ Keeps(db[d], db'[d])
  <2>1. CASE d = c
    BY <1>1, <1>4, <1>5, <2>1 DEF SubscriptionInv
  <2>2. CASE d # c /\ d = current
    BY <1>1, <1>6, <2>2 DEF SubscriptionInv
  <2>3. CASE d # c /\ d # current
    BY <1>1, <2>3 DEF SubscriptionInv, Keeps
  <2> QED BY <2>1, <2>2, <2>3
<1>8. PairsKept
  <2>1. \A d \in Contracts : db'[d] \in Row /\ paypal'[d] \in Contract
    BY <1>7, SoundPairsAreTyped
  <2>2. db' \in [Contracts -> Row] /\ paypal' \in [Contracts -> Contract]
    BY <1>1, <2>1 DEF SubscriptionInv
  <2> QED BY <1>7, <2>2 DEF PairsKept
<1>9. ASSUME current' # current
      PROVE  /\ current' = c /\ db'[c].status # "none"
             /\ current # Nobody => paypal[current].status = "CANCELLED"
  <2>1. current' = c /\ current # c
    BY <1>1, <1>9
  <2>2. db'[c].status # "none"
    BY <1>1, <1>3
  <2>3. ASSUME current # Nobody
        PROVE  paypal[current].status = "CANCELLED"
    <3>1. now \notin Live /\ current \in Contracts
      BY <1>1, <1>9, <2>1, <2>3 DEF SubscriptionInv
    <3> QED BY <1>6, <2>1, <3>1 DEF Statuses
  <2> QED BY <2>1, <2>2, <2>3
<1> QED BY <1>1, <1>8, <1>9 DEF SubscriptionInv

\* The checkout's first transaction: every row is looked up, and one may be opened.
LEMMA CheckoutBeginKeeps ==
  ASSUME SubscriptionInv, CheckoutBegin
  PROVE  PairsKept /\ ChoiceKept
<1>1. PICK f \in Outcomes(Contracts, Refreshed) :
        LET live == {c \in Contracts : f[c].row.status \in Live} IN
        \/ /\ Cardinality(live) > 1
           /\ Store(f)
           /\ UNCHANGED <<current, finishing>>
        \/ \E c \in live :
              /\ live = {c}
              /\ Store(f)
              /\ current' = IF f[c].row.status = "ACTIVE" THEN c ELSE current
              /\ finishing' \in IF f[c].row.status = "ACTIVE" THEN {finishing}
                                ELSE {finishing, finishing \cup {c}}
        \/ /\ live = {}
           /\ \E q \in Requests :
                 /\ Unused(q)
                 /\ Store([f EXCEPT ![q].row.request = "open"])
                 /\ finishing' = finishing \cup {q}
           /\ UNCHANGED current
  BY DEF CheckoutBegin
<1>2. /\ f \in [Contracts -> UNION {Refreshed(db[c], paypal[c]) : c \in Contracts}]
      /\ \A c \in Contracts : f[c] \in Refreshed(db[c], paypal[c])
  BY DEF Outcomes
<1>3. ASSUME NEW c \in Contracts
      PROVE  /\ Sound(f[c].row, f[c].contract) /\ Keeps(db[c], f[c].row)
             /\ f[c].contract.status = "CANCELLED" => paypal[c].status = "CANCELLED"
             /\ db[c].status # "none" => f[c].row.status # "none"
  <2>1. Sound(db[c], paypal[c]) /\ ~CancelPending(db[c])
    BY DEF SubscriptionInv, CheckoutBegin
  <2>2. /\ Sound(f[c].row, f[c].contract)
        /\ db[c].status # "none" \/ db[c].request # "none" => f[c].row.status # "none"
        /\ f[c].contract.status = "CANCELLED" => paypal[c].status = "CANCELLED"
    BY <1>2, <2>1, RefreshedKeepsSound
  <2> QED BY <2>1, <2>2 DEF Keeps
<1>4. UNCHANGED <<stopping, cancelling>>
  BY DEF CheckoutBegin
<1>5. ASSUME Store(f)
      PROVE  PairsKept /\ \A c \in Contracts : db'[c] = f[c].row
  BY <1>2, <1>3, <1>5, StoreKeeps
<1>6. CASE Store(f) /\ UNCHANGED <<current, finishing>>
  BY <1>4, <1>5, <1>6 DEF ChoiceKept, SubscriptionInv
<1>7. ASSUME NEW c \in Contracts, f[c].row.status \in Live,
             \A d \in Contracts : f[d].row.status \in Live => d = c,
             Store(f),
             current' = IF f[c].row.status = "ACTIVE" THEN c ELSE current,
             finishing' \subseteq finishing \cup {c}
      PROVE  PairsKept /\ ChoiceKept
  <2>1. PairsKept /\ db'[c].status # "none"
    BY <1>5, <1>7 DEF Live
  <2>2. ASSUME current # Nobody, current # c
        PROVE  paypal[current].status = "CANCELLED"
    <3>1. current \in Contracts /\ f[current].row.status \notin Live /\ f[current].row.status # "none"
      BY <1>3, <1>7, <2>2 DEF SubscriptionInv
    <3>2. f[current].row.status = "CANCELLED"
      BY <1>3, <3>1 DEF Sound, Truthful, Row, Statuses
    <3> QED BY <1>3, <3>1, <3>2 DEF Sound, Truthful
  <2>3. finishing' \subseteq Contracts
        /\ \A d \in finishing' : d \in finishing \/ db'[d].status # "none"
    BY <1>7, <2>1 DEF SubscriptionInv
  <2> QED BY <1>4, <1>7, <2>1, <2>2, <2>3 DEF ChoiceKept, SubscriptionInv
<1>8. ASSUME NEW q \in Requests, Unused(q), Store([f EXCEPT ![q].row.request = "open"]),
             finishing' = finishing \cup {q}, UNCHANGED current
      PROVE  PairsKept /\ ChoiceKept
  <2> DEFINE g == [f EXCEPT ![q].row.request = "open"]
  <2>1. q \in Contracts /\ f[q] \in Refreshed(NoRow, NoContract)
    BY <1>2, <1>8 DEF Unused, Contracts
  <2>2. f[q] = [row |-> NoRow, contract |-> NoContract]
    <3>1. NoRow.request = "none" /\ NoRow.status \notin Live
      BY DEF NoRow, Live
    <3>2. PICK r \in Recovered(NoRow, NoContract) :
              f[q] \in IF r.row.status \in Live
                       THEN {[r EXCEPT !.row.status = status] :
                                status \in Updates(r.row.status, r.contract)}
                       ELSE {r}
      BY <2>1 DEF Refreshed
    <3>3. r = [row |-> NoRow, contract |-> NoContract]
      BY <3>1, <3>2 DEF Recovered
    <3>4. r.row.status \notin Live
      BY <3>1, <3>3
    <3> QED BY <3>2, <3>3, <3>4
  <2>3. g[q] = [row |-> [NoRow EXCEPT !.request = "open"], contract |-> NoContract]
    BY <1>2, <2>1, <2>2
  <2>4. DOMAIN g = Contracts /\ \A c \in Contracts : c # q => g[c] = f[c]
    BY <1>2
  <2>5. /\ Sound([NoRow EXCEPT !.request = "open"], NoContract)
        /\ Keeps(NoRow, [NoRow EXCEPT !.request = "open"])
    BY DEF Sound, Truthful, Covered, Keeps, NoRow, NoContract, Row, Contract, Statuses, Live,
           CancelPending, RequestPending, ContractPending
  <2> HIDE DEF g
  <2>6. \A c \in Contracts : Sound(g[c].row, g[c].contract) /\ Keeps(db[c], g[c].row)
    BY <1>3, <1>8, <2>3, <2>4, <2>5 DEF Unused
  <2>7. PairsKept /\ \A c \in Contracts : db'[c] = g[c].row
    <3>1. Store(g)
      BY <1>8 DEF g
    <3> QED BY <2>4, <2>6, <3>1, StoreKeeps
  <2>8. db'[q].request # "none"
    BY <2>1, <2>3, <2>7 DEF NoRow
  <2> QED BY <1>4, <1>8, <2>1, <2>7, <2>8 DEF ChoiceKept, SubscriptionInv
<1>9. CASE \E c \in Contracts :
              /\ {d \in Contracts : f[d].row.status \in Live} = {c}
              /\ Store(f)
              /\ current' = IF f[c].row.status = "ACTIVE" THEN c ELSE current
              /\ finishing' \in IF f[c].row.status = "ACTIVE" THEN {finishing}
                                ELSE {finishing, finishing \cup {c}}
  <2>1. PICK c \in Contracts :
              /\ {d \in Contracts : f[d].row.status \in Live} = {c}
              /\ Store(f)
              /\ current' = IF f[c].row.status = "ACTIVE" THEN c ELSE current
              /\ finishing' \in IF f[c].row.status = "ACTIVE" THEN {finishing}
                                ELSE {finishing, finishing \cup {c}}
    BY <1>9
  <2>2. f[c].row.status \in Live /\ \A d \in Contracts : f[d].row.status \in Live => d = c
    BY <2>1
  <2>3. finishing' \subseteq finishing \cup {c}
    BY <2>1
  <2> QED BY <1>7, <2>1, <2>2, <2>3
<1> QED BY <1>1, <1>6, <1>8, <1>9

\* One contract's steps, and PayPal's.
LEMMA ContractStepKeeps ==
  ASSUME SubscriptionInv, NEW c \in Contracts,
         \/ CheckoutFinish(c) \/ StopContract(c) \/ \E explicit \in BOOLEAN : Learn(c, explicit)
  PROVE  PairsKept /\ ChoiceKept
<1>1. Sound(db[c], paypal[c])
  BY DEF SubscriptionInv
<1>2. CASE CheckoutFinish(c)
  <2>1. PICK r \in Recovered(db[c], paypal[c]) :
          Select(c, r.row, TRUE) /\ paypal' = [paypal EXCEPT ![c] = r.contract]
    BY <1>2 DEF CheckoutFinish
  <2>2. /\ Sound(r.row, r.contract) /\ Keeps(db[c], r.row)
        /\ db[c].request # "none" => r.row.status # "none"
        /\ r.contract.before => paypal[c].before
    BY <1>1, RecoveredKeepsSound
  <2>3. r.row.status # "none"
    BY <1>2, <2>2 DEF CheckoutFinish, SubscriptionInv, Keeps
  <2>4. /\ PairsKept /\ stopping' \subseteq Contracts
        /\ \/ current' = current
           \/ /\ current' \in Contracts /\ db'[current'].status # "none"
              /\ current # Nobody => paypal[current].status = "CANCELLED"
    BY <2>1, <2>2, <2>3, SelectKeeps DEF Sound
  <2>5. finishing' \subseteq finishing /\ cancelling' = cancelling
    BY <1>2 DEF CheckoutFinish
  <2> QED BY <2>4, <2>5 DEF ChoiceKept, SubscriptionInv
<1>3. CASE StopContract(c)
  <2>1. PICK r \in ContractResults(db[c], paypal[c]) : Store([d \in {c} |-> r])
    BY <1>3 DEF StopContract
  <2>2. Sound(r.row, r.contract) /\ Keeps(db[c], r.row)
    BY <1>1, ContractResultsKeepSound
  <2>3. PairsKept
    BY <2>1, <2>2, StoreKeeps
  <2>4. stopping' \subseteq stopping /\ UNCHANGED <<current, finishing, cancelling>>
    BY <1>3 DEF StopContract
  <2> QED BY <2>3, <2>4 DEF ChoiceKept, SubscriptionInv
<1>4. ASSUME NEW explicit \in BOOLEAN, Learn(c, explicit)
      PROVE  PairsKept /\ ChoiceKept
  <2>1. PICK status \in {Apply(db[c].status, "ACTIVE", TRUE)} \cup Updates(db[c].status, paypal[c]) :
          Select(c, [db[c] EXCEPT !.status = status], explicit)
    BY <1>4 DEF Learn
  <2>2. paypal[c].status # "none" /\ UNCHANGED <<paypal, finishing, cancelling>>
    BY <1>4 DEF Learn
  <2>3. status \in Statuses /\ (status = "CANCELLED" => paypal[c].status = "CANCELLED")
    <3>1. CASE status = Apply(db[c].status, "ACTIVE", TRUE)
      BY <1>1, <3>1 DEF Apply, Sound, Truthful, Row, Statuses, Live
    <3>2. CASE status \in Updates(db[c].status, paypal[c])
      BY <1>1, <2>2, <3>2, UpdatesAreTrue DEF Sound, Truthful, Row
    <3> QED BY <2>1, <3>1, <3>2
  <2> DEFINE row == [db[c] EXCEPT !.status = status]
  <2>4. Truthful(row, paypal[c])
    BY <1>1, <2>2, <2>3 DEF Sound, Truthful, Row, Statuses
  <2>5. Keeps(db[c], row) /\ row.status # "none"
    BY <1>1, <2>3 DEF Sound, Truthful, Keeps, Row, Statuses, Live, CancelPending, RequestPending,
                      ContractPending
  <2>6. paypal' = [paypal EXCEPT ![c] = paypal[c]]
    BY <2>2 DEF SubscriptionInv
  <2> HIDE DEF row
  <2>7. /\ PairsKept /\ stopping' \subseteq Contracts
        /\ \/ current' = current
           \/ /\ current' \in Contracts /\ db'[current'].status # "none"
              /\ current # Nobody => paypal[current].status = "CANCELLED"
    BY <2>1, <2>4, <2>5, <2>6, SelectKeeps DEF row
  <2> QED BY <2>2, <2>7 DEF ChoiceKept, SubscriptionInv
<1> QED BY <1>2, <1>3, <1>4

LEMMA PayPalStepKeeps ==
  ASSUME SubscriptionInv, PayPalStep
  PROVE  PairsKept /\ ChoiceKept
<1>1. PICK c \in Contracts : Approve(c) \/ End(c) \/ RolledBack(c) \/ WindowCloses(c) \/ PayPalForgets(c)
  BY DEF PayPalStep
<1>2. Sound(db[c], paypal[c])
  BY DEF SubscriptionInv
<1>3. ChoiceKept
  BY <1>1 DEF Approve, End, RolledBack, WindowCloses, PayPalForgets, ChoiceKept, SubscriptionInv
<1>4. ASSUME NEW row, NEW contract, Sound(row, contract), Keeps(db[c], row),
             db' = [db EXCEPT ![c] = row], paypal' = [paypal EXCEPT ![c] = contract]
      PROVE  PairsKept
  <2>1. row \in Row /\ contract \in Contract
    BY <1>4, SoundPairsAreTyped
  <2>2. \A d \in Contracts : Keeps(db[d], db[d])
    BY DEF Keeps
  <2> QED BY <1>4, <2>1, <2>2 DEF PairsKept, SubscriptionInv
<1>5. Keeps(db[c], db[c]) /\ db = [db EXCEPT ![c] = db[c]] /\ paypal = [paypal EXCEPT ![c] = paypal[c]]
  BY DEF Keeps, SubscriptionInv
<1>6. ASSUME NEW contract, Sound(db[c], contract), UNCHANGED db, paypal' = [paypal EXCEPT ![c] = contract]
      PROVE  PairsKept
  BY <1>4, <1>5, <1>6
<1>7. CASE Approve(c)
  <2>1. Sound(db[c], [paypal[c] EXCEPT !.status = "ACTIVE", !.activated = TRUE])
    BY <1>2, <1>7 DEF Approve, Sound, Truthful, Covered, Contract, Statuses, Live
  <2>2. paypal' = [paypal EXCEPT ![c] = [paypal[c] EXCEPT !.status = "ACTIVE", !.activated = TRUE]]
    BY <1>7 DEF Approve, SubscriptionInv
  <2> QED BY <1>3, <1>6, <1>7, <2>1, <2>2 DEF Approve
<1>8. CASE End(c)
  <2>1. Sound(db[c], Ended(paypal[c]))
    BY <1>2, <1>8, EndedKeepsSound DEF End, Live
  <2> QED BY <1>3, <1>6, <1>8, <2>1 DEF End
<1>9. CASE RolledBack(c)
  <2>1. CASE db[c].request = "open" /\ paypal' = [paypal EXCEPT ![c] = Created(@)]
    <3>1. Sound(db[c], Created(paypal[c]))
      BY <1>2, <2>1, CreatedKeepsSound DEF MayReplay
    <3> QED BY <1>3, <1>6, <1>9, <2>1, <3>1 DEF RolledBack
  <2>2. CASE ContractPending(db[c]) /\ paypal' = [paypal EXCEPT ![c] = Ended(@)]
    <3>1. Sound(db[c], Ended(paypal[c]))
      BY <1>2, <2>2, EndedKeepsSound DEF ContractPending, Sound, Truthful, Live
    <3> QED BY <1>3, <1>6, <1>9, <2>2, <3>1 DEF RolledBack
  <2> QED BY <1>9, <2>1, <2>2 DEF RolledBack
<1>10. CASE WindowCloses(c)
  <2> DEFINE row == [db[c] EXCEPT !.request = "closed"]
  <2>1. Sound(row, paypal[c])
    BY <1>2, <1>10 DEF WindowCloses, Sound, Truthful, Covered, Row
  <2>2. Keeps(db[c], row)
    BY <1>2, <1>10 DEF WindowCloses, Sound, Truthful, Keeps, Row, CancelPending, RequestPending,
                       ContractPending
  <2>3. db' = [db EXCEPT ![c] = row] /\ paypal' = paypal
    BY <1>10 DEF WindowCloses, SubscriptionInv
  <2> QED BY <1>3, <1>4, <1>5, <2>1, <2>2, <2>3
<1>11. CASE PayPalForgets(c)
  <2>1. Sound(db[c], [paypal[c] EXCEPT !.remembered = FALSE])
    BY <1>2, <1>11 DEF PayPalForgets, Sound, Truthful, Covered, Contract
  <2>2. paypal' = [paypal EXCEPT ![c] = [paypal[c] EXCEPT !.remembered = FALSE]]
    BY <1>11 DEF PayPalForgets, SubscriptionInv
  <2> QED BY <1>3, <1>6, <1>11, <2>1, <2>2 DEF PayPalForgets
<1> QED BY <1>1, <1>3, <1>7, <1>8, <1>9, <1>10, <1>11

LEMMA StepKeeps ==
  ASSUME SubscriptionInv, [Next]_vars
  PROVE  PairsKept /\ ChoiceKept
<1>1. CASE CancelStep
  <2>1. CASE CancelAll
    BY <2>1, CancelAllKeeps DEF CancelAll, ChoiceKept, SubscriptionInv
  <2>2. CASE CancelAllFinish \/ Reconcile
    BY <2>2, CancelPassKeeps DEF CancelAllFinish, Reconcile, ChoiceKept, SubscriptionInv
  <2>3. CASE \E c \in Contracts : StopContract(c)
    BY <2>3, ContractStepKeeps
  <2> QED BY <1>1, <2>1, <2>2, <2>3 DEF CancelStep
<1>2. CASE CheckoutStep
  BY <1>2, CheckoutBeginKeeps, ContractStepKeeps DEF CheckoutStep
<1>3. CASE PayPalStep
  BY <1>3, PayPalStepKeeps
<1>4. CASE UNCHANGED vars
  BY <1>4 DEF vars, PairsKept, ChoiceKept, Keeps, SubscriptionInv
<1> QED BY <1>1, <1>2, <1>3, <1>4 DEF Next

-----------------------------------------------------------------------------
LEMMA SubscriptionInvInit == Init => SubscriptionInv
<1> SUFFICES ASSUME Init PROVE SubscriptionInv
  OBVIOUS
<1>1. ASSUME NEW c \in Contracts
      PROVE  Sound(db[c], paypal[c])
  <2>1. Sound(NoRow, NoContract) /\ Sound(NoRow, NewContract(1))
    BY DEF Sound, Truthful, Covered, NoRow, NoContract, NewContract, Row, Contract, Statuses, Live
  <2> QED BY <2>1 DEF Init
<1>2. \A c \in Contracts : db[c] \in Row /\ paypal[c] \in Contract
  BY <1>1, SoundPairsAreTyped
<1>3. db \in [Contracts -> Row] /\ paypal \in [Contracts -> Contract]
  BY <1>2 DEF Init
<1> QED BY <1>1, <1>3 DEF Init, SubscriptionInv

LEMMA SubscriptionInvStep == SubscriptionInv /\ [Next]_vars => SubscriptionInv'
<1> SUFFICES ASSUME SubscriptionInv, [Next]_vars PROVE SubscriptionInv'
  OBVIOUS
<1>1. PairsKept /\ ChoiceKept
  BY StepKeeps
<1>2. current' \in Contracts \cup {Nobody} /\ (current' # Nobody => db'[current'].status # "none")
  BY <1>1 DEF SubscriptionInv, PairsKept, ChoiceKept, Keeps
<1>3. \A c \in finishing' : db'[c].request # "none" \/ db'[c].status # "none"
  BY <1>1 DEF SubscriptionInv, PairsKept, ChoiceKept, Keeps
<1> QED BY <1>1, <1>2, <1>3 DEF SubscriptionInv, PairsKept, ChoiceKept

LEMMA SubscriptionInvariant == Spec => []SubscriptionInv
BY SubscriptionInvInit, SubscriptionInvStep, PTL DEF Spec

-----------------------------------------------------------------------------
\* Types, and a wish to cancel is noted only where there is something to cancel.
THEOREM SubscriptionTypeCorrect == Spec => []SubscriptionTypeOK
<1>1. SubscriptionInv => SubscriptionTypeOK
  BY DEF SubscriptionInv, SubscriptionTypeOK, Sound, Truthful
<1> QED BY <1>1, SubscriptionInvariant, PTL

\* What the account shows as cancelled is over at PayPal
\* (subscription_lifecycle.py:156).
THEOREM CancelledOver == Spec => []CancelledIsOver
<1>1. SubscriptionInv => CancelledIsOver
  BY DEF SubscriptionInv, CancelledIsOver, Sound, Truthful
<1> QED BY <1>1, SubscriptionInvariant, PTL

\* A checkout makes one contract, however often its creation is replayed
\* (subscription_lifecycle.py:100-150).
THEOREM CreatedOnce == Spec => []CreatedAtMostOnce
<1>1. SubscriptionInv => CreatedAtMostOnce
  BY DEF SubscriptionInv, CreatedAtMostOnce, Sound, Truthful
<1> QED BY <1>1, SubscriptionInvariant, PTL

\* A cancellation covers contracts the account learns of later
\* (subscription_lifecycle.py:206).
THEOREM EarlierCovered == Spec => []CancellationCoversEarlier
<1>1. SubscriptionInv => CancellationCoversEarlier
  BY DEF SubscriptionInv, CancellationCoversEarlier, Sound, Covered
<1> QED BY <1>1, SubscriptionInvariant, PTL

\* No step forgets a wish to cancel (subscription_lifecycle.py:144, 192).
THEOREM IntentKept == Spec => IntentIsKept
<1>1. SubscriptionInv /\ [Next]_vars =>
        [\A c \in Contracts :
            CancelPending(db[c]) => CancelPending(db'[c]) \/ db'[c].status = "CANCELLED"]_vars
  BY StepKeeps DEF PairsKept, Keeps
<1> QED BY <1>1, SubscriptionInvariant, PTL DEF Spec, IntentIsKept

\* The current contract is exchanged only when PayPal has ended it
\* (subscription_lifecycle.py:206).
THEOREM LiveNotDisplaced == Spec => LiveIsNotDisplaced
<1>1. SubscriptionInv /\ [Next]_vars =>
        [current' # current /\ current # Nobody => paypal[current].status = "CANCELLED"]_vars
  BY StepKeeps DEF ChoiceKept
<1> QED BY <1>1, SubscriptionInvariant, PTL DEF Spec, LiveIsNotDisplaced

=============================================================================
