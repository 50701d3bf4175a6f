# EntropyDrop backend: specifications and proofs

TLA+ models of the EntropyDrop backend (FastAPI, PostgreSQL, Redis queues, PayPal, S3 and
CloudFront), the TLC runs that check them on small instances, and TLAPS proofs of the properties
that matter most for instances of every size. Every definition is translated from the code; paths
below are relative to `src/`.

Contents: 1 the system, 2 how code becomes a model, 3 the modules, 4 the runs, 5 fairness,
6 the proofs, 7 disagreements found, 8 what is not modelled, 9 the plan.

## 1. The system

Two kinds of process share one PostgreSQL database: API workers (FastAPI handlers, several threads
and hosts) and one *background service* (`background_service.py`), which holds a Redis lease of 60
seconds, renews it every 20 and runs nine jobs. Generation workers live in another repository and
talk through Redis (RQ queues in, a stream of results out). PayPal is called for orders, refunds,
subscriptions and payouts, and calls back with webhooks. Money, stock, files and credits each have
a second copy outside the database: that is where the difficulty is.

| Component (code) | State | Operations | Talks to |
| --- | --- | --- | --- |
| Order checkout, payment, inventory (`routers/order.py`, `order_inventory.py`) | `Order`, `OrderItem`, `ModelSalesLimit` | create, merge, delete an item, cancel, delete, checkout (voucher), confirm, expire holds, reconcile | PayPal orders; credits and Pro of `User` |
| Figure review, refund, production (`figure_orders.py`, `routers/figure_admin.py`) | review, goods and refund columns of `Order` | approve, reject, goods status, sync a refund, refund job | PayPal refunds; stock |
| Prices, catalogue, terms, addresses (`figure_*.py`, `order_stickers.py`, `routers/figure_catalog.py`, `routers/address.py`, `shipping_address_rules.py`, `paypal_shipping.py`) | configuration rows, a user's addresses | one-row edits, validation | orders take snapshots |
| Creator payouts (`creator_payouts.py`, `paypal_payouts.py`, `routers/creators.py`) | `CreatorPayout`, its events | request, approve, reject, retry, job | PayPal payouts; orders' commissions |
| Creator codes, settings (`creator_referrals.py`, `routers/creators.py`, `routers/figure_catalog.py`) | `CreatorCode`, referrals, discount, shipping fee | save a code or a setting by its version, visit, bind, order by an offer | orders keep the offer |
| Subscription contracts (`subscription_lifecycle.py`, `routers/webhooks.py`) | `PaypalSubscription`, `User.paypal_subscription_*` | checkout, return, webhooks, cancel one or all, job | PayPal subscriptions |
| Subscription billing (`subscription_billing.py`, `backend_utils.py`, `routers/webhooks.py`, `routers/order.py`, `routers/monitor.py`) | `User.pro_*`, `CreditLog` | a verified payment grants a period and credits, audit, compensation | contracts, credits |
| Skin generation (`routers/generate.py`, `pipeline_registry.py`) | `GenerationLog` | create, listen to results, recover, delete | Redis, workers, credits |
| Withdrawal of files (`skin_withdrawal.py`) | `GenerationLog.withdrawal` | begin, resume, retry job, administrator's deletion | S3, CloudFront |
| Generation priority (`generation_priority.py`) | queue of a job, grants | grant, move to the fast queue, job | Redis |
| Credits, Space hosting (`routers/credit.py`, `credit_balance.py`, `routers/space_billing.py`) | `User.credits`, `CreditLog`, reservations | purchase, rewards, reserve, capture, release | PayPal, Space service |
| Background service (`background_service.py`) | the Redis lease | acquire, renew, run jobs, release | all jobs |
| Login sessions (`auth.py`, `routers/auth.py`) | `AuthSession` | log in, refresh, revoke | Google |
| Space accounts, agents (`routers/space_accounts.py`, `routers/space_agent_auth.py`) | API keys, device grants | request, decide, poll, claim | Space service |
| Forum (`routers/forum.py`) | posts, likes, comments, notifications | post, edit, delete, like, comment, read | pictures in S3 |
| Collections, likes, characters (`routers/collections.py`, `routers/generate.py`, `routers/auth.py`) | `Collection`, `CollectionItem`, `UserLike`, `User.skin_url` | create, add, move, choose, like, wear | deletions, Pro |
| Public ledger (`routers/ledger.py`) | `ExternalLedgerEntry`, `LedgerSyncRun` | sync job, upserts | PayPal and AWS reports |
| Administration, monitor, HTTP layer, clients, schema, Space proxy, scripts | lists, samples, limits, settings | - | - |

What makes it hard, and what each component owes its users:

- **Orders.** A confirmation commits in the middle (`routers/order.py:303`) and so drops the lock
  before it captures money; PayPal may capture and the answer be lost; a buyer starts several
  vouchers; holds expire while a payment is under way. *Owed:* one charge per order, a charged
  order is never unbound, edited or closed and is recorded in the end; no unit lost or made up.
- **Figures.** Refunds are idempotent at PayPal for six hours only; people also refund by hand.
  *Owed:* refunded means returned, nothing is produced for money going back, no refund hangs.
- **Payouts.** A submission whose answer was lost is repeated for up to 29 days by a job and by
  administrators at once; PayPal recognises repeats for 30 days; leases run out under slow workers;
  answers arrive late and out of order. *Owed:* one transfer per withdrawal; a released amount is
  not paid; a paid one is not released; the total never exceeds the earnings when it grows.
- **Subscriptions.** Creations are replayed, webhooks arrive before the checkout's own answer,
  cancellations time out after PayPal has acted. *Owed:* cancelled means cancelled at PayPal, one
  contract per checkout, a wish to cancel is never lost, a live contract is never displaced.
- **Generation.** Results are delivered at least once and in any order, enqueuing may raise after
  it succeeded, jobs vanish. *Owed:* credits taken once and given back at most once, failed means
  refunded, a success is not taken back.
- **Withdrawal.** Storage, CDN and the database fail independently and the job resumes anywhere.
  *Owed:* a deletion ends, and nothing of the skin is left when it has.
- **Billing.** Webhook and buyer's return tell of the same payment, late and again; PayPal's own
  answer lags. *Owed:* a payment gives its credits once and not less than once, Pro ends with a
  payment, and no late webhook shortens it.
- **Credits.** Purchases, rewards, gifts, generations and Space reservations meet in
  one locked integer, and the Space service's calls come in any order. *Owed:* the balance equals
  its log, held hours are there when they are captured, a settled hold stays settled.
- **Priority.** A script in Redis moves a job while workers and deletions take it step by step.
  *Owed:* no job runs twice, a cancelled one does not stay, a subscriber's job is moved in the end.
- **Background service.** The lease can run out while a thread is still working, so every job has
  to tolerate a second copy of itself; a process may crash with the lock. *Owed:* one service in the
  end, and the jobs go on after every loss.
- **Sessions, agents.** Two browser aliases refresh at once, logins read without a lock, an agent
  repeats the poll that made its key. *Owed:* ended sessions stay ended, one key per consent.
- **Library, forum, offers.** Handlers check first and commit later, without a lock. *Owed:* private
  skins stay hidden and deleted ones are forgotten once the caches are, counters agree with their
  rows where likes did not overlap, every comment is reached, an order keeps the terms its buyer was
  shown and its creator.

`PROJECT.json` lists every component with its status and every hazard at its line.

## 2. How code becomes a model

- **One transaction, one action.** Most handlers of orders, payouts, contracts and generations lock
  their root row (`lock_order`, the creator's row, the account's row, the generation's row) before
  they read and keep it to their commit. A handler
  is split exactly where the code commits and goes on, and what it remembers across the commit
  becomes a record: `attempts` (orders), `calls` (payouts), `finishing`/`stopping`/`cancelling`
  (subscriptions), `queueing`/`unqueued` (generation), `opening`, `checked`, `logins` (credits, audit,
  logins). A job that reads ids and then locks row by
  row has a scan action and one action per row (`expiring`, `picked`, `passes`).
- **What is read before a lock, or without one, is more actions.** `delete_order_item` reads the item
  before it locks the order and uses it after: `ReadItem`, `DeleteItem`, with `deletions` between.
  The library, the forum and the referrals lock nothing: what a handler
  has read and checked is a record (`edits`, `choices`, `loving`, `refreshes`, `forum_calls`,
  `binding`, `buying`) and its commit a later action.
- **A crash** is a continuation that never runs, or an explicit step that drops it
  (`ConfirmAbandoned`, `DropDeletion`, `DropCall`, `Vanish`). A call to PayPal whose transaction is
  lost is a step in which only PayPal's side changes (`ConfirmAnswerLost`, `RolledBack`, `PostRefund`
  with a crash).
- **External services** (PayPal, storage, CDN, workers, queues) are variables changed only as the
  code in `src/` relies on; the map marks them external.
- **Time** is a flag that may change at any moment: a hold is `running` or `over`, a window `open`
  or `closed`. The order of two deadlines is kept where the code depends on it (29 days before 30,
  71 hours before 72). Caches whose ages add up have a clock (`SkinLibrary!tick`), and so have sessions.
- **Data** is reduced to what properties tell apart: the price of an order is a number, what its
  items add and their deletions deduct, without shipping and discounts; an address is deliverable or
  not, a file is one of two kinds.

## 3. The modules

| Module | Models | Notes |
| --- | --- | --- |
| `Checkout` | nothing in the code: the promise about one order's money | open, charged, settled, shipped, refunding, refunded, closed |
| `OrderPayment` | `routers/order.py`, `order_inventory.py` | one action per handler, two-step confirmation and expiry; refines `Checkout` |
| `FigureOrders` | extends `OrderPayment` with `figure_orders.py`, `routers/figure_admin.py` | composes the same orders with review, production and refund |
| `Withdrawals` | nothing in the code: the promise about the money of a creator's withdrawals | none, reserved, sent, received, paid, back, available |
| `CreatorPayouts` | `creator_payouts.py`, `paypal_payouts.py`, `routers/creators.py` | one creator, whose row lock covers all of its withdrawals; refines `Withdrawals` |
| `SubscriptionLifecycle` | `subscription_lifecycle.py`, webhooks, the return page | one account |
| `GenerationJobs` | `routers/generate.py`, `skin_withdrawal.py` | one user |
| `CreditLedger` | `routers/credit.py`, `credit_balance.py`, `routers/space_billing.py`, rewards and gifts | all users, one locked balance each |
| `SubscriptionBilling` | `subscription_billing.py`, `backend_utils.py`, the sale webhook, the activation, the audit | one account; which contract is current is free |
| `GenerationPriority` | `generation_priority.py` and the cancellation in `routers/generate.py` | one user, the Lua script as one action, Redis otherwise step by step |
| `BackgroundService` | `background_service.py`, composing `CreatorPayouts`, `SubscriptionLifecycle` and `GenerationPriority` | the jobs' steps need a service that runs |
| `AuthSessions` | `auth.py`, `routers/auth.py` | one user, one browser with two aliases |
| `SpaceAgents` | `routers/space_agent_auth.py`, `routers/space_accounts.py` | pairings and keys |
| `SkinLibrary` | `routers/collections.py`, likes, the worn skin, the discoveries' caches, what `skin_withdrawal.py` takes away | and what is shown to whom |
| `Forum` | `routers/forum.py` | posts, likes, comments, notifications |
| `CreatorOffers` | `routers/creators.py`, `creator_referrals.py`, `routers/figure_catalog.py`, orders' snapshots | codes, settings, referrals |
| `Services` | `CreditLedger`, `SubscriptionBilling`, `AuthSessions`, `SpaceAgents`, `SkinLibrary`, `Forum`, `CreatorOffers` | one of them moves, the others stay as they begin |
| `MC...` | finite instances, symmetries and constraints | |
| `SumTheorems` | lemmas on sums over finite sets | section 6 |
| `OrderProofs` | proofs for `OrderPayment` and `FigureOrders` | section 6 |
| `CreatorPayoutsProofs`, `SubscriptionProofs`, `GenerationProofs`, `BackgroundProofs` | proofs for the module of that name, `BackgroundProofs` for the queues | section 6 |
| `CreditProofs` | proofs for `CreditLedger` and `SubscriptionBilling` | section 6 |
| `ServicesProofs` | proofs for `AuthSessions`, `SpaceAgents`, `SkinLibrary`, `Forum`, `CreatorOffers` and `Services` | section 6 |

### OrderPayment

Variables carry the names of the columns. `attempts` holds confirmations between
`db.commit()` at `routers/order.py:303` and their second lock: which order and voucher, what
PayPal said of the voucher before, whether stock was short. `ConfirmBegin` is everything up to the
commit; `ConfirmNothingLeft`, `ConfirmRecord` (capture and record), `ConfirmAnswerLost` (captured,
not recorded) and `ConfirmAbandoned` end the attempt. Buyers' requests and the one-minute
reconciliation job are members of `Sessions`, because they call the same function.

Decisions a reader should know:

- *Cart and buy-now orders* differ only in which order an item joins; `CreateOrder` and
  `MergeIntoOrder` allow either at any time, which is more than the code allows.
- `CREATED` also stands for PayPal's `PAYER_ACTION_REQUIRED`.
- *Overlapping deletions.* `delete_order_item` finds the item (`routers/order.py:765`), waits for the
  lock, and deducts the price of what it found (`:782`), whether the row is still there or not.
  `deletions` holds, for each row, the requests that have found it and whether it has gone; each of
  them deducts (`Deduct`, never below zero). So `price` may be less than `BasketPrice(items)`, and the
  voucher asks for `price`. The properties say what is true: a captured voucher is for the order's
  price, and that is never *more* than its basket's.
- *`capture_started` is never taken back.* An order whose capture PayPal refuses for good keeps its
  hold and cannot be cancelled. That is what the code does; no document promises otherwise.
- *The three-day window* of the reconciliation query does not apply to orders with
  `capture_started`, the only ones the liveness property is about.
- *The branch at `routers/order.py:283`* (captured wallet order without an address) is unreachable:
  theorem `WalletHasAddress`.
- *Legacy orders* existed before the hold columns. The migration
  (`alembic/versions/a8e6c4d20918_add_payment_and_withdrawal_recovery.py:21`) marks all of them as
  not in capture, so one whose old voucher is captured can lose it and be charged again. The charge
  properties leave them out and say so; stock, hold and payment properties cover them.

### FigureOrders

`process_refund` keeps the row lock during its calls and commits once: it is one action per answer
(`AdoptRefund` for a refund found on the capture, `PostRefund`, `RefundUnconfirmed`,
`RefundNeedsPerson`). PayPal's answer to `PostRefund` may be lost, which the row records, or the process
may stop before its commit (`figure_orders.py:98-108`), and then only PayPal knows. A row of a pass over
expired holds that was deleted since the scan ends the pass (`ExpireOne`, `order_inventory.py:78`).
`SupportRefunds` is a person using PayPal's console, in full or in part.
Orders from before the review status are not modelled.

### CreatorPayouts

`process_payout` is `Begin` (commits the lease and the number of the attempt), PayPal's step
(`PayPalCreates`, `PayPalRefuses`, `PayPalReports`) with no lock held, and `Finish`, which applies
the answer only if the attempt is still the last (`StillLast`). `attempt_count` counts 0, 1, more;
the fence is kept exact by the flag `last`. PayPal forgets a sender id only after the 29-day window
and after every submission begun within it: the one timing assumption, of a day, that the code
makes too. `EarningsChange` lets the eligible commission fall while withdrawals are in review
(`tests/test_creator_payouts.py:129`). A `manual_review` without a batch id is not looked at again
by the job, which `tests/test_creator_payouts.py:139` intends. `Covered` is the second look at the balance before anything
was sent (`creator_payouts.py:147`): `SpendingIsCovered` says that requests are granted within the
earnings, and that no first attempt begins once refunds have left less than was granted.

### SubscriptionLifecycle

A contract has a request part (the row before PayPal's id is known), a contract part, and PayPal's
state. `Recovered` is `recover_create` with the merge of two rows, `CancelAll`/`CancelAllFinish`,
`CheckoutBegin`/`CheckoutFinish` and `Select`/`StopContract` the handlers that commit in the middle.
SUSPENDED is folded into ACTIVE, APPROVED into APPROVAL_PENDING and EXPIRED into CANCELLED, which
this code treats alike; creation times are reduced to "before the last cancellation". What a
payment entitles to is in `SubscriptionBilling`.

### GenerationJobs

Generations of the two-stage models on offer: a picture, then a skin. `messages` is never emptied:
a message may be read again, as happens when the acknowledgement is lost. `work` is the workers'
side: none, queued, provider, skin. `processing_skin` is folded into `pending_skin`. A deletion is
`BeginDelete` and any number of `Resume` steps, each ending in an error, a lost transaction or the
end. Left out: an administrator's second deletion of a row revived by a late failure, the
recoverable legacy model, and the quotas and queue limit, which are read without a lock
(`routers/generate.py:733`) and so can be passed together.

Behaviours that are permitted and have no property: a success after the refunded failure leaves the
user both skin and credits; an administrator's deletion does not wait for the CDN
(`routers/monitor.py:393`); the recovery may queue a billable job again when the listener was down
for longer than a finished job's hash lives (`routers/generate.py:1683`).

### CreditLedger

Each handler under `lock_balance` is one action. Two have more: a purchase is captured at PayPal
before the lock (`Unawarded` is what the buyer's repeated call finds), and `authorize` locks its
user but reads rows of other payers, so it is `ReadAuthorizations` and `Authorize`; authorizations of two
payers may both stay enabled. The log is the set of causes applied (`Cause(kind, of)`), so applying
one twice shows in `BalanceIsExplained`. Gifts and rewards are counted in `given`, bounded by
`MaxGiven`. A reward is decided for the day its request came; a request that waits for the lock over
midnight is rewarded for the old day again and takes `last_login_date` back
(`backend_utils.py:132`). That is in the model, and nothing in the repository says what should be.

### SubscriptionBilling

Time is the billing cycle. PayPal collects payments; activation and webhook grant by the payment
they can see, the key `(paypal id, payment time)` or, for rows from before the keys, a row near it in
time. An activation sets the end of Pro to that of the payment PayPal reports (`routers/order.py:1016`), a
webhook only ever moves it on (`routers/webhooks.py:164`). `PaymentGivesItsDue` says both halves of what
is owed and no more than the code keeps: credits of a payment once, and once at least where a sale of it
is on record; an end of Pro that some paid and credited payment has; and that no *webhook* shortens it.
That a lagging activation does is in section 7. The audit's matching (`Matches`) keeps its order of preference; 35 days reach into the
neighbouring cycle, 48 hours do not. Check and compensation are two actions.

### GenerationPriority and BackgroundService

A worker pops a job before it records `started`; a deletion marks the generation, reads the job's
queue and removes it there; a worker chooses the next stage's queue before it adds the job; the
listener may hold the row. `sync_pro_priority` reads its list and then promotes one by one
(`passes`). `BackgroundService` has the lock of `LOCK_KEY` (`Acquire`, `Renew`, `Expire`,
`StopLoser`, `Fail`) and conjoins "a service runs" to the job steps of the three modules, which it
instantiates side by side; `Forget` drops what a job held in memory when no service is left. The
three jobs share nothing but the service, so `part` picks the one that has work. Threads of a
process that lost the lock go on; the passes of overlapping services are taken as one, and what
overlapping workers do to a withdrawal is in `CreatorPayouts` itself.

### AuthSessions and SpaceAgents

A refresh locks the session's row: one action. A login reads the sessions that exceed the limit
without a lock and commits later; `overlapped` records that two did, and the limit is promised only
otherwise, as the code can. Each alias keeps a cookie of its own. A pairing's row is locked by each
of its handlers. The agent's secret is derived from its device code, so a repeated claim returns the
same key: `made` keeps all keys there ever were, to say that there is one per consent.

### SkinLibrary, Forum and CreatorOffers

`Shown` collects, for each viewer, the lists, details, characters and the answer of `GET /discovery` a skin
can appear in. The discoveries are a list that the background process and, if need be, an API process
read from the database (`ReadDiscoveries`) and put into Redis and into memory (`StoreDiscoveries`), and
that other processes fetch from Redis (`FetchDiscoveries`); a refresh takes at most `RefreshTime`. No deletion
clears these caches, so `DeletedIsForgotten` is a promise with an end: a deleted skin is in no list at
once, and out of the discoveries when a refresh, Redis's age and the process's own have passed. Users who were
choosing a skin while it was deleted (`caught`) may wear it, and lose it at the withdrawal unless their
choice is still to be committed then. A deletion is `DeleteSkin` (begin) and `WithdrawSkin` (the last
commit of resume, which removes items, likes and the counter); `crossed` records the skins whose likes
overlapped each other or the withdrawal, and only for those the counter is not promised. Outside: a CDN
or browser that keeps an answer by its `Cache-Control`, and the creators' own characters inside cached
answers.

`Forum` commits a like or a comment in one transaction and its notification in another, with reads
between; a deletion of the post is one transaction, which either can straddle. A call may stop anywhere
(`DropCall`). The counter and the rows are one commit, so a stop does not part them; the notification is
another, and `untold` records whose author was not told, or whose user overlapped himself. `met` records
the posts whose likes overlapped.

`CreatorOffers` keeps, of each setting, value and version. A buyer is shown an offer (`ShowOffer`), may send
its versions and its fee back (`agreed`) or not, and the order is `ReadOffer`, which refuses another
version of the code or of the discount, and `CreateDeal`, which refuses another fee; administrators act
between the three. `OrdersFollowOffers` compares the order with what its buyer was shown, not with what the
code read. Only where the buyer named no code is the creator's part not promised: the code bound to him
then is taken, `creator_referrals.py:90` compares its version with the shown one's whichever code that
was, and a bound code that has expired drops its discount without an answer. An order of a code
without an owner goes to the owner it gets (`Bequeathed`).

Noticed and permitted, without a document that says otherwise: moving an item does not look at the
collection's limit of 200 (`routers/collections.py:460`); choosing collections for a skin looks
neither at its state nor at Pro (`routers/collections.py:644`); `UserLike` has no unique constraint, so overlapping likes leave two
rows; wearing a skin does not lock it (`routers/auth.py:389`); the comment at `routers/forum.py:594`
says that unread notifications of a like are removed, and read ones are as well; two logins at once
exceed the limit of sessions.

## 4. The runs

| Run | States | Question |
| --- | --- | --- |
| `OrderRace` | 443 thousand | Do two concurrent confirmations, all cart edits, cancellation, deletion and expiry leave money and stock right? |
| `OrderLive` | 186 thousand | Is every step one of the abstract checkout, one month granted per payment, and every lost capture recorded? |
| `FigureLive` | 52 thousand | Is no unit lost, and is a rejected order refunded or handed to a person? |
| `FigureStale` | violation | Is a repeated confirmation a no-op? |
| `PayoutRace` | 877 thousand | Is a withdrawal sent once, is every step one of the abstract withdrawals, with two workers, crashes and both windows, and does a second one ever take more than was earned? |
| `SubscriptionLife` | 40 thousand | Are cancellations true, covering and kept, across webhooks, replays and merges? |
| `SubscriptionLost` | violation | Is a wish to cancel always scheduled? |
| `GenerationLife` | 51 thousand | Are credits, results and files right through failures, redelivery, recovery and deletion? |
| `GenerationOrphan` | violation | Is nothing left of a deleted generation? |
| `BackgroundLife` | 61 thousand | Whatever happens to the lock, does one service settle, and are withdrawals, cancellations and waiting jobs resolved? Do queues follow jobs? |
| `CompensationRepeat` | violation | Is an order compensated once? |
| `ServicesLife` | 355 thousand | Seven services with overlapping handlers: credits, payments, sessions, keys, visibility, counters, comments, offers |

Bounds, and why they are enough for the cases to happen:

- `OrderRace`: two orders compete for one unit of each of two models, so one of them is paid without
  stock, and a hold that fails at the second model has to undo the first. Baskets have up to two
  items, of one price. Three vouchers: a legacy order starts with one, and the other order can be
  charged twice only through two of its own. Two sessions: every pair of confirmations and the job. Two
  requests delete: both can find one row before either has the lock. `DeletionBound` keeps to one item
  being deleted at a time, on an order whose capture has not begun (else the deletion is refused
  whatever comes), and between confirmations rather than during them, and opens no order beside one that
  has become too cheap; the run is about what a wrong
  price does to a later voucher, and a deletion during a confirmation is in the proofs. Wallet orders
  (address from PayPal) are in the other two runs. Vouchers, models and deleting requests are symmetric,
  and no property of this run is a liveness property.
- `OrderLive`: no symmetry, because it checks liveness; a subscription and a wallet order, one model.
- `FigureLive`: two orders, one with a creator's offer, one from a wallet, two vouchers. Confirmations
  come from one session: with two, the disagreement of `FigureStale` breaks these properties too.
- `PayoutRace`: two withdrawals, the job and an administrator. The first goes through everything.
  Creators and withdrawals share nothing but the balance, so once the second is requested the
  constraint `SecondIsSimple` keeps one leased withdrawal at a time, inside the window, submitted by
  the job. `MaxEarnings` bounds the commission; it falls and rises below that.
- `SubscriptionLife`: one checkout and one contract the account learns of by webhook: the second
  contract is what selection, displacement and late merging need. `SubscriptionLost` has the
  checkout alone.
- `Generation...`: one public generation with two files, a balance that pays for it once and leaves
  a remainder. Generations of one user share only the balance; each step changes one generation.
- `BackgroundLife`: two services, two losses of lock or process, one withdrawal, one contract, one
  generation of two stages. `OneProcessWorks` lets the second service take part only where there is
  no work: the jobs see of the competition only that a service runs or does not.
- `CompensationRepeat`: one contract, two payments, one administrator, two compensations.
- `ServicesLife`: seven instances in one run, of which one moves, so the states are a sum and not a
  product. Two users each, and of everything else the two or three things that can meet: a
  purchase, a generation and three authorizations with two held hours; two contracts and payments;
  three sessions with a limit of one; two pairings and three keys with a limit of two; a public and a
  private skin and collection, two ticks of Redis's age and one each of a process's and of a refresh, in
  five of time; two posts, comments and notifications, a counter up to two; two codes, two orders, one of
  them from before, two versions. `MCServices` names what its constraints leave out: combinations of things that do not
  meet (`OneTopic`: collections, characters, likes and discoveries each by themselves, and edits under a
  plan that stays; `LikesOrComments`;
  `FewOffers`: referrals, settings and codes; `FewCredits`: three gifts), names that only could be exchanged
  (`OneNaming`), and the beginnings of
  services that do not move. `i1` and `i2` are exchanged only as ids of rows, and all properties are
  about states or single steps.

Deadlock is not checked where the system may rest (a shop with every order settled, a service whose
ids are used up). In the other modules something may always happen (an administrator, a webhook, the
job), so the deadlock check is on and says little; progress is the subject of the liveness
properties. The type invariants are proved, by themselves or as a part of an inductive invariant
(section 6); only that of `BackgroundService` is not, and it holds when it is added to its
configuration.

## 5. Fairness

Fairness is stated only for jobs that the background service repeats and for the answers of
services; nothing is assumed of users, administrators, webhooks or the continuation of a handler
after its commit, so a crash there is covered.

- `OrderPayment!FairSpec`: the reconciliation job (every minute, every pending order with a
  voucher) begins and, if it is tried again and again, completes. Strong fairness, because a try
  may fail or be disabled by another session; it amounts to PayPal not failing for ever.
- `FigureFairSpec`: the same for the refund job, and PayPal ends pending refunds.
- `BackgroundService`: `LeaseFairness` (processes try again every ten seconds, a lock nobody renews
  runs out, a loser notices) and the jobs' fairness, each step of a job only while a service runs:
  `PayoutFairness` (the job reads every 30 seconds, its attempts end, time passes, PayPal
  reports the state of a batch it has created if asked again and again; it never has to answer a
  submission), `ContractFairness` (the job, every minute, is answered in the end),
  `PriorityFairness` (the job, every ten seconds, finds Redis up and rows unlocked again and again).
  Losses are bounded by `MaxLosses`: without a last one nothing could be promised.
- The fair specifications of `CreatorPayouts` and `SubscriptionLifecycle` say the same without the
  lock.
- `GenerationJobs!FairSpec`: the withdrawal job (30 seconds) succeeds if it is tried again and
  again, and the CDN completes what it has accepted.

## 6. The proofs

All are about the specifications as they stand, for arbitrary constants under the assumptions named
in the modules (`VoucherAssumption`, `JobAssumption`, `KindAssumption`, `StockAssumption`, `PriceAssumption`,
`WorkerAssumption`, `AmountAssumption`, `ContractAssumption`, `CreditAssumption`, `BillingAssumption`,
`AuthAssumption`, `AgentAssumption`, `LibraryAssumption`, `GuestAssumption`, `ForumAssumption`,
`RowAssumption`, `OfferAssumption`, `ServiceAssumption`, `StageAssumption`, `LogAssumption`,
`CostAssumption`): any number of orders, models, vouchers, sessions, withdrawals, workers, contracts,
users, payments, skins, posts, codes, services and generations. The assumptions say that a placeholder
(`NoVoucher`, `Guest`, `NoNotice`) is not one of the things it stands in for, and that what is counted
or added up is finite. Theorems that need more say so: `IsFiniteSet(Orders)` and
`IsFiniteSet(Payouts)` where amounts of all orders or withdrawals are added,
`Legacy = {}` for the refinements. Every safety property of the passing runs is a theorem or a
conjunct of one.

**Charges** (`OrderProofs`). `ChargedAtMostOnce` is not inductive: it says nothing of a
confirmation that is about to capture. `PayInv` adds
`VoucherInv` (a bound voucher exists and was made for its order),
`AttemptInv` (a confirmation under way pins its order: `capture_started`, the same voucher, an
unchanged price),
`ChargeInv` (a captured voucher is the one its order is bound to, for the order's price) and
`PriceInv` (no order costs more than its basket). The last two give
`ChargedOrderIsKept`, and since an order is bound to one voucher, `ChargedAtMostOnce`. `PriceInv` is an
inequality because overlapping deletions deduct twice; none deducts less than the basket loses
(`BasketPriceChanges`).
The step from attempt to charge is why `capture_started` is committed before PayPal is called.

**Stock** (`OrderProofs`). `HoldInv`: held stock belongs to unpaid orders, consumed stock to
paid ones, and an order whose capture has begun keeps its hold. With it `PaidOrderHasStock`,
`UnitsMoveWithOneOrder` and `UncertainCaptureKeepsHold`, the last two for every step. A step
moves units between the shelf and one order (`Moves`), so shelf and orders together keep their sum:
`StockAddsUp`.

**Outcomes** (`OrderProofs`). `WalletInv` (capture of a wallet order has begun only with a
saved deliverable address) makes the code's own emergency branch unreachable; `BackorderInv` (a
confirmation that found stock still holds it) gives `BackorderIsFlagged`.

**Figures** (`OrderProofs`). `FigureInv` = `PayInv` and the refund's types with
`RefundedMoneyWentBack`. The new actions keep `PayInv` because they only move among the paid-for
statuses; so the charge theorems hold of the composed system as well, for any number of sessions.
Whether a person's rejection stands is another matter: with overlapping confirmations it does not
(section 7), and neither does the sum of the stock. `RefundsFollowRejection` and `FigureStockAddsUp`
therefore have the hypothesis that is missing in the code, `RepeatedConfirmationIsNoop`: it
is all they need. Under it `RejectionInv` (a rejected order was rejected by a person, and money goes
back for captured vouchers of rejected orders only) and `UnitsInv` are inductive. The hypothesis can
be met: by `OneSessionRepeatsNothing`, whose invariant `OneAttempt` says that there is one attempt at
a time and that its order is unpaid, every behaviour with one session meets it.

**Refinement** (`OrderProofs`). `OrderImplementsCheckout`: with `Legacy = {}` every step
moves one order by one phase of `Checkout`, or none. `PhaseOf` reads *charged* off PayPal's
vouchers, not off the table, so the theorem says that the table cannot lose a charge. The proof
classifies each action as quiet, closing, charging or settling and needs `PayInv` and `StockInv`.
`FigureImplementsCheckout` says the same of the whole life of an order, with review, production and
refund, again where no confirmation repeats: an order is shipped or refunded and never both. The
checkout's part is proved once for both, from one step of `OrderPayment` in which a payment is recorded for an unpaid
order only.

**Payouts** (`CreatorPayoutsProofs`). `PayoutInv`: `UntouchedInv` (nothing was sent before the
window was opened), `ForgetInv` (PayPal forgets only when nobody can repeat the submission),
`SentInv` (a submission counter of 0 or 1, by PayPal's state), `CallInv` (at most one attempt is
the last; if it is also the first it is the only one; a released withdrawal has none) and
`AnswerInv` (a report of a final state is still true when it arrives). `ForgetInv` carries
`SentAtMostOnce`, `CallInv` and `AnswerInv` carry `ReleasedIsNotPaid`, `PaidWasSent` and
`PaidStaysPaid`. `SpendingCovered` needs to know that only a request adds to what is spent: no late
answer counts a released withdrawal again, which is `CallInv` once more (`SpentStep`). The rest is the
sum: the commission may fall below what was spent before, so the theorem is about steps that raise it,
and about first attempts, each of which looks at the sum again (`FirstAttemptStep`, which needs
`UntouchedInv`: what was never attempted has no window).

`PayoutsImplementWithdrawals`: every step moves the money of one withdrawal by one phase of
`Withdrawals`, or none. `PhaseOf` reads *sent*, *received* and *back* off PayPal's books, and only
*reserved*, *paid* and *available* off the table, so that the two must agree where the
money is: an amount becomes available only from *reserved* and *back*, and is called paid only from
*received*. A request is granted from what is left by the abstract sum, which is shown to be the
code's. Only five kinds of steps move money; `StatusRefines` is for all that change a status.

**Contracts** (`SubscriptionProofs`). Nearly all of it is about one row and its contract. `Sound`
adds to what the properties say that a creation which may still be replayed is one PayPal remembers
(hence one contract), that a row is never ahead of PayPal's end (hence `CancelledIsOver`), and that a
checkout's row whose contract is from before the cancellation is to be cancelled (without which the
merge would break `CancellationCoversEarlier`). Each operator that takes a pair to another keeps
`Sound` and the wish to cancel (`Keeps`); then every transaction, which takes many pairs at once, does.
`LiveIsNotDisplaced` and `IntentIsKept` are read off the same step lemma.

**Billing** (`CreditProofs`). `PaymentGivesItsDue` is about a payment's rows and does not say why there is
no second one. `BillingInv` does: a row from before the keys is the first
payment's, whose award adopts it (`LegacyInv`), since a contract pays once in a cycle
(`PaymentsDiffer`); and no compensation of an order has a number above how many there are, so the next
one is a new row in the sum (`NumberInv`).

**Credits** (`CreditProofs`). `HoldsAreCovered`, `BudgetIsKept` and the types follow step by step
from the lock under which holds are counted. `OneAuthorizationPerPayer` is not inductive: `OpeningInv`
says that, while a payer's `authorize` is between query and commit, nobody opens another for him, so
the rows it found are still all that are enabled. `SettlementIsFinal` is a step property.
`BalanceExplained`: each step that changes a balance either gives, or logs one cause that was not in
the log and is worth exactly the change; `LogInv` says that the log is finite and holds causes, which
is what the sum over it needs.

**Generations** (`GenerationProofs`). The invariant is a conjunction over the generations, of which a
step changes one. `RefundInv`: the row's flag is only set with an entry in the credit log, so the
unlocked answer to a failed enqueue, which ignores the flag, gives nothing back twice; the balance
follows, since `CreditsConserved` counts the rows without an entry.
`FileInv` says of each message that may still come, however late, that its file is there as long as
the generation is not deleted; without it `VisibleFilesExist` is not inductive. `WithdrawalInv`: the
CDN is only asked when every listed file is gone from the storage, so it cannot cache one again
after its purge; hence `KnownFilesAreWithdrawn`. `SuccessIsKept` needs the types only.

**Access** (`ServicesProofs`). `LoginInv`: what a login has found is still true at its commit if no other
came in between; so the limit of sessions can only be exceeded by logins that overlap.
`PairingInv`: a consent belongs to one user and one pairing, and a pairing's key exists only when it
was claimed or is over; so no repeated poll makes a second.

**Skins** (`ServicesProofs`). An edit of a collection checks a skin, and commits later. `ShelfInv`: what
it is about to put fits where it goes, and keeps fitting, since no operation makes a public skin or
collection private or the reverse. `ChoiceInv`: a choice of a skin to wear is of a public skin, and who
wears a deleted one is in `caught`. `CacheInv` carries the promise about the discoveries: a
list was read before each skin in it was deleted, and from there every cache adds no more than its own
age, so the three ages add up. `LoveInv`, for a skin whose likes have overlapped neither each other nor its
withdrawal: one like at most is between read and commit, and what it has read is still so. Together they
give `HiddenSkins` and `SkinLikesCounted`.

**Forum** (`ServicesProofs`). `ParentInv`: a comment that is there, or that a call is about to write,
answers one that is there, unless the whole post is gone; so `CommentsShown`. `CallInv` says which
notification a call that takes a like back has in its hands. `PostLikesCounted` has two halves:
`LikeCountInv(p)`, for a post whose likes never met, is about its counter and rows wherever calls stop, and
`ToldInv(u, p)`, for a user who never overlapped himself, is about his row, the author's notification and his
one call between them, whatever the likes of others do. Every step of a call takes it on or ends it
(`Advances`), which is all the halves need of most of them.

**Offers** (`ServicesProofs`). `AgreedInv`: what a buyer was shown means the same for as long as its version
is the current one, and no version comes back. So an order that passed the comparison has read what its
buyer was shown (`TakenInv`), and is sold at it (`TermsAreKept`). `OwnerInv`: a code in an offer has an
owner, who is not the buyer, and keeps him. Hence `OffersKept`, and `SourcesKept`.

**Queues** (`BackgroundProofs`). `PlaceInv` says where a job can be: in the one queue its hash names, with
a worker, waiting for a retry or about to be added. `CancelInv` says what a deletion knows: the
queue it has read stays the job's, since a marked generation is neither promoted nor given a next
stage. Of the service nothing is needed, so it may crash or run twice.

**Composition** (`ServicesProofs`). The lemma `ServicesAreComposed` says that a behaviour of `Services` is
one of each of the seven, which holds by the way `Services` is put together and is no result about the
code: it only carries `LikesCounted`, about two of them, from its halves.

**Sums** (`SumTheorems`). Four of these proofs add up a function over a finite set. The library
defines such a sum by recursion over subsets and its theorems on induction take a predicate as a
parameter, which the provers at hand cannot instantiate. `SetInduction` says the same
of a *set* of sets and is proved from the well-founded order of strict subsets: a collection without
a smallest counterexample has none. From it: the sum exists and is independent of the order in which
elements are taken (`SumsExist`, `SumIsAnyOrder`), adds, agrees, and changes by what one element
changes (`SumAdds`, `SumAgrees`, `SumChanges`, `SumOfOneMore`).

**Only model-checked.** Liveness: `SettlesCharges`, `RefundIsResolved`, `ApprovedIsResolved`,
`ScheduledIsCancelled`, `QueuedIsPromoted`, `WithdrawalEnds`, `OneServiceSettles`. It needs fairness
and `ENABLED`, which are outside the provers' reach; so is the fair part of the refinement. The type
invariant of `BackgroundService`. The four disagreements of section 7 are shown by counterexamples.


## 7. Disagreements between the code and what it says

1. `FigureStale`. `routers/order.py:261` says that a repeated confirmation is a no-op. After its
   commit, the confirmation looks only for `paid`, `shipping` and `completed` (`:305`). If another
   confirmation recorded the payment meanwhile and the figure was rejected, the slow one sets the
   order back to paid and to pending review.
2. `SubscriptionLost`. `subscription_lifecycle.py:201` and `:192` promise that an unconfirmed
   cancellation is retried and survives a failure. When a checkout's row is merged into one that a
   webhook made (`:144`), `cancel_requested_at` is copied and `next_check_at` is not, and the
   job selects by `next_check_at`. A failure right there leaves the contract live with nothing to
   retry it.
3. `GenerationOrphan`. `skin_withdrawal.py:1` says success means that the origin and the CDN are
   withdrawn. The list of files comes from the row (`:35`), and a result that is uploaded before the
   deletion but not yet listened to is not in it; the late message is then dropped and the
   object stays.
4. `CompensationRepeat`. `tests/test_monitor_subscription_audit.py:267` expects that an order cannot
   be compensated again. The audit compares one matched row with the whole sum
   (`routers/monitor.py:1186`): after a compensation of a difference it matches that row, finds it
   too small again and pays again. The test only has an order without any grant.

Two more that are in the models, without a run of their own:

- *Overlapping deletions undersell.* Two requests that delete the same item at once deduct its price
  twice (`routers/order.py:765`, `:782`), and the buyer is charged less than the rest of the basket costs.
  No document speaks of it; a second look for the item under the lock would end it.
- *A late activation shortens Pro.* `routers/order.py:1016` sets the end of Pro to that of the payment
  PayPal reports. When PayPal's report lags behind a webhook, Pro becomes shorter than the newer payment
  paid for, which `routers/webhooks.py:164` takes care to avoid on its side, until the next webhook or
  return.

## 8. What is not modelled

- *Shipping fees and discounts in a price, coupons, stickers, validation, formatting, lists:* arithmetic
  on what one request reads. The price of an order as its items come and go is in `OrderPayment`, the
  versions of fee and discount are in `CreatorOffers`.
- *Answers that overtake each other on the way to a browser:* a refresh or logout and the cookie it sets are
  one step of `AuthSessions`.
- *A login reward's day:* `backend_utils.py:132` decides it before the lock (section 3, `CreditLedger`).
- *Shipping addresses:* one-row edits; orders see them as deliverable or not.
- *Public ledger* (`routers/ledger.py`): a mirror of reports, upserted in one transaction.
- *Instance monitor, HTTP middleware, rate limits, the Space proxy:* samples, headers, counters in Redis
  and forwarding. The forum's own rate limit sets its expiry after the increment
  (`routers/forum.py:33`), so a crash in between leaves a counter that never expires; it is outside
  the model.
- *Clients of PayPal and S3:* thin; the services are external actions with lost answers.
- *Schema, settings, migrations:* the columns the code steers by are variables.
- *Other repositories:* generation workers, the Space service, the front end, as `src/` uses them.
- Of the modelled components: e-mails, event logs and notes, parcels, the one-time purchase of Pro,
  the recoverable legacy generation model, digests of Space calls, the secrets' derivation, Google's
  verification, tags, views and videos of posts, names and covers of collections.

A component is called *modelled* only if every operation of it that changes state is an action;
most are *partly*, and `PROJECT.json` says what is left out of each.

## 9. Plan

Done: money (`Checkout`, `OrderPayment`, `FigureOrders`, `Withdrawals`, `CreatorPayouts`), contracts and billing
(`SubscriptionLifecycle`, `SubscriptionBilling`), credits (`CreditLedger`), generations and files
(`GenerationJobs`, `GenerationPriority`), the service that runs the jobs (`BackgroundService`), access
(`AuthSessions`, `SpaceAgents`) and what users see and agree to (`SkinLibrary`, `Forum`,
`CreatorOffers`).

Left, most important first:

1. The order, figure and file jobs under the lock of `BackgroundService`, whose liveness is now
   checked in their own modules, without it.
2. An abstract specification of a contract that `SubscriptionLifecycle` implements, as `Checkout`
   and `Withdrawals` are for orders and payouts; its `Sound` is nearly the refinement proof.
   The theorems about `CreatorPayouts` and `SubscriptionLifecycle` carried over to `BackgroundService`.
3. The public ledger, and stock edits of the catalogue against held stock.
