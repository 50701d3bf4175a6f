-------------------------- MODULE BackgroundService --------------------------
(***************************************************************************)
(* The singleton background service (background_service.py) and the jobs   *)
(* that depend on it.  Any number of processes compete for a lock in Redis *)
(* that runs out unless it is renewed; the one that holds it runs the      *)
(* jobs.  A process that has lost the lock stops when its next renewal     *)
(* fails, so two may run for a while; one that crashes leaves its lock     *)
(* behind, and what its jobs held in memory is gone.                       *)
(*                                                                         *)
(* The jobs are those of CreatorPayouts, SubscriptionLifecycle and         *)
(* GenerationPriority: their steps need a service that runs.  The three    *)
(* share nothing but the service; part says which one has work.  The       *)
(* passes of two services that overlap are taken as those of one; what     *)
(* overlapping workers do to a withdrawal is in CreatorPayouts.            *)
(***************************************************************************)
EXTENDS Integers, FiniteSets

CONSTANTS
    Services, NoService,
    MaxLosses       \* bounds the crashes, lost locks and failures

ASSUME ServiceAssumption == NoService \notin Services /\ MaxLosses \in Nat

VARIABLES
    holder,         \* the value of LOCK_KEY
    running,        \* services whose jobs run
    losses,
    part            \* the job that has work, if one has

leaseVars == <<holder, running, losses>>

-----------------------------------------------------------------------------
(* The jobs.                                                                 *)

CONSTANTS Payouts, Workers, Job, Amount, MaxEarnings
VARIABLES eligible, status, batch_known, attempt_count, lease, due, window, picked, calls,
          paypal, remembered, submissions

P == INSTANCE CreatorPayouts

CONSTANTS Requests, Approvals, Nobody
VARIABLES db, contracts, current, finishing, stopping, cancelling_all

S == INSTANCE SubscriptionLifecycle WITH paypal <- contracts, cancelling <- cancelling_all

CONSTANTS Generations, Stages
VARIABLES pro, row, locked, job, queues, work, stage, next, marker, cancelled, cancelling, passes

ASSUME StageAssumption == Stages \in Nat \ {0}

G == INSTANCE GenerationPriority

payoutVars == <<eligible, status, batch_known, attempt_count, lease, due, window, picked, calls,
                paypal, remembered, submissions>>
contractVars == <<db, contracts, current, finishing, stopping, cancelling_all>>
priorityVars == <<pro, row, locked, job, queues, work, stage, next, marker, cancelled, cancelling,
                  passes>>
serviceVars == <<leaseVars, part, payoutVars, contractVars, priorityVars>>

ServiceTypeOK ==
    /\ holder \in Services \cup {NoService}
    /\ running \subseteq Services
    /\ losses \in 0..MaxLosses
    /\ part \in {"none", "payouts", "contracts", "priority"}

ServiceInit ==
    /\ holder = NoService
    /\ running = {}
    /\ losses = 0
    /\ part \in {"none", "payouts", "contracts", "priority"}
    /\ P!Init /\ S!Init /\ G!PriorityInit

-----------------------------------------------------------------------------
(* The lock.                                                                 *)

\* Nothing a job holds in memory is left when no service runs.
Forget ==
    IF running' = {}
    THEN picked' = {} /\ passes' = [passes EXCEPT !["service"] = {}]
    ELSE UNCHANGED <<picked, passes>>

\* What the lock leaves alone; only Forget touches picked and passes.
Durable == <<part, eligible, status, batch_known, attempt_count, lease, due, window, calls,
             paypal, remembered, submissions, contractVars, pro, row, locked, job, queues, work,
             stage, next, marker, cancelled, cancelling>>

\* acquire_lock: SET NX EX.
Acquire(s) ==
    /\ s \notin running
    /\ holder = NoService
    /\ holder' = s
    /\ running' = running \cup {s}
    /\ UNCHANGED <<losses, picked, passes, Durable>>

\* keep_lock_renewed: EXPIRE, if the token is still its own.
Renew(s) == s \in running /\ holder = s /\ UNCHANGED serviceVars

\* The lock runs out: nobody is there to renew it, or its holder is too slow.
Expire ==
    /\ holder # NoService
    /\ holder' = NoService
    /\ losses' = IF holder \in running THEN losses + 1 ELSE losses
    /\ losses' <= MaxLosses
    /\ UNCHANGED <<running, picked, passes, Durable>>

\* Mutant: the key is deleted whoever holds it.
ReleasedAnyone(s) == NoService

\* release_lock compares the token.
Released(s) == IF holder = s THEN NoService ELSE holder

\* keep_lock_renewed finds that the lock is lost; the jobs are cancelled, but
\* a thread they have started goes on, so what it holds is not forgotten.
StopLoser(s) ==
    /\ s \in running
    /\ holder # s
    /\ running' = running \ {s}
    /\ holder' = Released(s)
    /\ UNCHANGED <<losses, picked, passes, Durable>>

\* A job or Redis fails; the lock is released, if Redis answers.
Fail(s) ==
    /\ s \in running
    /\ losses < MaxLosses
    /\ losses' = losses + 1
    /\ running' = running \ {s}
    /\ holder' \in {holder, Released(s)}
    /\ Forget
    /\ UNCHANGED Durable

-----------------------------------------------------------------------------
(* The jobs, and everything else that moves what they work on.               *)

Runs == running # {}

PayoutOther ==
    \/ P!CreatorStep \/ P!PayPalStep \/ P!TimeStep
    \/ \E c \in calls : P!Finish(c) \/ P!Vanish(c)

ContractOther ==
    \/ S!CancelAll \/ S!CancelAllFinish \/ \E c \in S!Contracts : S!StopContract(c)
    \/ S!CheckoutStep \/ S!PayPalStep

\* A step A of the job, which needs a service, or of its surroundings.
Payout(A) == part = "payouts" /\ A /\ UNCHANGED <<leaseVars, part, contractVars, priorityVars>>
Contract(A) == part = "contracts" /\ A /\ UNCHANGED <<leaseVars, part, payoutVars, priorityVars>>
Priority(A) == part = "priority" /\ A /\ UNCHANGED <<leaseVars, part, payoutVars, contractVars>>

LeaseStep == Expire \/ \E s \in Services : Acquire(s) \/ Renew(s) \/ StopLoser(s) \/ Fail(s)

ServiceNext ==
    \/ LeaseStep
    \/ Payout(Runs /\ P!ProcessStep) \/ Payout(PayoutOther)
    \/ Contract(Runs /\ S!Reconcile) \/ Contract(ContractOther)
    \/ Priority(Runs /\ G!ServiceStep) \/ Priority(G!OtherStep)

ServiceSpec == ServiceInit /\ [][ServiceNext]_serviceVars

\* Processes try again every ten seconds, and a lock that is not renewed ends.
LeaseFairness ==
    /\ WF_serviceVars(\E s \in Services : Acquire(s))
    /\ WF_serviceVars(holder \notin running /\ Expire)
    /\ \A s \in Services : WF_serviceVars(StopLoser(s))

\* As in CreatorPayouts, with a service for what the job does.
PayoutFairness ==
    /\ WF_serviceVars(Payout(Runs /\ P!JobReads))
    /\ WF_serviceVars(Payout(\E c \in calls : P!Finish(c) \/ P!Vanish(c)))
    /\ \A p \in Payouts :
        /\ WF_serviceVars(Payout(P!LeaseEnds(p)))
        /\ WF_serviceVars(Payout(P!CheckIsDue(p)))
        /\ WF_serviceVars(Payout(P!WindowCloses(p)))
        /\ WF_serviceVars(Payout(Runs /\ P!JobSkips(p)))
        /\ SF_serviceVars(Payout(Runs /\ (P!Begin(Job, p) \/ P!GiveUp(Job, p)
                                          \/ P!BalanceChanged(Job, p))))
        /\ SF_serviceVars(Payout(\E c \in calls :
               c.payout = p /\ c.answer \in P!Submitted /\ P!Finish(c)))
        /\ SF_serviceVars(Payout(\E c \in calls : c.payout = p /\ P!PayPalReports(c, paypal[p])))
        /\ WF_serviceVars(Payout(\E to \in P!Submitted : paypal[p] = "PENDING" /\ P!PayPalMoves(p, to)))

ContractFairness ==
    \A c \in S!Contracts :
        SF_serviceVars(Contract(/\ Runs /\ S!CancelPending(db[c])
                                /\ S!Reconcile /\ db'[c].status = "CANCELLED"))

\* The job runs every ten seconds.  Redis answers again and again, the listener
\* ends its transactions, and does not hold a row whenever the job comes.
PriorityFairness ==
    /\ WF_serviceVars(Priority(Runs /\ G!SyncReads("service")))
    /\ \A g \in Generations :
        /\ WF_serviceVars(Priority(\E state \in {"active", "done"} : G!UnlockRow(g, state)))
        /\ SF_serviceVars(Priority(Runs /\ G!Granted(g) /\ G!ReconcileGrants))
        /\ SF_serviceVars(Priority(Runs /\ G!Promote("service", g)))

FairServiceSpec ==
    ServiceSpec /\ LeaseFairness /\ PayoutFairness /\ ContractFairness /\ PriorityFairness

-----------------------------------------------------------------------------
(* Properties.                                                               *)

\* After the last loss one service runs, alone and for good: the lock of another
\* is never taken away by a process that stops (background_service.py:27-32).
OneServiceSettles == <>[](\E s \in Services : running = {s} /\ holder = s)

\* Whatever the services go through, an approved withdrawal is decided
\* (creator_payouts.py, run by background_service.py:71).
ApprovedIsResolved == P!ApprovedIsResolved

\* A contract that is scheduled to be cancelled is cancelled
\* (subscription_lifecycle.py, run by background_service.py:70).
ScheduledIsCancelled == S!ScheduledIsCancelled

\* A waiting job of a user who has become Pro leaves the slow queue
\* (generation_priority.py, run by background_service.py:72).
QueuedIsPromoted == G!QueuedIsPromoted

\* A promotion, a worker and a deletion meet: the job does not run twice, and a
\* cancelled one does not stay in a queue (generation_priority.py:27-66).
QueuesFollowJobs == G!QueuesFollowJobs
=============================================================================
