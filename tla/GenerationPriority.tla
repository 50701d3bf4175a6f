-------------------------- MODULE GenerationPriority --------------------------
(***************************************************************************)
(* The queues of one user's generations and their move to the fast queues  *)
(* when the user becomes Pro (generation_priority.py), against workers     *)
(* that take the jobs and deletions that cancel them (routers/generate.py).*)
(*                                                                         *)
(* The promotion of a job is one Lua script: one action.  Everything else  *)
(* in Redis goes step by step: a worker takes a job before it records that *)
(* it has started; a deletion marks the generation, reads the job's queue  *)
(* and removes it there; a worker chooses the queue of the next stage      *)
(* before it adds the job.  The workers and RQ are outside the repository, *)
(* modelled from what the code says of them.                               *)
(***************************************************************************)
EXTENDS Naturals, FiniteSets

CONSTANTS
    Generations,
    Stages          \* jobs of a generation, one after another: how many

VARIABLES
    pro,            \* the user is Pro
    row,            \* GenerationLog: its state, and pro_priority
    locked,         \* rows that the result listener has locked
    job,            \* per generation, the hash of its present job
    queues,         \* the two lists of job ids
    work,           \* what a worker does with the job
    stage,          \* of the present job
    next,           \* the queue chosen for a job that is to be added, or none
    marker,         \* generations with the key generation:pro_priority
    cancelled,      \* generations with the key generation:cancelled
    cancelling,     \* how far the deletion's cancellation is
    passes          \* what a run of sync_pro_priority has yet to promote

jobVars == <<job, queues, work, stage, next>>
cancelVars == <<cancelled, cancelling>>
priorityVars == <<pro, row, locked, jobVars, marker, cancelVars, passes>>

Queues == {"normal", "high"}
Runners == {"api", "service"}

NoJob == [status |-> "none", origin |-> "normal"]

PriorityTypeOK ==
    /\ pro \in BOOLEAN
    /\ row \in [Generations -> [state : {"absent", "active", "done", "deleted"}, priority : BOOLEAN]]
    /\ locked \subseteq Generations
    /\ job \in [Generations -> [status : {"none", "queued", "started", "scheduled", "canceled"},
                                origin : Queues]]
    /\ queues \in [Queues -> SUBSET Generations]
    /\ work \in [Generations -> {"none", "popped", "running"}]
    /\ stage \in [Generations -> 1..Stages]
    /\ next \in [Generations -> Queues \cup {"none"}]
    /\ marker \subseteq Generations /\ cancelled \subseteq Generations
    /\ cancelling \in [Generations -> {"no", "mark", "fetch", "over"} \cup Queues]
    /\ passes \in [Runners -> SUBSET Generations]

PriorityInit ==
    /\ pro = FALSE
    /\ row = [g \in Generations |-> [state |-> "absent", priority |-> FALSE]]
    /\ locked = {}
    /\ job = [g \in Generations |-> NoJob]
    /\ queues = [q \in Queues |-> {}]
    /\ work = [g \in Generations |-> "none"]
    /\ stage = [g \in Generations |-> 1]
    /\ next = [g \in Generations |-> "none"]
    /\ marker = {} /\ cancelled = {}
    /\ cancelling = [g \in Generations |-> "no"]
    /\ passes = [r \in Runners |-> {}]

-----------------------------------------------------------------------------
(* Creation.                                                                 *)

\* generate_image; generation_queue_prefix chooses the queue.
Create(g) ==
    /\ row[g].state = "absent"
    /\ row' = [row EXCEPT ![g] = [state |-> "active", priority |-> pro]]
    /\ next' = [next EXCEPT ![g] = IF pro THEN "high" ELSE "normal"]
    /\ UNCHANGED <<pro, locked, job, queues, work, stage, marker, cancelVars, passes>>

\* Queue.enqueue, by the creation or by a worker for the next stage.
Enqueue(g) ==
    /\ next[g] # "none"
    /\ job' = [job EXCEPT ![g] = [status |-> "queued", origin |-> next[g]]]
    /\ queues' = [queues EXCEPT ![next[g]] = @ \cup {g}]
    /\ next' = [next EXCEPT ![g] = "none"]
    /\ UNCHANGED <<pro, row, locked, work, stage, marker, cancelVars, passes>>

-----------------------------------------------------------------------------
(* Workers and RQ.                                                           *)

Pop(g, q) ==
    /\ g \in queues[q]
    /\ work[g] = "none"
    /\ queues' = [queues EXCEPT ![q] = @ \ {g}]
    /\ work' = [work EXCEPT ![g] = "popped"]
    /\ UNCHANGED <<pro, row, locked, job, stage, next, marker, cancelVars, passes>>

\* "RQ pops before it records started."
Start(g) ==
    /\ work[g] = "popped"
    /\ work' = [work EXCEPT ![g] = "running"]
    /\ job' = [job EXCEPT ![g].status = "started"]
    /\ UNCHANGED <<pro, row, locked, queues, stage, next, marker, cancelVars, passes>>

\* The end of a stage: of the last, or before the next, whose queue the worker
\* chooses by the marker.  A cancelled generation goes no further.
EndStage(g) ==
    /\ work[g] = "running"
    /\ work' = [work EXCEPT ![g] = "none"]
    /\ job' = [job EXCEPT ![g] = NoJob]
    /\ IF stage[g] < Stages /\ g \notin cancelled
       THEN /\ stage' = [stage EXCEPT ![g] = @ + 1]
            /\ next' = [next EXCEPT ![g] = IF g \in marker THEN "high" ELSE job[g].origin]
       ELSE UNCHANGED <<stage, next>>
    /\ UNCHANGED <<pro, row, locked, queues, marker, cancelVars, passes>>

\* A failed attempt waits for its retry, and then goes back to its queue.
Postpone(g) ==
    /\ work[g] = "running"
    /\ job[g].status = "started"
    /\ work' = [work EXCEPT ![g] = "none"]
    /\ job' = [job EXCEPT ![g].status = "scheduled"]
    /\ UNCHANGED <<pro, row, locked, queues, stage, next, marker, cancelVars, passes>>

Due(g) ==
    /\ job[g].status = "scheduled"
    /\ job' = [job EXCEPT ![g].status = "queued"]
    /\ queues' = [queues EXCEPT ![job[g].origin] = @ \cup {g}]
    /\ UNCHANGED <<pro, row, locked, work, stage, next, marker, cancelVars, passes>>

\* The result listener, which holds the row's lock while it works.
LockRow(g) ==
    /\ row[g].state = "active"
    /\ g \notin locked
    /\ locked' = locked \cup {g}
    /\ UNCHANGED <<pro, row, jobVars, marker, cancelVars, passes>>

UnlockRow(g, state) ==
    /\ g \in locked
    /\ state = "done" => work[g] = "none" /\ next[g] = "none"
    /\ locked' = locked \ {g}
    /\ row' = [row EXCEPT ![g].state = state]
    /\ UNCHANGED <<pro, jobVars, marker, cancelVars, passes>>

-----------------------------------------------------------------------------
(* The upgrade.                                                              *)

\* grant_pro_priority: "Skip locked generations."
Granted(g) == row[g].state = "active" /\ g \notin locked

Grant == row' = [g \in Generations |->
                    IF Granted(g) THEN [row[g] EXCEPT !.priority = TRUE] ELSE row[g]]

\* A verified payment.
BecomePro ==
    /\ ~pro
    /\ pro' = TRUE
    /\ Grant
    /\ UNCHANGED <<locked, jobVars, marker, cancelVars, passes>>

LosePro ==
    /\ pro
    /\ pro' = FALSE
    /\ UNCHANGED <<row, locked, jobVars, marker, cancelVars, passes>>

\* reconcile_pro_priority up to its commit.
ReconcileGrants ==
    /\ pro
    /\ \E g \in Generations : Granted(g) /\ ~row[g].priority
    /\ Grant
    /\ UNCHANGED <<pro, locked, jobVars, marker, cancelVars, passes>>

\* Mutant: what has been tried is not tried again.
ToPromoteOnce == {g \in Generations : row[g].state = "active" /\ row[g].priority /\ g \notin marker}

ToPromote == {g \in Generations : row[g].state = "active" /\ row[g].priority}

\* sync_pro_priority reads the rows, after a payment or in the service.
SyncReads(r) ==
    /\ passes[r] = {}
    /\ ToPromote # {}
    /\ passes' = [passes EXCEPT ![r] = ToPromote]
    /\ UNCHANGED <<pro, row, locked, jobVars, marker, cancelVars>>

\* Mutant: the LREM's result is not read.
MovableUnseen(g) == g \notin cancelled /\ job[g].status = "queued" /\ job[g].origin = "normal"

\* PROMOTE_JOB moves the job.
Movable(g) ==
    /\ g \notin cancelled
    /\ job[g].status = "queued"
    /\ job[g].origin = "normal"
    /\ g \in queues["normal"]

\* The marker, then the script.
Promote(r, g) ==
    /\ g \in passes[r]
    /\ passes' = [passes EXCEPT ![r] = @ \ {g}]
    /\ marker' = marker \cup {g}
    /\ IF Movable(g)
       THEN /\ job' = [job EXCEPT ![g].origin = "high"]
            /\ queues' = [normal |-> queues["normal"] \ {g}, high |-> queues["high"] \cup {g}]
       ELSE UNCHANGED <<job, queues>>
    /\ UNCHANGED <<pro, row, locked, work, stage, next, cancelVars>>

\* Redis does not answer: "Pro queue promotion deferred".
SyncFails(r) ==
    /\ passes[r] # {}
    /\ passes' = [passes EXCEPT ![r] = {}]
    /\ UNCHANGED <<pro, row, locked, jobVars, marker, cancelVars>>

-----------------------------------------------------------------------------
(* The deletion: the row is committed first, then cancel_generation_jobs.    *)

Delete(g) ==
    /\ row[g].state = "active" /\ g \notin locked
    /\ row' = [row EXCEPT ![g].state = "deleted"]
    /\ cancelling' = [cancelling EXCEPT ![g] = "mark"]
    /\ UNCHANGED <<pro, locked, jobVars, marker, cancelled, passes>>

\* "Failed to mark generation as cancelled" is printed only.
Mark(g) ==
    /\ cancelling[g] = "mark"
    /\ cancelled' \in {cancelled, cancelled \cup {g}}
    /\ cancelling' = [cancelling EXCEPT ![g] = "fetch"]
    /\ UNCHANGED <<pro, row, locked, jobVars, marker, passes>>

\* Job.fetch reads the queue the job is in.
FetchJob(g) ==
    /\ cancelling[g] = "fetch"
    /\ cancelling' = [cancelling EXCEPT ![g] =
                        IF job[g].status = "none" THEN "over" ELSE job[g].origin]
    /\ UNCHANGED <<pro, row, locked, jobVars, marker, cancelled, passes>>

\* Job.cancel removes it there.
CancelJob(g) ==
    /\ cancelling[g] \in Queues
    /\ queues' = [queues EXCEPT ![cancelling[g]] = @ \ {g}]
    /\ job' = [job EXCEPT ![g].status = IF @ = "none" THEN @ ELSE "canceled"]
    /\ cancelling' = [cancelling EXCEPT ![g] = "over"]
    /\ UNCHANGED <<pro, row, locked, work, stage, next, marker, cancelled, passes>>

-----------------------------------------------------------------------------
WorkerStep(g) ==
    \/ \E q \in Queues : Pop(g, q)
    \/ Start(g) \/ EndStage(g) \/ Postpone(g) \/ Due(g)
    \/ LockRow(g) \/ \E state \in {"active", "done"} : UnlockRow(g, state)

ApiStep(g) == Create(g) \/ Enqueue(g) \/ Delete(g) \/ Mark(g) \/ FetchJob(g) \/ CancelJob(g)

SyncStep(r) == SyncReads(r) \/ SyncFails(r) \/ \E g \in Generations : Promote(r, g)

ServiceStep == ReconcileGrants \/ SyncStep("service")

OtherStep ==
    \/ \E g \in Generations : WorkerStep(g) \/ ApiStep(g)
    \/ BecomePro \/ LosePro
    \/ SyncStep("api")

PriorityNext == ServiceStep \/ OtherStep

PrioritySpec == PriorityInit /\ [][PriorityNext]_priorityVars

-----------------------------------------------------------------------------
(* Properties.                                                               *)

\* A job that a worker has taken is in no queue, also when it is promoted in
\* the moment between the worker's pop and its "started": it does not run twice
\* (generation_priority.py:28-29).
TakenIsNotQueued ==
    \A g \in Generations : work[g] # "none" => \A q \in Queues : g \notin queues[q]

\* A job cancelled after its generation was marked is in no queue: a promotion
\* cannot have moved it away from under the cancellation
\* (generation_priority.py:32, routers/generate.py:131-134).
CancelledLeavesQueue ==
    \A g \in Generations :
        job[g].status = "canceled" /\ g \in cancelled => \A q \in Queues : g \notin queues[q]

\* The queues hold the jobs that are to be run and no other
\* (generation_priority.py:27-66, routers/generate.py:89-145).
QueuesFollowJobs == TakenIsNotQueued /\ CancelledLeavesQueue

\* A job that waits in the slow queue while its user is Pro leaves it, whatever
\* locks, outages of Redis and workers did meanwhile (generation_priority.py:112).
WaitsSlowly(g) == pro /\ row[g].state = "active" /\ g \in queues["normal"]

QueuedIsPromoted ==
    \A g \in Generations :
        WaitsSlowly(g) ~> (g \notin queues["normal"] \/ ~pro \/ row[g].state # "active")
=============================================================================
