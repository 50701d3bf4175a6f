---------------------------- MODULE BackgroundProofs ----------------------------
(***************************************************************************)
(* For any number of services, generations and stages, the queues hold the *)
(* jobs that are to be run and no other (QueuesFollowJobs), although a     *)
(* worker, the promotion and a deletion act on a job at once and the       *)
(* service that promotes may crash or run twice.                           *)
(*                                                                         *)
(* PlaceInv says where the job of a generation can be: in the one queue    *)
(* that its hash names, with a worker, waiting for a retry or about to be  *)
(* added.  CancelInv says what a deletion knows: the queue it has read     *)
(* stays the job's, since a marked generation is neither promoted nor      *)
(* given a next stage.  Of the service nothing is needed: what it has in   *)
(* memory is a list of generations to try, which may be any.               *)
(***************************************************************************)
EXTENDS BackgroundService, TLAPS

TypeInv ==
    /\ pro \in BOOLEAN
    /\ row \in [Generations -> [state : {"absent", "active", "done", "deleted"}, priority : BOOLEAN]]
    /\ job \in [Generations -> [status : {"none", "queued", "started", "scheduled", "canceled"},
                                origin : G!Queues]]
    /\ queues \in [G!Queues -> SUBSET Generations]
    /\ work \in [Generations -> {"none", "popped", "running"}]
    /\ next \in [Generations -> G!Queues \cup {"none"}]
    /\ cancelling \in [Generations -> {"no", "mark", "fetch", "over"} \cup G!Queues]

\* A generation that has not been created, or is not being deleted.
LifeInv(g) ==
    /\ row[g].state = "absent" =>
        job[g].status = "none" /\ work[g] = "none" /\ next[g] = "none"
    /\ row[g].state \in {"absent", "active"} => cancelling[g] = "no"
    /\ g \in locked => row[g].state = "active"

\* Where the job is.
PlaceInv(g) ==
    /\ \A q \in G!Queues : g \in queues[q] =>
        q = job[g].origin /\ job[g].status \in {"queued", "canceled"} /\ work[g] = "none"
    /\ next[g] # "none" => job[g].status = "none" /\ work[g] = "none"
    /\ job[g].status = "scheduled" => work[g] = "none"
    /\ work[g] # "none" => job[g].status # "none"

\* What a cancellation of a marked generation has read still holds.
CancelInv(g) ==
    /\ cancelling[g] \in {"no", "mark", "fetch"} => job[g].status # "canceled"
    /\ cancelling[g] \in G!Queues /\ g \in cancelled =>
        next[g] = "none" /\ (job[g].status = "none" \/ job[g].origin = cancelling[g])
    /\ job[g].status = "canceled" /\ g \in cancelled => \A q \in G!Queues : g \notin queues[q]

JobInv == \A g \in Generations : LifeInv(g) /\ PlaceInv(g) /\ CancelInv(g)

QueueInv == TypeInv /\ JobInv

LEMMA QueueInvInit == G!PriorityInit => QueueInv
<1> SUFFICES ASSUME G!PriorityInit PROVE QueueInv
  OBVIOUS
<1>1. TypeInv
  BY DEF G!PriorityInit, TypeInv, G!NoJob, G!Queues
<1>2. JobInv
  BY DEF G!PriorityInit, JobInv, LifeInv, PlaceInv, CancelInv, G!NoJob, G!Queues
<1> QED BY <1>1, <1>2 DEF QueueInv

LEMMA QueueTypeStep ==
  ASSUME TypeInv, [G!PriorityNext]_priorityVars
  PROVE  TypeInv'
<1> USE DEF TypeInv, G!Queues, G!jobVars, G!cancelVars
<1>1. ASSUME NEW g \in Generations, G!WorkerStep(g)
      PROVE  TypeInv'
  <2>1. ASSUME NEW q \in G!Queues, G!Pop(g, q)
        PROVE  TypeInv'
    BY <2>1 DEF G!Pop
  <2>2. CASE G!Start(g)
    BY <2>2 DEF G!Start
  <2>3. CASE G!EndStage(g)
    BY <2>3 DEF G!EndStage, G!NoJob
  <2>4. CASE G!Postpone(g)
    BY <2>4 DEF G!Postpone
  <2>5. CASE G!Due(g)
    BY <2>5 DEF G!Due
  <2>6. CASE G!LockRow(g)
    BY <2>6 DEF G!LockRow
  <2>7. ASSUME NEW state \in {"active", "done"}, G!UnlockRow(g, state)
        PROVE  TypeInv'
    BY <2>7 DEF G!UnlockRow
  <2> QED BY <1>1, <2>1, <2>2, <2>3, <2>4, <2>5, <2>6, <2>7 DEF G!WorkerStep
<1>2. ASSUME NEW g \in Generations, G!ApiStep(g)
      PROVE  TypeInv'
  <2>1. CASE G!Create(g)
    BY <2>1 DEF G!Create
  <2>2. CASE G!Enqueue(g)
    BY <2>2 DEF G!Enqueue
  <2>3. CASE G!Delete(g)
    BY <2>3 DEF G!Delete
  <2>4. CASE G!Mark(g)
    BY <2>4 DEF G!Mark
  <2>5. CASE G!FetchJob(g)
    BY <2>5 DEF G!FetchJob
  <2>6. CASE G!CancelJob(g)
    BY <2>6 DEF G!CancelJob
  <2> QED BY <1>2, <2>1, <2>2, <2>3, <2>4, <2>5, <2>6 DEF G!ApiStep
<1>3. ASSUME NEW r, G!SyncStep(r)
      PROVE  TypeInv'
  <2>1. ASSUME NEW g \in Generations, G!Promote(r, g)
        PROVE  TypeInv'
    <3>1. CASE G!Movable(g)
      <4>1. job' = [job EXCEPT ![g].origin = "high"] /\ UNCHANGED <<pro, row, work, next, cancelling>>
        BY <2>1, <3>1 DEF G!Promote
      <4>2. queues' = [normal |-> queues["normal"] \ {g}, high |-> queues["high"] \cup {g}]
        BY <2>1, <3>1 DEF G!Promote
      <4>3. queues' \in [{"normal", "high"} -> SUBSET Generations]
        BY <4>2
      <4> QED BY <4>1, <4>3
    <3>2. CASE ~G!Movable(g)
      BY <2>1, <3>2 DEF G!Promote
    <3> QED BY <3>1, <3>2
  <2> QED BY <1>3, <2>1 DEF G!SyncStep, G!SyncReads, G!SyncFails
<1>4. CASE G!BecomePro \/ G!LosePro \/ G!ReconcileGrants
  <2>1. UNCHANGED <<job, queues, work, next, cancelling>> /\ pro' \in BOOLEAN
    BY <1>4 DEF G!BecomePro, G!LosePro, G!ReconcileGrants
  <2>2. G!Grant \/ UNCHANGED row
    BY <1>4 DEF G!BecomePro, G!LosePro, G!ReconcileGrants
  <2>3. row' \in [Generations -> [state : {"absent", "active", "done", "deleted"}, priority : BOOLEAN]]
    <3>1. CASE G!Grant
      <4>1. ASSUME NEW g \in Generations
            PROVE  row'[g] \in [state : {"absent", "active", "done", "deleted"}, priority : BOOLEAN]
        <5>1. row'[g] = row[g] \/ row'[g] = [row[g] EXCEPT !.priority = TRUE]
          BY <3>1 DEF G!Grant
        <5> QED BY <5>1
      <4> QED BY <3>1, <4>1 DEF G!Grant
    <3>2. CASE UNCHANGED row
      BY <3>2
    <3> QED BY <2>2, <3>1, <3>2
  <2> QED BY <2>1, <2>3
<1>5. CASE UNCHANGED priorityVars
  BY <1>5 DEF priorityVars
<1> QED BY <1>1, <1>2, <1>3, <1>4, <1>5 DEF G!PriorityNext, G!ServiceStep, G!OtherStep

\* What JobInv(g) is about.
Untouched(g) ==
    /\ row'[g].state = row[g].state /\ (g \in locked' <=> g \in locked)
    /\ job'[g] = job[g] /\ work'[g] = work[g] /\ next'[g] = next[g]
    /\ \A q \in G!Queues : g \in queues'[q] <=> g \in queues[q]
    /\ (g \in cancelled' <=> g \in cancelled) /\ cancelling'[g] = cancelling[g]

\* Whatever one generation's step does, the others keep theirs.
LEMMA UntouchedStep ==
  ASSUME NEW g \in Generations, JobInv, Untouched(g)
  PROVE  (LifeInv(g) /\ PlaceInv(g) /\ CancelInv(g))'
BY DEF JobInv, LifeInv, PlaceInv, CancelInv, Untouched

\* Each step of a generation leaves the others untouched.
LEMMA OthersUntouched ==
  ASSUME TypeInv, NEW g \in Generations, NEW h \in Generations, h # g,
         G!WorkerStep(g) \/ G!ApiStep(g) \/ \E r : G!Promote(r, g)
  PROVE  Untouched(h)
<1> USE DEF TypeInv, Untouched, G!Queues, G!jobVars, G!cancelVars
<1>1. ASSUME NEW q \in G!Queues, G!Pop(g, q)
      PROVE  Untouched(h)
  BY <1>1 DEF G!Pop
<1>2. CASE G!Start(g) \/ G!EndStage(g)
  BY <1>2 DEF G!Start, G!EndStage
<1>3. CASE G!Postpone(g) \/ G!Due(g) \/ G!LockRow(g)
  BY <1>3 DEF G!Postpone, G!Due, G!LockRow
<1>4. ASSUME NEW state, G!UnlockRow(g, state)
      PROVE  Untouched(h)
  BY <1>4 DEF G!UnlockRow
<1>5. CASE G!Create(g) \/ G!Enqueue(g) \/ G!Delete(g)
  BY <1>5 DEF G!Create, G!Enqueue, G!Delete
<1>6. CASE G!Mark(g) \/ G!FetchJob(g) \/ G!CancelJob(g)
  BY <1>6 DEF G!Mark, G!FetchJob, G!CancelJob
<1>7. ASSUME NEW r, G!Promote(r, g)
      PROVE  Untouched(h)
  BY <1>7 DEF G!Promote
<1> QED BY <1>1, <1>2, <1>3, <1>4, <1>5, <1>6, <1>7 DEF G!WorkerStep, G!ApiStep

\* The generation's own step: the worker.
LEMMA WorkerKeeps ==
  ASSUME TypeInv, NEW g \in Generations, LifeInv(g), PlaceInv(g), CancelInv(g), G!WorkerStep(g)
  PROVE  (LifeInv(g) /\ PlaceInv(g) /\ CancelInv(g))'
<1> USE DEF TypeInv, LifeInv, PlaceInv, CancelInv, G!Queues, G!jobVars, G!cancelVars
<1>1. ASSUME NEW q \in G!Queues, G!Pop(g, q)
      PROVE  (LifeInv(g) /\ PlaceInv(g) /\ CancelInv(g))'
  BY <1>1 DEF G!Pop
<1>2. CASE G!Start(g)
  BY <1>2 DEF G!Start
<1>3. CASE G!EndStage(g)
  BY <1>3 DEF G!EndStage, G!NoJob
<1>4. CASE G!Postpone(g)
  BY <1>4 DEF G!Postpone
<1>5. CASE G!Due(g)
  BY <1>5 DEF G!Due
<1>6. CASE G!LockRow(g)
  BY <1>6 DEF G!LockRow
<1>7. ASSUME NEW state \in {"active", "done"}, G!UnlockRow(g, state)
      PROVE  (LifeInv(g) /\ PlaceInv(g) /\ CancelInv(g))'
  BY <1>7 DEF G!UnlockRow
<1> QED BY <1>1, <1>2, <1>3, <1>4, <1>5, <1>6, <1>7 DEF G!WorkerStep

\* The API's: a creation, or a deletion that cancels.
LEMMA ApiKeeps ==
  ASSUME TypeInv, NEW g \in Generations, LifeInv(g), PlaceInv(g), CancelInv(g), G!ApiStep(g)
  PROVE  (LifeInv(g) /\ PlaceInv(g) /\ CancelInv(g))'
<1> USE DEF TypeInv, LifeInv, PlaceInv, CancelInv, G!Queues, G!jobVars, G!cancelVars
<1>1. CASE G!Create(g)
  BY <1>1 DEF G!Create
<1>2. CASE G!Enqueue(g)
  BY <1>2 DEF G!Enqueue
<1>3. CASE G!Delete(g)
  BY <1>3 DEF G!Delete
<1>4. CASE G!Mark(g)
  BY <1>4 DEF G!Mark
<1>5. CASE G!FetchJob(g)
  BY <1>5 DEF G!FetchJob
<1>6. CASE G!CancelJob(g)
  BY <1>6 DEF G!CancelJob
<1> QED BY <1>1, <1>2, <1>3, <1>4, <1>5, <1>6 DEF G!ApiStep

\* The promotion's.
LEMMA PromotionKeeps ==
  ASSUME TypeInv, NEW g \in Generations, LifeInv(g), PlaceInv(g), CancelInv(g), NEW r, G!Promote(r, g)
  PROVE  (LifeInv(g) /\ PlaceInv(g) /\ CancelInv(g))'
<1> USE DEF TypeInv, LifeInv, PlaceInv, CancelInv, G!Queues, G!jobVars, G!cancelVars
<1>1. CASE G!Movable(g)
  BY <1>1 DEF G!Promote, G!Movable
<1>2. CASE ~G!Movable(g)
  BY <1>2 DEF G!Promote
<1> QED BY <1>1, <1>2

LEMMA JobInvStep ==
  ASSUME TypeInv, JobInv, [G!PriorityNext]_priorityVars
  PROVE  JobInv'
<1>1. ASSUME NEW g \in Generations, G!WorkerStep(g) \/ G!ApiStep(g) \/ \E r : G!Promote(r, g)
      PROVE  JobInv'
  <2>1. LifeInv(g) /\ PlaceInv(g) /\ CancelInv(g)
    BY DEF JobInv
  <2>2. (LifeInv(g) /\ PlaceInv(g) /\ CancelInv(g))'
    BY <1>1, <2>1, WorkerKeeps, ApiKeeps, PromotionKeeps
  <2>3. ASSUME NEW h \in Generations, h # g
        PROVE  (LifeInv(h) /\ PlaceInv(h) /\ CancelInv(h))'
    BY <1>1, <2>3, OthersUntouched, UntouchedStep
  <2> QED BY <2>2, <2>3 DEF JobInv
<1>2. ASSUME \A g \in Generations : Untouched(g)
      PROVE  JobInv'
  BY <1>2, UntouchedStep DEF JobInv
<1>3. CASE G!BecomePro \/ G!LosePro \/ G!ReconcileGrants \/ UNCHANGED priorityVars
  <2>1. UNCHANGED <<locked, G!jobVars, G!cancelVars>>
    BY <1>3 DEF G!BecomePro, G!LosePro, G!ReconcileGrants, G!jobVars, G!cancelVars, priorityVars
  <2>2. G!Grant \/ UNCHANGED row
    BY <1>3 DEF G!BecomePro, G!LosePro, G!ReconcileGrants, priorityVars
  <2>3. \A g \in Generations : row'[g].state = row[g].state
    BY <2>2 DEF G!Grant, TypeInv
  <2> QED BY <1>2, <2>1, <2>3 DEF Untouched, G!jobVars, G!cancelVars
<1>4. ASSUME NEW r, G!SyncReads(r) \/ G!SyncFails(r)
      PROVE  JobInv'
  BY <1>2, <1>4 DEF G!SyncReads, G!SyncFails, Untouched, G!jobVars, G!cancelVars
<1> QED BY <1>1, <1>3, <1>4 DEF G!PriorityNext, G!ServiceStep, G!OtherStep, G!SyncStep

\* The service's lock, and the other jobs, leave all of it alone.
LEMMA ServiceStepKeeps ==
  ASSUME QueueInv, [ServiceNext]_serviceVars
  PROVE  QueueInv'
<1>1. CASE [G!PriorityNext]_priorityVars
  BY <1>1, QueueTypeStep, JobInvStep DEF QueueInv
<1>2. CASE LeaseStep
  <2>1. UNCHANGED <<pro, row, locked, job, queues, work, next, cancelled, cancelling>>
    BY <1>2 DEF LeaseStep, Expire, Acquire, Renew, StopLoser, Fail, Durable, serviceVars,
                priorityVars
  <2> QED BY <2>1 DEF QueueInv, TypeInv, JobInv, LifeInv, PlaceInv, CancelInv
<1>3. ASSUME \/ Payout(Runs /\ P!ProcessStep) \/ Payout(PayoutOther)
             \/ Contract(Runs /\ S!Reconcile) \/ Contract(ContractOther)
             \/ UNCHANGED serviceVars
      PROVE  UNCHANGED priorityVars
  BY <1>3 DEF Payout, Contract, serviceVars
<1>4. ASSUME Priority(Runs /\ G!ServiceStep) \/ Priority(G!OtherStep)
      PROVE  G!PriorityNext
  BY <1>4 DEF Priority, G!PriorityNext
<1> QED BY <1>1, <1>2, <1>3, <1>4 DEF ServiceNext

LEMMA QueueInvariant == ServiceSpec => []QueueInv
<1>1. ServiceInit => QueueInv
  BY QueueInvInit DEF ServiceInit
<1>2. QueueInv /\ [ServiceNext]_serviceVars => QueueInv'
  BY ServiceStepKeeps
<1> QED BY <1>1, <1>2, PTL DEF ServiceSpec

\* A job that a worker has taken, or that was cancelled after its generation was
\* marked, is in no queue, however the promotion meets the worker and the
\* deletion (generation_priority.py:27-66, routers/generate.py:89-145).
THEOREM QueuesSound == ServiceSpec => []QueuesFollowJobs
<1>1. QueueInv => QueuesFollowJobs
  <2> SUFFICES ASSUME QueueInv PROVE QueuesFollowJobs
    OBVIOUS
  <2>1. G!TakenIsNotQueued
    BY DEF QueueInv, JobInv, PlaceInv, G!TakenIsNotQueued
  <2>2. G!CancelledLeavesQueue
    BY DEF QueueInv, JobInv, CancelInv, G!CancelledLeavesQueue
  <2> QED BY <2>1, <2>2 DEF QueuesFollowJobs, G!QueuesFollowJobs
<1> QED BY <1>1, QueueInvariant, PTL
=============================================================================
