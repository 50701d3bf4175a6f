---------------------------- MODULE GenerationJobs ----------------------------
(***************************************************************************)
(* Skin generations of one user: the charge, the results the workers send, *)
(* the refund, the recovery of lost jobs (routers/generate.py), and the    *)
(* deletion with the withdrawal of the files (skin_withdrawal.py).         *)
(*                                                                         *)
(* A handler or job that locks the generation's row is one action.  The    *)
(* creation commits the charge and the row before it queues the job, so it *)
(* goes on in a second transaction; it has not locked the row then.        *)
(* Results are delivered in any order and more than once: the listener     *)
(* acknowledges a message after its commit, and two background processes   *)
(* may overlap when the lock between them runs out.                        *)
(*                                                                         *)
(* Outside the repository, and modelled from its use here: the workers and *)
(* their queues (work), the object storage (files), the CDN (cached,       *)
(* purge).  The generations are of the two-stage models on offer           *)
(* (pipeline_registry.py).  The queue and quota limits are left out: they  *)
(* are read without a lock, so concurrent requests may pass them together. *)
(***************************************************************************)
EXTENDS Integers, FiniteSets

CONSTANTS
    Logs,       \* generation ids
    Public,     \* those with is_public
    Cost,       \* credits_charged
    Credits     \* the user's first balance

ASSUME LogAssumption == Public \subseteq Logs /\ IsFiniteSet(Logs)
ASSUME CostAssumption == Cost \in Nat \ {0} /\ Credits \in Nat

VARIABLES
    row,         \* per generation: its GenerationLog
    credits,     \* User.credits
    refunds,     \* generations with a refund in the credit log
    queueing,    \* creations between their commit and the end of the enqueue
    unqueued,    \* creations whose enqueue has raised an exception
    work,        \* what the workers and their queues hold of a generation
    messages,    \* what the workers have sent, each to be read once or more
    manifest,    \* GenerationLog.withdrawal
    files,       \* the generation's objects in the storage
    cached,      \* copies of them in the CDN
    purge        \* the CDN's invalidation of them

userVars == <<credits, refunds>>
jobVars  == <<queueing, unqueued, work>>
fileVars == <<files, cached, purge>>
vars == <<row, userVars, jobVars, messages, manifest, fileVars>>

Assets == {"image", "skin"}  \* image_to_skin_edited_result and result

ActiveStatuses == {"pending", "processing", "pending_skin"}
Statuses == ActiveStatuses \cup {"absent", "success", "failed", "deleted"}

\* submission: provider_submission_state, "accepted" with a provider_task_id.
Row == [status : Statuses, keys : SUBSET Assets, submission : {"not_started", "accepted"},
        refunded : BOOLEAN, deleted : BOOLEAN]

\* No manifest; one that waits has keys to delete, and the keys already deleted.
NoManifest == [waits |-> FALSE, keys |-> {}, gone |-> {}]
Manifest == [waits : BOOLEAN, keys : SUBSET Assets, gone : SUBSET Assets]

Kinds == {"submitted", "imaged", "success", "image_failed", "skin_failed"}
Message == [log : Logs, kind : Kinds]

Absent == [status |-> "absent", keys |-> {}, submission |-> "not_started",
           refunded |-> FALSE, deleted |-> FALSE]

GenerationTypeOK ==
    /\ row \in [Logs -> Row]
    /\ credits \in Nat
    /\ refunds \subseteq Logs
    /\ queueing \subseteq Logs
    /\ unqueued \subseteq Logs
    /\ work \in [Logs -> {"none", "queued", "provider", "skin"}]
    /\ messages \subseteq Message
    /\ manifest \in [Logs -> Manifest]
    /\ \A l \in Logs : manifest[l].gone \subseteq manifest[l].keys
    /\ files \in [Logs -> SUBSET Assets]
    /\ cached \in [Logs -> SUBSET Assets]
    /\ purge \in [Logs -> {"none", "requested", "completed"}]

Init ==
    /\ row = [l \in Logs |-> Absent]
    /\ credits = Credits
    /\ refunds = {}
    /\ queueing = {}
    /\ unqueued = {}
    /\ work = [l \in Logs |-> "none"]
    /\ messages = {}
    /\ manifest = [l \in Logs |-> NoManifest]
    /\ files = [l \in Logs |-> {}]
    /\ cached = [l \in Logs |-> {}]
    /\ purge = [l \in Logs |-> "none"]

-----------------------------------------------------------------------------
(* The refund.                                                               *)

\* Mutant: the credit log is not consulted.
OwedByFlag(l, flag) == ~flag

\* flag: the row's credits_refunded as the caller has read it.
Owed(l, flag) == ~flag /\ l \notin refunds

\* refund_generation_credits, which locks the user.
Refund(l, flag) ==
    IF Owed(l, flag)
    THEN credits' = credits + Cost /\ refunds' = refunds \cup {l}
    ELSE UNCHANGED userVars

-----------------------------------------------------------------------------
(* Creation.                                                                 *)

Affordable == credits >= Cost

Max0(n) == IF n > 0 THEN n ELSE 0

\* generate_image up to its commit: the balance is locked.
Create(l) ==
    /\ row[l].status = "absent"
    /\ Affordable
    /\ credits' = Max0(credits - Cost)
    /\ row' = [row EXCEPT ![l] = [Absent EXCEPT !.status = "pending"]]
    /\ queueing' = queueing \cup {l}
    /\ UNCHANGED <<refunds, unqueued, work, messages, manifest, fileVars>>

\* enqueue_generation_task; its exception does not say that nothing was queued.
Enqueue(l) ==
    /\ l \in queueing
    /\ queueing' = queueing \ {l}
    /\ \/ work' = [work EXCEPT ![l] = "queued"] /\ unqueued' \in {unqueued, unqueued \cup {l}}
       \/ work' = work /\ unqueued' = unqueued \cup {l}
    /\ UNCHANGED <<row, userVars, messages, manifest, fileVars>>

\* The creation's answer to the exception, without a lock of the row and with
\* the row as it was after the commit.
FailCreation(l) ==
    /\ l \in unqueued
    /\ unqueued' = unqueued \ {l}
    /\ row' = [row EXCEPT ![l].status = "failed", ![l].refunded = TRUE]
    /\ Refund(l, FALSE)
    /\ UNCHANGED <<queueing, work, messages, manifest, fileVars>>

-----------------------------------------------------------------------------
(* Workers, and what Redis may lose.                                         *)

Send(l, kind) == messages' = messages \cup {[log |-> l, kind |-> kind]}

\* From one stage to the next, with a message.
Advance(l, from, to, kind) ==
    /\ work[l] = from
    /\ work' = [work EXCEPT ![l] = to]
    /\ Send(l, kind)

\* Stage one asks the provider for an image.
SubmitImage(l) == Advance(l, "queued", "provider", "submitted") /\ UNCHANGED files

\* "In-flight workers consult this tombstone before publishing results."
Publish(l, from, to, kind, asset) ==
    /\ ~row[l].deleted
    /\ Advance(l, from, to, kind)
    /\ files' = [files EXCEPT ![l] = @ \cup {asset}]

WorkFails(l) ==
    /\ \/ work[l] = "skin" /\ Send(l, "skin_failed")
       \/ work[l] \in {"queued", "provider"} /\ Send(l, "image_failed")
    /\ work' = [work EXCEPT ![l] = "none"]
    /\ UNCHANGED files

\* Jobs vanish with their worker or with Redis.
LoseWork(l) ==
    /\ work[l] # "none"
    /\ work' = [work EXCEPT ![l] = "none"]
    /\ UNCHANGED <<messages, files>>

Worker(l) ==
    /\ \/ SubmitImage(l)
       \/ Publish(l, "provider", "skin", "imaged", "image")
       \/ Publish(l, "skin", "none", "success", "skin")
       \/ WorkFails(l)
       \/ LoseWork(l)
    /\ UNCHANGED <<row, userVars, queueing, unqueued, manifest, cached, purge>>

\* What the recovery puts back into the queues, from what the row says.
Recovered(r) ==
    IF r.status = "pending_skin"
    THEN IF "image" \in r.keys THEN "skin" ELSE "none"
    ELSE IF r.submission = "accepted" THEN "provider" ELSE "queued"

\* re_enqueue_if_missing.
Recover(l) ==
    /\ row[l].status \in ActiveStatuses
    /\ row[l].status \in {"pending", "processing"} => row[l].keys \cap {"image", "skin"} = {}
    /\ work[l] = "none"
    /\ work' = [work EXCEPT ![l] = Recovered(row[l])]
    /\ UNCHANGED <<row, userVars, queueing, unqueued, messages, manifest, fileVars>>

-----------------------------------------------------------------------------
(* The listener.                                                             *)

StatusOf(kind) ==
    CASE kind = "submitted" -> "processing"
      [] kind = "imaged"    -> "pending_skin"
      [] kind = "success"   -> "success"
      [] kind \in {"image_failed", "skin_failed"} -> "failed"

Rank(s) == CASE s = "pending" -> 0 [] s = "processing" -> 1 [] s = "pending_skin" -> 2

\* Mutant: a late failure takes back a success.
AppliesLateFailure(r, kind) ==
    /\ r.status # "deleted"
    /\ r.status = "success" => StatusOf(kind) = "failed"

\* should_apply_generation_status.
Applies(r, kind) ==
    /\ r.status # "deleted"
    /\ r.status = "success" => kind = "success" /\ "skin" \notin r.keys
    /\ kind = "image_failed" => r.status \in {"pending", "processing", "failed"}
    /\ kind \in {"submitted", "imaged"} =>
           r.status = "failed" \/ Rank(StatusOf(kind)) >= Rank(r.status)

\* apply_generation_result_update.
Applied(r, kind) ==
    [r EXCEPT !.status = StatusOf(kind),
              !.submission = IF kind = "submitted" THEN "accepted" ELSE @,
              !.keys = @ \cup (IF kind = "imaged" THEN {"image"} ELSE {})
                         \cup (IF kind = "success" THEN {"skin"} ELSE {})]

Refunds(kind) == kind \in {"image_failed", "skin_failed"}

\* start_result_listener.  A lost acknowledgement brings the message back, so
\* none is taken out: an acknowledged one is one that does not come again.
Listen(m) ==
    /\ m \in messages
    /\ row[m.log].status # "absent"
    /\ LET r == row[m.log] IN
       IF Applies(r, m.kind)
       THEN /\ row' = [row EXCEPT ![m.log] =
                          [Applied(r, m.kind) EXCEPT !.refunded = @ \/ Refunds(m.kind)]]
            /\ IF Refunds(m.kind) THEN Refund(m.log, r.refunded) ELSE UNCHANGED userVars
       ELSE UNCHANGED <<row, userVars>>
    /\ UNCHANGED <<jobVars, messages, manifest, fileVars>>

-----------------------------------------------------------------------------
(* Deletion and the withdrawal of the files.                                 *)

\* Mutant: no tombstone.
BeginDeleteUnmarked(l) ==
    /\ row[l].status # "absent"
    /\ ~manifest[l].waits
    /\ manifest' = [manifest EXCEPT ![l] = [waits |-> TRUE, keys |-> row[l].keys, gone |-> {}]]
    /\ UNCHANGED <<row, userVars, jobVars, messages, fileVars>>

\* begin: the tombstone and the list of files, committed first.  Left out: an
\* administrator who deletes it again, with no files unless a late FailCreation
\* has revived the row.
BeginDelete(l) ==
    /\ row[l].status # "absent"
    /\ ~row[l].deleted
    /\ row' = [row EXCEPT ![l].deleted = TRUE]
    /\ manifest' = [manifest EXCEPT ![l] = [waits |-> TRUE, keys |-> row[l].keys, gone |-> {}]]
    /\ UNCHANGED <<userVars, jobVars, messages, fileVars>>

\* Mutants: the CDN is asked before the files are deleted; only the attempt that
\* deletes the first file asks it.
CdnAskedAtOnce(l, rest) == l \in Public /\ manifest[l].keys # {}
CdnAskedByFirst(l, rest) ==
    l \in Public /\ manifest[l].keys # {} /\ rest = {} /\ manifest[l].gone = {}

\* create_invalidation, once the storage is empty; repeated calls are the same.
CdnAsked(l, rest) == l \in Public /\ manifest[l].keys # {} /\ rest = {}

\* What an unfinished withdrawal leaves for the next attempt.
Saved(m, removed) == [m EXCEPT !.gone = @ \cup removed]

Erased(r) == [r EXCEPT !.status = "deleted", !.keys = {}]

\* The CDN has confirmed; an administrator does not wait for it.
Withdrawn(l, admin) == l \in Public /\ manifest[l].keys # {} => admin \/ purge[l] = "completed"

\* resume: some files are deleted, and then the attempt is lost, stops with an
\* error, or ends.
Resume(l, admin) ==
    /\ manifest[l].waits
    /\ \E removed \in SUBSET (manifest[l].keys \ manifest[l].gone) :
        LET rest == manifest[l].keys \ (manifest[l].gone \cup removed)
            asked == IF CdnAsked(l, rest) /\ purge[l] = "none"
                     THEN [purge EXCEPT ![l] = "requested"] ELSE purge
        IN  /\ files' = [files EXCEPT ![l] = @ \ removed]
            /\ \/ purge' \in {purge, asked} /\ UNCHANGED <<row, manifest>>
               \/ /\ purge' \in {purge, asked}
                  /\ manifest' = [manifest EXCEPT ![l] = Saved(@, removed)]
                  /\ UNCHANGED row
               \/ /\ rest = {}
                  /\ Withdrawn(l, admin)
                  /\ purge' = asked
                  /\ row' = [row EXCEPT ![l] = Erased(@)]
                  /\ manifest' = [manifest EXCEPT ![l] = NoManifest]
    /\ UNCHANGED <<userVars, queueing, unqueued, messages, cached>>

\* delete_log or admin_delete_log after begin, or called again: cancels what is
\* queued, which a skin job may be, then withdraws.
FinishDelete(l, admin) ==
    /\ Resume(l, admin)
    /\ work' \in {work, [work EXCEPT ![l] = "none"]}
    /\ work[l] = "queued" => work'[l] = "none"
    /\ work[l] = "provider" => work'[l] = "provider"

\* retry_pending, every 30 seconds.
RetryWithdrawal(l) == Resume(l, FALSE) /\ UNCHANGED work

\* The CDN keeps copies of public files, once they have been read.
CdnCaches(l) ==
    /\ l \in Public
    /\ cached' = [cached EXCEPT ![l] = @ \cup files[l]]
    /\ UNCHANGED <<row, userVars, jobVars, messages, manifest, files, purge>>

CdnPurges(l) ==
    /\ purge[l] = "requested"
    /\ purge' = [purge EXCEPT ![l] = "completed"]
    /\ cached' = [cached EXCEPT ![l] = {}]
    /\ UNCHANGED <<row, userVars, jobVars, messages, manifest, files>>

-----------------------------------------------------------------------------

Request(l) == Create(l) \/ Enqueue(l) \/ FailCreation(l)

Deletion(l) ==
    BeginDelete(l) \/ RetryWithdrawal(l) \/ \E admin \in BOOLEAN : FinishDelete(l, admin)

Next ==
    \/ \E l \in Logs : Request(l) \/ Worker(l) \/ Recover(l) \/ Deletion(l)
    \/ \E l \in Logs : CdnCaches(l) \/ CdnPurges(l)
    \/ \E m \in messages : Listen(m)

Spec == Init /\ [][Next]_vars

\* The withdrawal job runs every 30 seconds, the storage and the CDN answer
\* sooner or later, and the CDN finishes its invalidations.
FairSpec ==
    Spec /\ \A l \in Logs :
        /\ SF_vars(RetryWithdrawal(l) /\ ~manifest'[l].waits)
        /\ SF_vars(RetryWithdrawal(l) /\ purge[l] = "none" /\ purge'[l] = "requested")
        /\ WF_vars(CdnPurges(l))

-----------------------------------------------------------------------------
(* Properties.                                                               *)

\* Credits are taken once and given back at most once, whatever failures,
\* redeliveries and unlocked answers meet (generate.py:994 "exactly once").
CreditsConserved ==
    /\ credits >= 0
    /\ credits + Cost * Cardinality({l \in Logs : row[l].status # "absent"} \ refunds) = Credits
    /\ \A l \in Logs : row[l].status = "failed" => row[l].refunded /\ l \in refunds

\* Late, repeated and reordered messages do not take back a result.  An enqueue
\* error after the job was queued does, so creations under way are left out.
SuccessIsKept ==
    [][\A l \in Logs : row[l].status = "success" /\ l \notin unqueued
                           => row'[l].status \in {"success", "deleted"}]_vars

\* Files are referred to only while they exist.
VisibleFilesExist == \A l \in Logs : ~row[l].deleted => row[l].keys \subseteq files[l]

\* "Success means origin AND CDN are withdrawn" (skin_withdrawal.py:1), for the
\* files the deletion knew of; the administrator's does not wait for the CDN.
KnownFilesAreWithdrawn ==
    [][\A l \in Logs : manifest[l].waits /\ ~manifest'[l].waits =>
          /\ manifest[l].keys \cap files'[l] = {}
          /\ manifest[l].keys \cap cached'[l] = {} \/ FinishDelete(l, TRUE)]_vars

\* A deletion that has begun ends, across errors of the storage and the CDN,
\* lost transactions and restarts.
WithdrawalEnds == \A l \in Logs : manifest[l].waits ~> row[l].status = "deleted"

\* "Success means origin AND CDN are withdrawn" (skin_withdrawal.py:1): of a
\* deleted generation nothing is left in the storage.
DeletedFilesAreGone == \A l \in Logs : row[l].status = "deleted" => files[l] = {}

=============================================================================
