--------------------------- MODULE GenerationProofs ---------------------------
(***************************************************************************)
(* For any number of generations: credits are taken once and given back at *)
(* most once, a row shows only files that exist, late messages take back   *)
(* no result, and a deletion that ends has withdrawn the files it knew of. *)
(*                                                                         *)
(* Each is about one generation, so the invariant is a conjunction over    *)
(* the generations, of which a step changes one.  RefundInv ties the row's *)
(* flag to the credit log; FileInv says what a message that may still come *)
(* is about: a file that is there as long as the generation is not         *)
(* deleted; WithdrawalInv says what the manifest knows of storage and CDN. *)
(***************************************************************************)
EXTENDS GenerationJobs, FiniteSetTheorems, TLAPS

\* A generation that does not exist has no creation under way; the row's flag
\* and the credit log agree.
RefundInv(l) ==
    /\ row[l].status = "absent" =>
        /\ l \notin refunds /\ l \notin queueing /\ l \notin unqueued
        /\ ~row[l].refunded /\ ~row[l].deleted
    /\ row[l].status = "failed" => row[l].refunded
    /\ row[l].refunded => l \in refunds

\* Until the deletion, what a row shows and what messages tell of is stored.
FileInv(l) ==
    ~row[l].deleted =>
        /\ row[l].keys \subseteq files[l]
        /\ [log |-> l, kind |-> "imaged"] \in messages => "image" \in files[l]
        /\ [log |-> l, kind |-> "success"] \in messages => "skin" \in files[l]
        /\ purge[l] = "none"
        /\ manifest[l].gone = {}

\* What the manifest knows of the storage, and the CDN's answer of its copies.
WithdrawalInv(l) ==
    /\ manifest[l].waits => row[l].deleted
    /\ \A a \in manifest[l].gone : a \notin files[l]
    /\ purge[l] # "none" => \A a \in manifest[l].keys : a \notin files[l]
    /\ purge[l] = "completed" => \A a \in manifest[l].keys : a \notin cached[l]
    /\ l \notin Public => cached[l] = {}

\* The generations whose credits are spent.
Spent == {l \in Logs : row[l].status # "absent"} \ refunds

BalanceInv == credits + Cost * Cardinality(Spent) = Credits

GenerationInv ==
    /\ GenerationTypeOK
    /\ \A l \in Logs : RefundInv(l) /\ FileInv(l) /\ WithdrawalInv(l)
    /\ BalanceInv

LEMMA GenerationInvInit == Init => GenerationInv
<1> SUFFICES ASSUME Init PROVE GenerationInv
  OBVIOUS
<1> USE DEF Init
<1>1. GenerationTypeOK
  BY CostAssumption DEF GenerationTypeOK, Row, Absent, Statuses, NoManifest, Manifest
<1>2. ASSUME NEW l \in Logs
      PROVE  RefundInv(l) /\ FileInv(l) /\ WithdrawalInv(l)
  BY DEF RefundInv, FileInv, WithdrawalInv, Absent, NoManifest
<1>3. Spent = {}
  BY DEF Spent, Absent
<1>4. BalanceInv
  BY <1>3, FS_EmptySet, CostAssumption DEF BalanceInv
<1> QED BY <1>1, <1>2, <1>4 DEF GenerationInv

-----------------------------------------------------------------------------
(* The balance.                                                              *)

LEMMA SpentIsFinite == ASSUME GenerationTypeOK PROVE IsFiniteSet(Spent)
BY LogAssumption, FS_Subset DEF Spent

\* A charge of a generation that did not exist, and a refund of one that did.
LEMMA ChargeKeepsBalance ==
  ASSUME GenerationInv, NEW l \in Logs, row[l].status = "absent", credits' = credits - Cost,
         Spent' = Spent \cup {l}
  PROVE  BalanceInv'
<1>1. l \notin Spent /\ IsFiniteSet(Spent)
  BY SpentIsFinite DEF Spent, GenerationInv
<1>2. Cardinality(Spent') = Cardinality(Spent) + 1 /\ Cardinality(Spent) \in Nat
  BY <1>1, FS_AddElement, FS_CardinalityType
<1>3. credits \in Nat /\ Cost \in Nat /\ Credits \in Nat
  BY CostAssumption DEF GenerationInv, GenerationTypeOK
<1> DEFINE n == Cardinality(Spent)
<1>4. n \in Nat /\ Cost * (n + 1) = Cost * n + Cost
  BY <1>2, <1>3
<1> QED BY <1>2, <1>3, <1>4 DEF BalanceInv, GenerationInv

LEMMA RefundKeepsBalance ==
  ASSUME GenerationInv, NEW l \in Logs, row[l].status # "absent", NEW flag,
         Refund(l, flag), {k \in Logs : row'[k].status # "absent"} = {k \in Logs : row[k].status # "absent"}
  PROVE  BalanceInv' /\ credits' \in Nat /\ refunds' \subseteq Logs /\ refunds \subseteq refunds'
         /\ (flag \/ l \in refunds')
         /\ \A k \in Logs : k # l => (k \in refunds' <=> k \in refunds)
<1>1. credits \in Nat /\ Cost \in Nat /\ Credits \in Nat /\ refunds \subseteq Logs
  BY CostAssumption DEF GenerationInv, GenerationTypeOK
<1>2. CASE Owed(l, flag)
  <2>1. credits' = credits + Cost /\ refunds' = refunds \cup {l} /\ l \notin refunds
    BY <1>2 DEF Refund, Owed
  <2>2. l \in Spent /\ Spent' = Spent \ {l} /\ IsFiniteSet(Spent)
    BY <2>1, SpentIsFinite DEF Spent, GenerationInv
  <2>3. Cardinality(Spent') = Cardinality(Spent) - 1 /\ Cardinality(Spent) \in Nat
    BY <2>2, FS_RemoveElement, FS_CardinalityType
  <2> DEFINE n == Cardinality(Spent)
  <2>4. n \in Nat /\ Cost * (n - 1) = Cost * n - Cost /\ Cost * n \in Nat
    BY <2>3, <1>1
  <2>5. BalanceInv'
    BY <1>1, <2>1, <2>3, <2>4 DEF BalanceInv, GenerationInv
  <2> QED BY <1>1, <2>1, <2>5
<1>3. CASE ~Owed(l, flag)
  <2>1. UNCHANGED <<credits, refunds>> /\ (flag \/ l \in refunds)
    BY <1>3 DEF Refund, Owed, userVars
  <2>2. Spent' = Spent
    BY <2>1 DEF Spent
  <2> QED BY <1>1, <2>1, <2>2 DEF BalanceInv, GenerationInv
<1> QED BY <1>2, <1>3

LEMMA OthersKeepBalance ==
  ASSUME GenerationInv, UNCHANGED userVars,
         {k \in Logs : row'[k].status # "absent"} = {k \in Logs : row[k].status # "absent"}
  PROVE  BalanceInv'
<1>1. Spent' = Spent
  BY DEF Spent, userVars
<1> QED BY <1>1 DEF BalanceInv, GenerationInv, userVars

-----------------------------------------------------------------------------
(* The steps.                                                                *)

LEMMA CreateKeeps ==
  ASSUME GenerationInv, NEW l \in Logs, Create(l)
  PROVE  GenerationInv'
<1> DEFINE new == [Absent EXCEPT !.status = "pending"]
<1>1. /\ row[l].status = "absent" /\ credits >= Cost
      /\ row' = [row EXCEPT ![l] = new]
      /\ queueing' = queueing \cup {l}
      /\ UNCHANGED <<refunds, unqueued, work, messages, manifest, files, cached, purge>>
  BY DEF Create, Affordable, fileVars
<1>2. new \in Row /\ new.status = "pending" /\ ~new.refunded /\ ~new.deleted /\ new.keys = {}
  BY DEF Absent, Row, Statuses, ActiveStatuses
<1> HIDE DEF new
<1>3. credits' = credits - Cost /\ credits' \in Nat
  BY <1>1, CostAssumption DEF Create, Max0, GenerationInv, GenerationTypeOK
<1>4. GenerationTypeOK'
  BY <1>1, <1>2, <1>3 DEF GenerationInv, GenerationTypeOK
<1>5. ASSUME NEW k \in Logs
      PROVE  RefundInv(k)' /\ FileInv(k)' /\ WithdrawalInv(k)'
  <2>1. RefundInv(k) /\ FileInv(k) /\ WithdrawalInv(k)
    BY DEF GenerationInv
  <2>2. row'[k] = IF k = l THEN new ELSE row[k]
    BY <1>1 DEF GenerationInv, GenerationTypeOK
  <2>3. RefundInv(k)'
    BY <1>1, <1>2, <2>1, <2>2 DEF RefundInv
  <2>4. FileInv(k)'
    BY <1>1, <1>2, <2>1, <2>2 DEF RefundInv, FileInv
  <2>5. WithdrawalInv(k)'
    BY <1>1, <1>2, <2>1, <2>2 DEF RefundInv, WithdrawalInv
  <2> QED BY <2>3, <2>4, <2>5
<1>6. Spent' = Spent \cup {l}
  BY <1>1, <1>2 DEF Spent, GenerationInv, GenerationTypeOK, RefundInv
<1>7. BalanceInv'
  BY <1>1, <1>3, <1>6, ChargeKeepsBalance
<1> QED BY <1>4, <1>5, <1>7 DEF GenerationInv

LEMMA FailCreationKeeps ==
  ASSUME GenerationInv, NEW l \in Logs, FailCreation(l)
  PROVE  GenerationInv'
<1> DEFINE failed == [row[l] EXCEPT !.status = "failed", !.refunded = TRUE]
<1>1. /\ l \in unqueued /\ unqueued' = unqueued \ {l}
      /\ row' = [row EXCEPT ![l] = failed]
      /\ UNCHANGED <<queueing, work, messages, manifest, files, cached, purge>>
  BY DEF FailCreation, fileVars, GenerationInv, GenerationTypeOK
<1>2. /\ row[l].status # "absent"
      /\ failed \in Row /\ failed.status = "failed" /\ failed.refunded
      /\ failed.deleted = row[l].deleted /\ failed.keys = row[l].keys
  BY <1>1 DEF GenerationInv, GenerationTypeOK, RefundInv, Row, Statuses
<1> HIDE DEF failed
<1>3. \A k \in Logs : row'[k] = IF k = l THEN failed ELSE row[k]
  BY <1>1 DEF GenerationInv, GenerationTypeOK
<1>4. /\ BalanceInv' /\ credits' \in Nat /\ refunds' \subseteq Logs /\ refunds \subseteq refunds'
      /\ l \in refunds' /\ \A k \in Logs : k # l => (k \in refunds' <=> k \in refunds)
  <2>1. Refund(l, FALSE)
    BY DEF FailCreation
  <2>2. {k \in Logs : row'[k].status # "absent"} = {k \in Logs : row[k].status # "absent"}
    BY <1>2, <1>3
  <2> QED BY <1>2, <2>1, <2>2, RefundKeepsBalance
<1>5. GenerationTypeOK'
  BY <1>1, <1>2, <1>4 DEF GenerationInv, GenerationTypeOK
<1>6. ASSUME NEW k \in Logs
      PROVE  RefundInv(k)' /\ FileInv(k)' /\ WithdrawalInv(k)'
  <2>1. RefundInv(k) /\ FileInv(k) /\ WithdrawalInv(k)
    BY DEF GenerationInv
  <2> QED BY <1>1, <1>2, <1>3, <1>4, <2>1 DEF RefundInv, FileInv, WithdrawalInv
<1> QED BY <1>4, <1>5, <1>6 DEF GenerationInv

LEMMA ListenKeeps ==
  ASSUME GenerationInv, NEW m \in messages, Listen(m)
  PROVE  GenerationInv'
<1> DEFINE l == m.log
           r == row[m.log]
           now == [Applied(r, m.kind) EXCEPT !.refunded = @ \/ Refunds(m.kind)]
<1>1. /\ l \in Logs /\ m.kind \in Kinds /\ m = [log |-> l, kind |-> m.kind]
      /\ r \in Row /\ r.status # "absent"
  BY DEF Listen, GenerationInv, GenerationTypeOK, Message
<1>2. UNCHANGED <<queueing, unqueued, work, messages, manifest, files, cached, purge>>
  BY DEF Listen, jobVars, fileVars
<1>3. CASE ~Applies(r, m.kind)
  <2>1. UNCHANGED <<row, credits, refunds>>
    BY <1>3 DEF Listen, userVars
  <2> QED BY <1>2, <2>1 DEF GenerationInv, GenerationTypeOK, RefundInv, FileInv, WithdrawalInv, BalanceInv, Spent
<1>4. CASE Applies(r, m.kind)
  <2>1. row' = [row EXCEPT ![l] = now]
    BY <1>4 DEF Listen
  <2>2. /\ now \in Row /\ now.status \notin {"absent"}
        /\ now.deleted = r.deleted
        /\ now.refunded = (r.refunded \/ Refunds(m.kind))
        /\ now.status = "failed" => Refunds(m.kind)
        /\ now.keys = r.keys \cup (IF m.kind = "imaged" THEN {"image"} ELSE {})
                             \cup (IF m.kind = "success" THEN {"skin"} ELSE {})
    BY <1>1 DEF Applied, StatusOf, Refunds, Row, Statuses, ActiveStatuses, Kinds, Assets
  <2> HIDE DEF now
  <2>3. \A k \in Logs : row'[k] = IF k = l THEN now ELSE row[k]
    BY <2>1 DEF GenerationInv, GenerationTypeOK
  <2>4. {k \in Logs : row'[k].status # "absent"} = {k \in Logs : row[k].status # "absent"}
    BY <1>1, <2>2, <2>3
  <2>5. /\ BalanceInv' /\ credits' \in Nat /\ refunds' \subseteq Logs /\ refunds \subseteq refunds'
        /\ Refunds(m.kind) => r.refunded \/ l \in refunds'
        /\ \A k \in Logs : k # l => (k \in refunds' <=> k \in refunds)
    <3>1. CASE Refunds(m.kind)
      <4>1. Refund(l, r.refunded)
        BY <1>4, <3>1 DEF Listen
      <4> QED BY <1>1, <2>4, <4>1, RefundKeepsBalance
    <3>2. CASE ~Refunds(m.kind)
      <4>1. UNCHANGED userVars
        BY <1>4, <3>2 DEF Listen
      <4> QED BY <2>4, <3>2, <4>1, OthersKeepBalance DEF userVars, GenerationInv, GenerationTypeOK
    <3> QED BY <3>1, <3>2
  <2>6. GenerationTypeOK'
    BY <1>1, <1>2, <2>1, <2>2, <2>5 DEF GenerationInv, GenerationTypeOK
  <2>7. ASSUME NEW k \in Logs
        PROVE  RefundInv(k)' /\ FileInv(k)' /\ WithdrawalInv(k)'
    <3>1. RefundInv(k) /\ FileInv(k) /\ WithdrawalInv(k)
      BY DEF GenerationInv
    <3>2. CASE k # l
      BY <1>2, <2>3, <2>5, <3>1, <3>2 DEF RefundInv, FileInv, WithdrawalInv
    <3>3. CASE k = l
      <4>1. RefundInv(k)'
        BY <1>2, <2>2, <2>3, <2>5, <3>1, <3>3 DEF RefundInv
      <4>2. FileInv(k)'
        BY <1>1, <1>2, <2>2, <2>3, <3>1, <3>3 DEF FileInv
      <4>3. WithdrawalInv(k)'
        BY <1>1, <1>2, <2>2, <2>3, <3>1, <3>3 DEF WithdrawalInv
      <4> QED BY <4>1, <4>2, <4>3
    <3> QED BY <3>2, <3>3
  <2> QED BY <2>5, <2>6, <2>7 DEF GenerationInv
<1> QED BY <1>3, <1>4

\* What goes on with the files, the jobs and the messages of one generation
\* leaves the rows and the credits alone.
LEMMA UserUntouched ==
  ASSUME GenerationInv, UNCHANGED <<row, userVars>>, GenerationTypeOK',
         \A k \in Logs : /\ k \in queueing' => k \in queueing
                         /\ k \in unqueued' => k \in unqueued \/ k \in queueing
                         /\ FileInv(k)' /\ WithdrawalInv(k)'
  PROVE  GenerationInv'
<1>1. BalanceInv'
  BY OthersKeepBalance
<1>2. ASSUME NEW k \in Logs PROVE RefundInv(k)'
  <2>1. RefundInv(k)
    BY DEF GenerationInv
  <2> QED BY <2>1 DEF RefundInv, userVars
<1> QED BY <1>1, <1>2 DEF GenerationInv

LEMMA EnqueueKeeps ==
  ASSUME GenerationInv, NEW l \in Logs, Enqueue(l)
  PROVE  GenerationInv'
<1>1. /\ l \in queueing /\ queueing' = queueing \ {l}
      /\ unqueued' \subseteq unqueued \cup {l}
      /\ work' = work \/ work' = [work EXCEPT ![l] = "queued"]
      /\ UNCHANGED <<row, credits, refunds, messages, manifest, files, cached, purge>>
  BY DEF Enqueue, userVars, fileVars
<1>2. GenerationTypeOK'
  BY <1>1 DEF GenerationInv, GenerationTypeOK
<1>3. ASSUME NEW k \in Logs PROVE FileInv(k)' /\ WithdrawalInv(k)'
  <2>1. FileInv(k) /\ WithdrawalInv(k)
    BY DEF GenerationInv
  <2> QED BY <1>1, <2>1 DEF FileInv, WithdrawalInv
<1> QED BY <1>1, <1>2, <1>3, UserUntouched DEF userVars

LEMMA RecoverKeeps ==
  ASSUME GenerationInv, NEW l \in Logs, Recover(l)
  PROVE  GenerationInv'
<1>1. /\ work' = [work EXCEPT ![l] = Recovered(row[l])]
      /\ Recovered(row[l]) \in {"none", "queued", "provider", "skin"}
      /\ UNCHANGED <<row, credits, refunds, queueing, unqueued, messages, manifest, files, cached, purge>>
  BY DEF Recover, Recovered, userVars, fileVars
<1>2. GenerationTypeOK'
  BY <1>1 DEF GenerationInv, GenerationTypeOK
<1>3. ASSUME NEW k \in Logs PROVE FileInv(k)' /\ WithdrawalInv(k)'
  <2>1. FileInv(k) /\ WithdrawalInv(k)
    BY DEF GenerationInv
  <2> QED BY <1>1, <2>1 DEF FileInv, WithdrawalInv
<1> QED BY <1>1, <1>2, <1>3, UserUntouched DEF userVars

\* A worker stores files of one generation, unless it is deleted, and sends
\* messages of what is stored.
LEMMA StoringKeeps ==
  ASSUME GenerationInv, NEW l \in Logs, GenerationTypeOK',
         files[l] \subseteq files'[l], files'[l] # files[l] => ~row[l].deleted,
         \A k \in Logs \ {l} : files'[k] = files[k],
         \A m \in messages' : \/ m \in messages
                              \/ /\ m.log = l
                                 /\ m.kind = "imaged" => "image" \in files'[l]
                                 /\ m.kind = "success" => "skin" \in files'[l],
         UNCHANGED <<row, userVars, queueing, unqueued, manifest, cached, purge>>
  PROVE  GenerationInv'
<1>1. ASSUME NEW k \in Logs PROVE FileInv(k)' /\ WithdrawalInv(k)'
  <2>1. FileInv(k) /\ WithdrawalInv(k)
    BY DEF GenerationInv
  <2>2. FileInv(k)'
    <3>1. row'[k].keys \subseteq files[k] => row'[k].keys \subseteq files'[k]
      OBVIOUS
    <3>2. [log |-> k, kind |-> "imaged"] \in messages'
            => [log |-> k, kind |-> "imaged"] \in messages \/ "image" \in files'[k]
      OBVIOUS
    <3>3. [log |-> k, kind |-> "success"] \in messages'
            => [log |-> k, kind |-> "success"] \in messages \/ "skin" \in files'[k]
      OBVIOUS
    <3> QED BY <2>1, <3>1, <3>2, <3>3 DEF FileInv
  <2>3. CASE files'[k] = files[k]
    BY <2>1, <2>2, <2>3 DEF WithdrawalInv
  <2>4. CASE files'[k] # files[k]
    <3>1. ~row[k].deleted
      BY <2>4
    <3> QED BY <2>1, <2>2, <3>1 DEF FileInv, WithdrawalInv
  <2> QED BY <2>3, <2>4
<1> QED BY <1>1, UserUntouched

LEMMA WorkerKeeps ==
  ASSUME GenerationInv, NEW l \in Logs, Worker(l)
  PROVE  GenerationInv'
<1>1. UNCHANGED <<row, userVars, queueing, unqueued, manifest, cached, purge>>
  BY DEF Worker
<1>2. GenerationTypeOK
  BY DEF GenerationInv
<1>3. ASSUME NEW asset \in Assets, NEW kind \in Kinds, NEW to \in {"none", "skin"}, NEW from,
             Publish(l, from, to, kind, asset),
             kind = "imaged" => asset = "image", kind = "success" => asset = "skin"
      PROVE  GenerationInv'
  <2>1. /\ ~row[l].deleted
        /\ work' = [work EXCEPT ![l] = to]
        /\ messages' = messages \cup {[log |-> l, kind |-> kind]}
        /\ files' = [files EXCEPT ![l] = @ \cup {asset}]
    BY <1>3 DEF Publish, Advance, Send
  <2>2. GenerationTypeOK'
    BY <1>1, <1>2, <1>3, <2>1 DEF GenerationTypeOK, Message, userVars
  <2>3. files'[l] = files[l] \cup {asset} /\ \A k \in Logs \ {l} : files'[k] = files[k]
    BY <1>2, <2>1 DEF GenerationTypeOK
  <2> QED BY <1>1, <1>3, <2>1, <2>2, <2>3, StoringKeeps
<1>4. ASSUME NEW to \in {"none", "provider"}, work' = [work EXCEPT ![l] = to], files' = files,
             \/ messages' = messages
             \/ \E kind \in Kinds \ {"imaged", "success"} :
                    messages' = messages \cup {[log |-> l, kind |-> kind]}
      PROVE  GenerationInv'
  <2>1. GenerationTypeOK'
    BY <1>1, <1>2, <1>4 DEF GenerationTypeOK, Message, userVars
  <2> QED BY <1>1, <1>4, <2>1, StoringKeeps
<1>5. CASE SubmitImage(l)
  BY <1>4, <1>5 DEF SubmitImage, Advance, Send, Kinds
<1>6. CASE Publish(l, "provider", "skin", "imaged", "image")
  BY <1>3, <1>6 DEF Kinds, Assets
<1>7. CASE Publish(l, "skin", "none", "success", "skin")
  BY <1>3, <1>7 DEF Kinds, Assets
<1>8. CASE WorkFails(l)
  BY <1>4, <1>8 DEF WorkFails, Send, Kinds
<1>9. CASE LoseWork(l)
  BY <1>4, <1>9 DEF LoseWork
<1> QED BY <1>5, <1>6, <1>7, <1>8, <1>9 DEF Worker

LEMMA BeginDeleteKeeps ==
  ASSUME GenerationInv, NEW l \in Logs, BeginDelete(l)
  PROVE  GenerationInv'
<1> DEFINE gone == [row[l] EXCEPT !.deleted = TRUE]
           list == [waits |-> TRUE, keys |-> row[l].keys, gone |-> {}]
<1>1. /\ row[l].status # "absent" /\ ~row[l].deleted
      /\ row' = [row EXCEPT ![l] = gone]
      /\ manifest' = [manifest EXCEPT ![l] = list]
      /\ UNCHANGED <<credits, refunds, queueing, unqueued, work, messages, files, cached, purge>>
  BY DEF BeginDelete, userVars, jobVars, fileVars, GenerationInv, GenerationTypeOK
<1>2. /\ gone \in Row /\ gone.deleted /\ gone.status = row[l].status
      /\ gone.refunded = row[l].refunded
      /\ list \in Manifest /\ list.gone = {} /\ list.waits /\ list.keys = row[l].keys
  <2>1. row[l] \in Row /\ row[l].keys \in SUBSET Assets
    BY DEF GenerationInv, GenerationTypeOK, Row
  <2>2. gone \in Row /\ gone.deleted /\ gone.status = row[l].status /\ gone.refunded = row[l].refunded
    BY <2>1 DEF Row
  <2> QED BY <2>1, <2>2 DEF Manifest
<1> HIDE DEF gone, list
<1>3. \A k \in Logs : /\ row'[k] = IF k = l THEN gone ELSE row[k]
                      /\ manifest'[k] = IF k = l THEN list ELSE manifest[k]
  BY <1>1 DEF GenerationInv, GenerationTypeOK
<1>4. GenerationTypeOK'
  BY <1>1, <1>2, <1>3 DEF GenerationInv, GenerationTypeOK
<1>5. BalanceInv'
  <2>1. {k \in Logs : row'[k].status # "absent"} = {k \in Logs : row[k].status # "absent"}
    BY <1>2, <1>3
  <2> QED BY <1>1, <2>1, OthersKeepBalance DEF userVars
<1>6. ASSUME NEW k \in Logs
      PROVE  RefundInv(k)' /\ FileInv(k)' /\ WithdrawalInv(k)'
  <2>1. RefundInv(k) /\ FileInv(k) /\ WithdrawalInv(k)
    BY DEF GenerationInv
  <2>2. RefundInv(k)'
    BY <1>1, <1>2, <1>3, <2>1 DEF RefundInv
  <2>3. FileInv(k)'
    BY <1>1, <1>2, <1>3, <2>1 DEF FileInv
  <2>4. WithdrawalInv(k)'
    BY <1>1, <1>2, <1>3, <2>1 DEF FileInv, WithdrawalInv
  <2> QED BY <2>2, <2>3, <2>4
<1> QED BY <1>4, <1>5, <1>6 DEF GenerationInv

\* What an attempt does to the generation it is about, and to no other.
LEMMA ResumeKeeps ==
  ASSUME GenerationInv, NEW l \in Logs, NEW admin \in BOOLEAN, Resume(l, admin),
         work' \in [Logs -> {"none", "queued", "provider", "skin"}]
  PROVE  GenerationInv'
<1>1. PICK removed \in SUBSET (manifest[l].keys \ manifest[l].gone) :
        LET rest == manifest[l].keys \ (manifest[l].gone \cup removed)
            asked == IF CdnAsked(l, rest) /\ purge[l] = "none"
                     THEN [purge EXCEPT ![l] = "requested"] ELSE purge
        IN  /\ files' = [files EXCEPT ![l] = @ \ removed]
            /\ \/ purge' \in {purge, asked} /\ UNCHANGED <<row, manifest>>
               \/ /\ purge' \in {purge, asked}
                  /\ manifest' = [manifest EXCEPT ![l] = Saved(@, removed)]
                  /\ UNCHANGED row
               \/ /\ rest = {}
                  /\ Withdrawn(l, admin)
                  /\ purge' = asked
                  /\ row' = [row EXCEPT ![l] = Erased(@)]
                  /\ manifest' = [manifest EXCEPT ![l] = NoManifest]
  BY DEF Resume
<1> DEFINE rest == manifest[l].keys \ (manifest[l].gone \cup removed)
           asked == IF CdnAsked(l, rest) /\ purge[l] = "none"
                    THEN [purge EXCEPT ![l] = "requested"] ELSE purge
<1>2. /\ manifest[l].waits
      /\ files' = [files EXCEPT ![l] = @ \ removed]
      /\ UNCHANGED <<credits, refunds, queueing, unqueued, messages, cached>>
      /\ \/ purge' = purge
         \/ purge' = [purge EXCEPT ![l] = "requested"] /\ rest = {} /\ purge[l] = "none"
      /\ \/ UNCHANGED <<row, manifest>>
         \/ UNCHANGED row /\ manifest' = [manifest EXCEPT ![l] = Saved(@, removed)]
         \/ row' = [row EXCEPT ![l] = Erased(@)] /\ manifest' = [manifest EXCEPT ![l] = NoManifest]
  <2>1. purge' = purge \/ purge' = asked
    BY <1>1
  <2>2. asked = purge
        \/ (asked = [purge EXCEPT ![l] = "requested"] /\ rest = {} /\ purge[l] = "none")
    <3>1. CASE CdnAsked(l, rest) /\ purge[l] = "none"
      BY <3>1 DEF CdnAsked
    <3>2. CASE ~(CdnAsked(l, rest) /\ purge[l] = "none")
      BY <3>2
    <3> QED BY <3>1, <3>2
  <2>3. \/ UNCHANGED <<row, manifest>>
        \/ UNCHANGED row /\ manifest' = [manifest EXCEPT ![l] = Saved(@, removed)]
        \/ row' = [row EXCEPT ![l] = Erased(@)] /\ manifest' = [manifest EXCEPT ![l] = NoManifest]
    BY <1>1
  <2>4. /\ manifest[l].waits
        /\ UNCHANGED <<credits, refunds, queueing, unqueued, messages, cached>>
    BY DEF Resume, userVars
  <2> QED BY <1>1, <2>1, <2>2, <2>3, <2>4
<1> HIDE DEF rest, asked
<1>3. /\ row[l].deleted /\ row[l].status # "absent" /\ row[l] \in Row
      /\ manifest[l] \in Manifest /\ manifest[l].gone \subseteq manifest[l].keys
  BY <1>2 DEF GenerationInv, GenerationTypeOK, RefundInv, WithdrawalInv
<1>4. /\ row'[l] \in Row /\ row'[l].deleted /\ row'[l].status # "absent"
      /\ row'[l].refunded = row[l].refunded
      /\ row'[l].status = "failed" => row[l].status = "failed"
  <2>1. CASE row' = row
    BY <1>3, <2>1
  <2>2. CASE row' = [row EXCEPT ![l] = Erased(@)]
    <3>1. row'[l] = Erased(row[l])
      BY <2>2 DEF GenerationInv, GenerationTypeOK
    <3> QED BY <1>3, <3>1 DEF Erased, Row, Statuses
  <2> QED BY <1>2, <2>1, <2>2
<1>5. /\ manifest'[l] \in Manifest
      /\ manifest'[l].keys \subseteq manifest[l].keys
      /\ manifest'[l].gone \subseteq manifest'[l].keys
      /\ manifest'[l].gone \subseteq manifest[l].gone \cup removed
  <2>1. manifest'[l] = manifest[l] \/ manifest'[l] = Saved(manifest[l], removed)
        \/ manifest'[l] = NoManifest
    BY <1>2 DEF GenerationInv, GenerationTypeOK
  <2>2. CASE manifest'[l] = Saved(manifest[l], removed)
    BY <1>3, <2>2 DEF Saved, Manifest
  <2>3. CASE manifest'[l] = NoManifest
    BY <2>3 DEF NoManifest, Manifest
  <2> QED BY <1>3, <2>1, <2>2, <2>3
<1>6. \A k \in Logs : k # l => row'[k] = row[k] /\ manifest'[k] = manifest[k] /\ purge'[k] = purge[k]
                                  /\ files'[k] = files[k]
  BY <1>2 DEF GenerationInv, GenerationTypeOK
<1>7. /\ files'[l] = files[l] \ removed
      /\ \/ purge'[l] = purge[l]
         \/ purge'[l] = "requested" /\ rest = {} /\ purge[l] = "none"
  BY <1>2 DEF GenerationInv, GenerationTypeOK
<1>8. GenerationTypeOK'
  <2>1. row' \in [Logs -> Row] /\ manifest' \in [Logs -> Manifest]
    BY <1>2, <1>4, <1>5 DEF GenerationInv, GenerationTypeOK
  <2>2. files' \in [Logs -> SUBSET Assets] /\ purge' \in [Logs -> {"none", "requested", "completed"}]
    BY <1>2 DEF GenerationInv, GenerationTypeOK
  <2>3. \A k \in Logs : manifest'[k].gone \subseteq manifest'[k].keys
    BY <1>5, <1>6 DEF GenerationInv, GenerationTypeOK
  <2> QED BY <1>2, <2>1, <2>2, <2>3 DEF GenerationInv, GenerationTypeOK
<1>9. BalanceInv'
  <2>1. {k \in Logs : row'[k].status # "absent"} = {k \in Logs : row[k].status # "absent"}
    BY <1>3, <1>4, <1>6
  <2> QED BY <1>2, <2>1, OthersKeepBalance DEF userVars
<1>10. ASSUME NEW k \in Logs
       PROVE  RefundInv(k)' /\ FileInv(k)' /\ WithdrawalInv(k)'
  <2>1. RefundInv(k) /\ FileInv(k) /\ WithdrawalInv(k)
    BY DEF GenerationInv
  <2>2. CASE k # l
    BY <1>2, <1>6, <2>1, <2>2 DEF RefundInv, FileInv, WithdrawalInv
  <2>3. CASE k = l
    <3>1. RefundInv(k)' /\ FileInv(k)'
      BY <1>2, <1>3, <1>4, <2>1, <2>3 DEF RefundInv, FileInv
    <3>2. WithdrawalInv(k)'
      <4>1. \A a \in manifest'[l].gone : a \notin files'[l]
        BY <1>5, <1>7, <2>1, <2>3 DEF WithdrawalInv
      <4>2. ASSUME purge'[l] # "none" PROVE \A a \in manifest'[l].keys : a \notin files'[l]
        BY <1>5, <1>7, <2>1, <2>3, <4>2 DEF WithdrawalInv, rest
      <4>3. ASSUME purge'[l] = "completed" PROVE \A a \in manifest'[l].keys : a \notin cached'[l]
        BY <1>2, <1>5, <1>7, <2>1, <2>3, <4>3 DEF WithdrawalInv
      <4> QED BY <1>2, <1>4, <2>1, <2>3, <4>1, <4>2, <4>3 DEF WithdrawalInv
    <3> QED BY <3>1, <3>2
  <2> QED BY <2>2, <2>3
<1> QED BY <1>8, <1>9, <1>10 DEF GenerationInv

LEMMA CdnKeeps ==
  ASSUME GenerationInv, NEW l \in Logs, CdnCaches(l) \/ CdnPurges(l)
  PROVE  GenerationInv'
<1>1. /\ UNCHANGED <<row, credits, refunds, queueing, unqueued, work, messages, manifest, files>>
      /\ \/ l \in Public /\ cached' = [cached EXCEPT ![l] = @ \cup files[l]] /\ purge' = purge
         \/ /\ purge[l] = "requested" /\ purge' = [purge EXCEPT ![l] = "completed"]
            /\ cached' = [cached EXCEPT ![l] = {}]
  BY DEF CdnCaches, CdnPurges, userVars, jobVars
<1>2. GenerationTypeOK'
  BY <1>1 DEF GenerationInv, GenerationTypeOK
<1>3. ASSUME NEW k \in Logs PROVE FileInv(k)' /\ WithdrawalInv(k)'
  <2>1. FileInv(k) /\ WithdrawalInv(k)
    BY DEF GenerationInv
  <2>2. \/ /\ cached'[k] = cached[k] \/ (k \in Public /\ cached'[k] = cached[k] \cup files[k])
           /\ purge'[k] = purge[k]
        \/ purge[k] = "requested" /\ purge'[k] = "completed" /\ cached'[k] = {}
    <3>1. CASE cached' = [cached EXCEPT ![l] = @ \cup files[l]] /\ l \in Public /\ purge' = purge
      <4>1. purge'[k] = purge[k]
        BY <3>1
      <4>2. cached'[k] = cached[k] \/ (k = l /\ cached'[k] = cached[k] \cup files[k])
        BY <3>1 DEF GenerationInv, GenerationTypeOK
      <4> QED BY <3>1, <4>1, <4>2
    <3>2. CASE /\ purge[l] = "requested" /\ purge' = [purge EXCEPT ![l] = "completed"]
               /\ cached' = [cached EXCEPT ![l] = {}]
      <4>1. CASE k = l
        BY <3>2, <4>1 DEF GenerationInv, GenerationTypeOK
      <4>2. CASE k # l
        BY <3>2, <4>2 DEF GenerationInv, GenerationTypeOK
      <4> QED BY <4>1, <4>2
    <3> QED BY <1>1, <3>1, <3>2
  <2> QED BY <1>1, <2>1, <2>2 DEF FileInv, WithdrawalInv
<1> QED BY <1>1, <1>2, <1>3, UserUntouched DEF userVars

-----------------------------------------------------------------------------
(* The theorems.                                                             *)

LEMMA GenerationInvStep == GenerationInv /\ [Next]_vars => GenerationInv'
<1> SUFFICES ASSUME GenerationInv, [Next]_vars PROVE GenerationInv'
  OBVIOUS
<1>1. ASSUME NEW l \in Logs, Request(l) PROVE GenerationInv'
  BY <1>1, CreateKeeps, EnqueueKeeps, FailCreationKeeps DEF Request
<1>2. ASSUME NEW l \in Logs, Deletion(l) PROVE GenerationInv'
  <2>1. CASE BeginDelete(l)
    BY <2>1, BeginDeleteKeeps
  <2>2. CASE RetryWithdrawal(l)
    BY <2>2, ResumeKeeps DEF RetryWithdrawal, GenerationInv, GenerationTypeOK
  <2>3. ASSUME NEW admin \in BOOLEAN, FinishDelete(l, admin) PROVE GenerationInv'
    BY <2>3, ResumeKeeps DEF FinishDelete, GenerationInv, GenerationTypeOK
  <2> QED BY <1>2, <2>1, <2>2, <2>3 DEF Deletion
<1>3. CASE UNCHANGED vars
  BY <1>3 DEF vars, userVars, jobVars, fileVars, GenerationInv, GenerationTypeOK, RefundInv,
              FileInv, WithdrawalInv, BalanceInv, Spent
<1> QED BY <1>1, <1>2, <1>3, WorkerKeeps, RecoverKeeps, CdnKeeps, ListenKeeps DEF Next

\* The invariant holds in every reachable state.
THEOREM GenerationCorrect == Spec => []GenerationInv
BY GenerationInvInit, GenerationInvStep, PTL DEF Spec

\* Every variable stays within its type, and no record points past its kind.
THEOREM GenerationTypeCorrect == Spec => []GenerationTypeOK
<1>1. GenerationInv => GenerationTypeOK
  BY DEF GenerationInv
<1> QED BY <1>1, GenerationCorrect, PTL

\* refund_generation_credits gives back what generate_image took, never twice,
\* for any number of generations, failures and redeliveries.
THEOREM CreditsKept == Spec => []CreditsConserved
<1>1. GenerationInv => CreditsConserved
  BY DEF GenerationInv, GenerationTypeOK, BalanceInv, Spent, RefundInv, CreditsConserved
<1> QED BY <1>1, GenerationCorrect, PTL

\* The keys a row shows are of stored files, up to its deletion.
THEOREM VisibleFiles == Spec => []VisibleFilesExist
<1>1. GenerationInv => VisibleFilesExist
  BY DEF GenerationInv, FileInv, VisibleFilesExist
<1> QED BY <1>1, GenerationCorrect, PTL

\* should_apply_generation_status never lets a message take a success back.
THEOREM SuccessKept == Spec => SuccessIsKept
<1> DEFINE Kept == \A l \in Logs : row[l].status = "success" /\ l \notin unqueued
                                     => row'[l].status \in {"success", "deleted"}
<1>1. ASSUME GenerationInv, [Next]_vars PROVE [Kept]_vars
  <2> SUFFICES ASSUME NEW k \in Logs, row[k].status = "success", k \notin unqueued,
                      row'[k] # row[k]
               PROVE  row'[k].status \in {"success", "deleted"}
    BY DEF vars
  <2>1. row \in [Logs -> Row]
    BY <1>1 DEF GenerationInv, GenerationTypeOK
  <2>2. ASSUME NEW l \in Logs, Request(l) PROVE row'[k].status \in {"success", "deleted"}
    BY <2>1, <2>2 DEF Request, Create, Enqueue, FailCreation
  <2>3. ASSUME NEW l \in Logs, Deletion(l) PROVE row'[k].status \in {"success", "deleted"}
    <3>1. CASE BeginDelete(l)
      BY <2>1, <3>1 DEF BeginDelete, Row
    <3>2. ASSUME NEW admin, Resume(l, admin) PROVE row'[k].status \in {"success", "deleted"}
      <4>1. row' = row \/ row' = [row EXCEPT ![l] = Erased(@)]
        BY <3>2 DEF Resume
      <4> QED BY <2>1, <4>1 DEF Erased, Row
    <3> QED BY <2>3, <3>1, <3>2 DEF Deletion, RetryWithdrawal, FinishDelete
  <2>4. ASSUME NEW m \in messages, Listen(m) PROVE row'[k].status \in {"success", "deleted"}
    <3>1. /\ m.log = k /\ Applies(row[k], m.kind)
          /\ row'[k] = [Applied(row[k], m.kind) EXCEPT !.refunded = @ \/ Refunds(m.kind)]
      BY <2>1, <2>4 DEF Listen
    <3>2. m.kind = "success" /\ row[k] \in Row
      BY <2>1, <3>1 DEF Applies
    <3> QED BY <3>1, <3>2 DEF Applied, StatusOf, Row
  <2> QED BY <1>1, <2>2, <2>3, <2>4 DEF Next, Worker, Recover, CdnCaches, CdnPurges, vars
<1> QED BY <1>1, GenerationCorrect, PTL DEF Spec, SuccessIsKept

\* resume ends only with the files its manifest lists out of the storage and,
\* unless an administrator does not wait, out of the CDN.
THEOREM KnownFilesWithdrawn == Spec => KnownFilesAreWithdrawn
<1> DEFINE Done(l) ==
      /\ manifest[l].keys \cap files'[l] = {}
      /\ manifest[l].keys \cap cached'[l] = {} \/ FinishDelete(l, TRUE)
<1> DEFINE Ends == \A l \in Logs : manifest[l].waits /\ ~manifest'[l].waits => Done(l)
<1>1. ASSUME GenerationInv, [Next]_vars PROVE [Ends]_vars
  <2> SUFFICES ASSUME NEW k \in Logs, manifest[k].waits, ~manifest'[k].waits PROVE Done(k)
    OBVIOUS
  <2>1. manifest \in [Logs -> Manifest] /\ files \in [Logs -> SUBSET Assets] /\ WithdrawalInv(k)
    BY <1>1 DEF GenerationInv, GenerationTypeOK
  <2>2. ASSUME NEW l \in Logs, NEW admin \in BOOLEAN, Resume(l, admin)
        PROVE  /\ l = k /\ manifest[k].keys \cap files'[k] = {}
               /\ admin \/ manifest[k].keys \cap cached'[k] = {}
    <3>1. PICK removed \in SUBSET (manifest[l].keys \ manifest[l].gone) :
            /\ files' = [files EXCEPT ![l] = @ \ removed]
            /\ cached' = cached
            /\ \/ manifest' = manifest
               \/ manifest' = [manifest EXCEPT ![l] = Saved(@, removed)]
               \/ /\ manifest[l].keys \ (manifest[l].gone \cup removed) = {}
                  /\ Withdrawn(l, admin)
                  /\ manifest' = [manifest EXCEPT ![l] = NoManifest]
      BY <2>2 DEF Resume
    <3>2. /\ l = k
          /\ manifest[l].keys \ (manifest[l].gone \cup removed) = {}
          /\ Withdrawn(l, admin)
      BY <2>1, <3>1 DEF Saved, Manifest
    <3>3. files'[k] = files[k] \ removed
      BY <2>1, <3>1, <3>2
    <3> QED BY <2>1, <3>1, <3>2, <3>3 DEF WithdrawalInv, Withdrawn
  <2>3. ASSUME NEW l \in Logs, Request(l) PROVE FALSE
    BY <2>3 DEF Request, Create, Enqueue, FailCreation
  <2>4. ASSUME NEW l \in Logs, BeginDelete(l) PROVE FALSE
    BY <2>1, <2>4 DEF BeginDelete
  <2>5. ASSUME NEW l \in Logs, Deletion(l) PROVE Done(k)
    <3>1. CASE RetryWithdrawal(l)
      BY <2>2, <3>1 DEF RetryWithdrawal
    <3>2. CASE FinishDelete(l, FALSE)
      BY <2>2, <3>2 DEF FinishDelete
    <3>3. CASE FinishDelete(l, TRUE)
      <4>1. Resume(l, TRUE)
        BY <3>3 DEF FinishDelete
      <4> QED BY <2>2, <3>3, <4>1
    <3> QED BY <2>4, <2>5, <3>1, <3>2, <3>3 DEF Deletion
  <2>6. ASSUME NEW m \in messages, Listen(m) PROVE FALSE
    BY <2>6 DEF Listen
  <2>7. CASE UNCHANGED vars
    BY <2>7 DEF vars
  <2> QED BY <1>1, <2>3, <2>5, <2>6, <2>7 DEF Next, Worker, Recover, CdnCaches, CdnPurges
<1> QED BY <1>1, GenerationCorrect, PTL DEF Spec, KnownFilesAreWithdrawn

=============================================================================
