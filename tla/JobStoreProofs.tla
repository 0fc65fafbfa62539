--------------------------- MODULE JobStoreProofs ---------------------------
(***************************************************************************)
(* Theorems about the store of JobStore, for any jobs, owners, keys, lease *)
(* length and delay of a call.  After type correctness, two lemmas say     *)
(* what a step can do to one receipt (WrittenRow) and to one job           *)
(* (WrittenJob); every property follows from them row by row.              *)
(***************************************************************************)
EXTENDS JobStore, SequenceTheorems, TLAPS

-----------------------------------------------------------------------------
(* Type correctness. *)

(* The empty tables have their types.                                        *)
LEMMA InitTypeOK == Init => TypeOK
  BY StoreAssumption
  DEF Init, TypeOK, Job, Row, NewJob, NoRow, NoLease, JobState, DeliveryOutcome, Ttls, Lapsed

(* Changing fields of a job's row within their types leaves a row (one lemma *)
(* for each combination that some UPDATE statement sets).                    *)
LEMMA StateUpdate ==
  ASSUME NEW job \in Job, NEW st \in JobState
  PROVE  [job EXCEPT !.state = st] \in Job
  BY DEF Job

(* The same for the claim's expiry (renew_claim, the passage of time).       *)
LEMMA ClaimUpdate ==
  ASSUME NEW job \in Job, NEW cl \in Ttls
  PROVE  [job EXCEPT !.claim = cl] \in Job
  BY DEF Job

(* The same for the payload (retention, purge_expired_payloads).             *)
LEMMA PayloadUpdate ==
  ASSUME NEW job \in Job, NEW pl \in {"kept", "due", "purged"}
  PROVE  [job EXCEPT !.payload = pl] \in Job
  BY DEF Job

(* The same for a claim and for leaving it (claim_next, _transition_sync).   *)
LEMMA OwnerUpdate ==
  ASSUME NEW job \in Job, NEW st \in JobState, NEW ow \in Owners \cup {NoOne}, NEW cl \in Ttls
  PROVE  [job EXCEPT !.state = st, !.owner = ow, !.claim = cl] \in Job
  BY DEF Job

(* The same for the link to a successor (supersede_failed_job).              *)
LEMMA SuccessorUpdate ==
  ASSUME NEW job \in Job, NEW st \in JobState, NEW cl \in Ttls, NEW s \in Jobs
  PROVE  [job EXCEPT !.state = st, !.owner = NoOne, !.claim = cl, !.supersededBy = s] \in Job
  BY DEF Job

(* Every transaction keeps the tables' types.                                *)
LEMMA NextTypeOK == TypeOK /\ [Next]_storeVars => TypeOK'
<1> SUFFICES ASSUME TypeOK, [Next]_storeVars PROVE TypeOK'
  OBVIOUS
<1> USE StoreAssumption
<1>a. \A j \in Jobs : jobs[j] \in Job
  BY DEF TypeOK
<1>b. JobState = {"accepted", "running", "checkpointed", "completed", "failed"}
  BY DEF JobState
<1>c. Lapsed \in Ttls
  BY DEF Lapsed, Ttls
<1>1. ASSUME NEW j \in Jobs, AcceptUpdate(j) PROVE TypeOK'
  <2>1. NewJob("accepted") \in Job
    BY DEF NewJob, Job, JobState, Ttls, Lapsed
  <2>2. jobs' \in [Jobs -> Job]
    BY <1>1, <2>1 DEF AcceptUpdate, TypeOK
  <2>3. inbox' \in Seq(Jobs)
    <3>1. PICK p \in 0 .. Len(inbox) :
            inbox' = SubSeq(inbox, 1, p) \o <<j>> \o SubSeq(inbox, p + 1, Len(inbox))
      BY <1>1 DEF AcceptUpdate
    <3>2. inbox \in Seq(Jobs) /\ Len(inbox) \in Nat
      BY LenProperties DEF TypeOK
    <3>3. SubSeq(inbox, 1, p) \in Seq(Jobs)
      BY <3>2, SubSeqProperties
    <3>4. SubSeq(inbox, p + 1, Len(inbox)) \in Seq(Jobs)
      BY <3>2, SubSeqProperties
    <3>. QED
      BY <3>1, <3>3, <3>4
  <2>. QED
    BY <1>1, <2>2, <2>3 DEF AcceptUpdate, TypeOK
<1>2. ASSUME NEW o \in Owners, NEW lag \in Lags
      PROVE  /\ Renewed(o, lag) \in [owner : Owners \cup {NoOne}, ttl : Ttls]
             /\ Lease - lag \in Ttls
  BY DEF Renewed, Ttls, Lags, Lapsed
<1>3. ASSUME NEW o \in Owners, NEW lag \in Lags,
             AcquireWorker(o, lag) \/ RenewWorker(o, lag) \/ ClaimNothing(o, lag)
      PROVE TypeOK'
  BY <1>2, <1>3 DEF TypeOK, AcquireWorker, RenewWorker, ClaimNothing
<1>4. ASSUME NEW o \in Owners, ReleaseWorker(o) PROVE TypeOK'
  BY <1>4 DEF ReleaseWorker, TypeOK, NoLease, Ttls, Lapsed
<1>5. ASSUME NEW o \in Owners, NEW lag \in Lags, NEW j \in Jobs, ClaimNext(o, j, lag) PROVE TypeOK'
  <2>1. [jobs[j] EXCEPT !.state = "running", !.owner = o, !.claim = Lease - lag] \in Job
    BY <1>a, <1>b, <1>2, OwnerUpdate
  <2>. QED
    BY <1>2, <1>5, <2>1 DEF ClaimNext, TypeOK
<1>6. ASSUME NEW o \in Owners, NEW lag \in Lags, NEW j \in Jobs, RenewClaim(j, o, lag) PROVE TypeOK'
  <2>1. [jobs[j] EXCEPT !.claim = Lease - lag] \in Job
    BY <1>a, <1>2, ClaimUpdate
  <2>. QED
    BY <1>6, <2>1 DEF RenewClaim, TypeOK
<1>7. ASSUME NEW o \in Owners, NEW lag \in Lags, NEW j \in Jobs, NEW st \in JobState,
             Transition(j, o, st, lag)
      PROVE TypeOK'
  <2>1. [jobs[j] EXCEPT !.state = st, !.owner = NoOne, !.claim = Lapsed] \in Job
    BY <1>a, <1>c, OwnerUpdate
  <2>. QED
    BY <1>7, <2>1 DEF Transition, TypeOK
<1>8. ASSUME NEW o \in Owners, NEW lag \in Lags, NEW j \in Jobs, NEW K \in SUBSET Keys,
             BeginDelivery(j, K, o, lag)
      PROVE TypeOK'
  <2>1. [outcome |-> "uncertain", finalized |-> FALSE, owner |-> o] \in Row
    BY DEF Row, DeliveryOutcome
  <2>2. rows' \in [Jobs -> [Keys -> Row]]
    BY <1>8, <2>1 DEF BeginDelivery, TypeOK
  <2>. QED
    BY <1>8, <2>2 DEF BeginDelivery, TypeOK
<1>9. ASSUME NEW o \in Owners, NEW lag \in Lags, NEW j \in Jobs, NEW k \in Keys,
             NEW oc \in DeliveryOutcome, FinalizeDelivery(j, k, oc, o, lag)
      PROVE TypeOK'
  BY <1>9 DEF FinalizeDelivery, TypeOK, Row
<1>10. ASSUME NEW o \in Owners, NEW lag \in Lags, NEW j \in Jobs, NEW s \in Jobs,
              SupersedeFailed(j, s, o, lag)
       PROVE TypeOK'
  <2>1. PICK t \in Jobs : jobs' = [jobs EXCEPT ![t] =
                        [@ EXCEPT !.state = "completed", !.owner = NoOne,
                                  !.claim = Lapsed, !.supersededBy = s]]
    BY <1>10 DEF SupersedeFailed
  <2>2. [jobs[t] EXCEPT !.state = "completed", !.owner = NoOne,
                        !.claim = Lapsed, !.supersededBy = s] \in Job
    BY <1>a, <1>b, <1>c, SuccessorUpdate
  <2>. QED
    BY <1>10, <2>1, <2>2 DEF SupersedeFailed, TypeOK
<1>11. ASSUME NEW S \in SUBSET Jobs, RequeueFailed(S) PROVE TypeOK'
  <2>1. \A j \in Jobs : [jobs[j] EXCEPT !.state = "checkpointed"] \in Job
    BY <1>a, <1>b, StateUpdate
  <2>. QED
    BY <1>11, <2>1 DEF RequeueFailed, TypeOK
<1>12. ASSUME NEW S \in SUBSET Jobs, PurgeExpired(S) PROVE TypeOK'
  <2>1. \A j \in Jobs : [jobs[j] EXCEPT !.payload = "purged"] \in Job
    BY <1>a, PayloadUpdate
  <2>. QED
    BY <1>12, <2>1 DEF PurgeExpired, TypeOK
<1>13. ASSUME Tick PROVE TypeOK'
  <2>1. \A ttl \in Ttls : Older(ttl) \in Ttls
    BY DEF Older, Ttls, Lapsed
  <2>2. \A j \in Jobs : [jobs[j] EXCEPT !.claim = Older(jobs[j].claim)] \in Job
    BY <2>1 DEF TypeOK, Job
  <2>3. [lease EXCEPT !.ttl = Older(lease.ttl)] \in [owner : Owners \cup {NoOne}, ttl : Ttls]
    BY <2>1 DEF TypeOK
  <2>. QED
    BY <1>13, <2>2, <2>3 DEF Tick, TypeOK
<1>14. ASSUME NEW j \in Jobs, RetentionEnds(j) PROVE TypeOK'
  <2>1. [jobs[j] EXCEPT !.payload = "due"] \in Job
    BY <1>a, PayloadUpdate
  <2>. QED
    BY <1>14, <2>1 DEF RetentionEnds, TypeOK
<1>15. ASSUME UNCHANGED storeVars PROVE TypeOK'
  BY <1>15 DEF storeVars, TypeOK
<1>. QED
  BY <1>1, <1>3, <1>4, <1>5, <1>6, <1>7, <1>8, <1>9, <1>10, <1>11, <1>12, <1>13, <1>14, <1>15
  DEF Next, OwnerStep, Checkpoint, Complete, Fail, JobState

(* The tables keep their types, and no expiry time written with an old `now` *)
(* lies outside what a lease allows (all transactions of JobStore).          *)
THEOREM TypeCorrect == Spec => []TypeOK
  BY InitTypeOK, NextTypeOK, PTL DEF Spec

-----------------------------------------------------------------------------
(* Which transactions write which table. *)

(* Receipts are written by begin_delivery and finalize_delivery alone.       *)
LEMMA RowsStep ==
  ASSUME [Next]_storeVars, rows' # rows
  PROVE  \E j \in Jobs, o \in Owners, lag \in Lags :
            \/ \E K \in SUBSET Keys : BeginDelivery(j, K, o, lag)
            \/ \E k \in Keys, oc \in DeliveryOutcome : FinalizeDelivery(j, k, oc, o, lag)
<1>1. ASSUME NEW o \in Owners, NEW lag \in Lags, OwnerStep(o, lag)
      PROVE  \E j \in Jobs :
                \/ \E K \in SUBSET Keys : BeginDelivery(j, K, o, lag)
                \/ \E k \in Keys, oc \in DeliveryOutcome : FinalizeDelivery(j, k, oc, o, lag)
  <2>1. ~(AcquireWorker(o, lag) \/ RenewWorker(o, lag) \/ ClaimNothing(o, lag))
    BY DEF AcquireWorker, RenewWorker, ClaimNothing
  <2>2. \A j \in Jobs : ~(ClaimNext(o, j, lag) \/ RenewClaim(j, o, lag))
    BY DEF ClaimNext, RenewClaim
  <2>3. \A j \in Jobs : ~(Checkpoint(j, o, lag) \/ Complete(j, o, lag) \/ Fail(j, o, lag))
    BY DEF Checkpoint, Complete, Fail, Transition
  <2>4. \A j, s \in Jobs : ~SupersedeFailed(j, s, o, lag)
    BY DEF SupersedeFailed
  <2>. QED
    BY <1>1, <2>1, <2>2, <2>3, <2>4 DEF OwnerStep
<1>2. \E o \in Owners, lag \in Lags : OwnerStep(o, lag)
  BY DEF Next, storeVars, AcceptUpdate, ReleaseWorker, RequeueFailed, PurgeExpired, Tick,
         RetentionEnds
<1>. QED
  BY <1>1, <1>2

(* The transactions that write the jobs table.                               *)
LEMMA JobsStep ==
  ASSUME [Next]_storeVars, jobs' # jobs
  PROVE  \/ \E j \in Jobs : AcceptUpdate(j) \/ RetentionEnds(j)
         \/ \E j \in Jobs, o \in Owners, lag \in Lags :
               \/ ClaimNext(o, j, lag)
               \/ RenewClaim(j, o, lag)
               \/ \E st \in {"checkpointed", "completed", "failed"} : Transition(j, o, st, lag)
               \/ \E s \in Jobs : SupersedeFailed(j, s, o, lag)
         \/ \E S \in SUBSET Jobs : RequeueFailed(S) \/ PurgeExpired(S)
         \/ Tick
  BY DEF Next, OwnerStep, storeVars, AcquireWorker, RenewWorker, ReleaseWorker,
         ClaimNothing, BeginDelivery, FinalizeDelivery, Checkpoint, Complete, Fail

(* The lease is written by its taker or holder, deleted, or grows older.     *)
LEMMA LeaseStep ==
  ASSUME [Next]_storeVars, lease' # lease
  PROVE  \/ \E o \in Owners, lag \in Lags :
               lease' = Renewed(o, lag) /\ (CanAcquire(o, lag) \/ LeaseLive(o, lag))
         \/ lease' = NoLease
         \/ Tick
<1>1. ASSUME NEW o \in Owners, NEW lag \in Lags, OwnerStep(o, lag)
      PROVE  lease' = Renewed(o, lag) /\ (CanAcquire(o, lag) \/ LeaseLive(o, lag))
  <2>1. \A j \in Jobs : ~(RenewClaim(j, o, lag) \/ Checkpoint(j, o, lag)
                            \/ Complete(j, o, lag) \/ Fail(j, o, lag))
    BY DEF RenewClaim, Checkpoint, Complete, Fail, Transition
  <2>2. \A j, s \in Jobs : ~SupersedeFailed(j, s, o, lag)
    BY DEF SupersedeFailed
  <2>3. \A j \in Jobs, K \in SUBSET Keys : ~BeginDelivery(j, K, o, lag)
    BY DEF BeginDelivery
  <2>4. \A j \in Jobs, k \in Keys, oc \in DeliveryOutcome : ~FinalizeDelivery(j, k, oc, o, lag)
    BY DEF FinalizeDelivery
  <2>. QED
    BY <1>1, <2>1, <2>2, <2>3, <2>4
    DEF OwnerStep, AcquireWorker, RenewWorker, ClaimNothing, ClaimNext
<1>. QED
  BY <1>1 DEF Next, storeVars, AcceptUpdate, ReleaseWorker, RequeueFailed, PurgeExpired,
              RetentionEnds

-----------------------------------------------------------------------------
(* Receipts. *)

(* Only rows of a running job are written, by the owner that OwnsLiveJob. *)
LEMMA WrittenRow ==
  ASSUME TypeOK, [Next]_storeVars, NEW i \in Jobs, NEW k \in Keys, rows'[i][k] # rows[i][k]
  PROVE  /\ jobs' = jobs /\ lease' = lease
         /\ ~Settled(rows[i][k])
         /\ \E o \in Owners, lag \in Lags :
               OwnsLiveJob(i, o, lag) /\ rows'[i][k].owner \in {o, NoOne}
<1>1. PICK j \in Jobs, o \in Owners, lag \in Lags :
            \/ \E K \in SUBSET Keys : BeginDelivery(j, K, o, lag)
            \/ \E l \in Keys, oc \in DeliveryOutcome : FinalizeDelivery(j, l, oc, o, lag)
  BY RowsStep
<1>2. ASSUME NEW K \in SUBSET Keys, BeginDelivery(j, K, o, lag)
      PROVE  /\ jobs' = jobs /\ lease' = lease
             /\ ~Settled(rows[i][k])
             /\ OwnsLiveJob(i, o, lag) /\ rows'[i][k].owner \in {o, NoOne}
  <2>1. /\ i = j /\ k \in K
        /\ rows'[i][k] = [outcome |-> "uncertain", finalized |-> FALSE, owner |-> o]
    BY <1>2 DEF BeginDelivery, TypeOK
  <2>. QED
    BY <1>2, <2>1 DEF BeginDelivery, CanBegin
<1>3. ASSUME NEW l \in Keys, NEW oc \in DeliveryOutcome, FinalizeDelivery(j, l, oc, o, lag)
      PROVE  /\ jobs' = jobs /\ lease' = lease
             /\ ~Settled(rows[i][k])
             /\ OwnsLiveJob(i, o, lag) /\ rows'[i][k].owner \in {o, NoOne}
  <2>1. i = j /\ k = l /\ rows'[i][k] = [outcome |-> oc, finalized |-> TRUE, owner |-> NoOne]
    BY <1>3 DEF FinalizeDelivery, TypeOK
  <2>. QED
    BY <1>3, <2>1 DEF FinalizeDelivery, CanFinalize, Settled
<1>. QED
  BY <1>1, <1>2, <1>3

(* A recorded success or uncertain receipt is never altered                  *)
(* (_begin_delivery_attempts_sync, _finalize_delivery_attempt_sync).         *)
THEOREM SettledReceipts == Spec => ReceiptsAreFinal
<1>1. TypeOK /\ [Next]_storeVars => KeepsSettled
  BY WrittenRow DEF KeepsSettled
<1>. QED
  BY <1>1, TypeCorrect, PTL DEF Spec, ReceiptsAreFinal

(* Every receipt is written under the live worker lease and claim            *)
(* (_owns_live_job).                                                         *)
THEOREM FencedReceipts == Spec => ReceiptsAreFenced
<1>1. TypeOK /\ [Next]_storeVars => FencedReceipt
  BY WrittenRow DEF FencedReceipt, OwnsLiveJob, LeaseLive
<1>. QED
  BY <1>1, TypeCorrect, PTL DEF Spec, ReceiptsAreFenced

-----------------------------------------------------------------------------
(* The worker lease and the claims. *)

(* The lease changes hands only when it is free, given up or really expired, *)
(* although every comparison is made with a `now` that may be old.           *)
THEOREM FairLease == Spec => LeaseHandover
<1>1. TypeOK /\ [Next]_storeVars => FairHandover
  <2> SUFFICES ASSUME TypeOK, [Next]_storeVars, lease'.owner # lease.owner
               PROVE  lease.owner = NoOne \/ lease'.owner = NoOne \/ lease.ttl <= 0
    BY DEF FairHandover
  <2>1. lease.ttl \in Int
    BY StoreAssumption DEF TypeOK, Ttls, Lapsed
  <2>2. ASSUME NEW o \in Owners, NEW lag \in Lags, lease' = Renewed(o, lag),
               CanAcquire(o, lag) \/ LeaseLive(o, lag)
        PROVE  lease.owner = NoOne \/ lease.ttl <= 0
    <3>1. lag \in Nat
      BY StoreAssumption DEF Lags
    <3>2. lease'.owner = o
      BY <2>2 DEF Renewed
    <3>. QED
      BY <2>1, <2>2, <3>1, <3>2 DEF CanAcquire, LeaseLive, Live
  <2>3. ASSUME Tick PROVE FALSE
    BY <2>3 DEF Tick, TypeOK
  <2>. QED
    BY <2>2, <2>3, LeaseStep DEF NoLease
<1>. QED
  BY <1>1, TypeCorrect, PTL DEF Spec, LeaseHandover

-----------------------------------------------------------------------------
(* What can happen to one row of the jobs table: a transaction that changes  *)
(* it, seen from that row.                                                   *)

Accepted(i) == jobs[i].state = "absent" /\ jobs'[i] = NewJob("accepted")

Ages(i) ==
    /\ jobs[i].state # "absent" /\ jobs[i].payload = "kept"
    /\ jobs'[i] = [jobs[i] EXCEPT !.payload = "due"]

Claimed(i, o, lag) ==
    /\ i \in Claimable(lag)
    /\ lease' = Renewed(o, lag)
    /\ jobs'[i] = [jobs[i] EXCEPT !.state = "running", !.owner = o, !.claim = Lease - lag]

Reclocked(i) == \E ttl \in Ttls : jobs'[i] = [jobs[i] EXCEPT !.claim = ttl]

Released(i, o, lag) ==
    /\ CanLeave(i, o, lag)
    /\ \E st \in {"checkpointed", "completed", "failed"} :
          jobs'[i] = [jobs[i] EXCEPT !.state = st, !.owner = NoOne, !.claim = Lapsed]

Superseded(i, s) ==
    /\ s # i /\ jobs[s].state = "running" /\ jobs'[s] = jobs[s]
    /\ ~HasUnsafeDeliveries(i)
    /\ jobs[i].state \in {"failed", "checkpointed"}
    /\ jobs'[i] = [jobs[i] EXCEPT !.state = "completed", !.owner = NoOne,
                                  !.claim = Lapsed, !.supersededBy = s]

Requeued(i) == i \in Requeueable /\ jobs'[i] = [jobs[i] EXCEPT !.state = "checkpointed"]

Purged(i) == i \in Purgeable /\ jobs'[i] = [jobs[i] EXCEPT !.payload = "purged"]

(* A job's row changes in one of these ways, and then no receipt changes.    *)
LEMMA WrittenJob ==
  ASSUME TypeOK, [Next]_storeVars, NEW i \in Jobs, jobs'[i] # jobs[i]
  PROVE  /\ rows' = rows
         /\ \/ Accepted(i) \/ Ages(i) \/ Reclocked(i) \/ Requeued(i) \/ Purged(i)
            \/ \E o \in Owners, lag \in Lags : Claimed(i, o, lag) \/ Released(i, o, lag)
            \/ \E s \in Jobs : Superseded(i, s)
<1> USE StoreAssumption
<1>0. jobs' # jobs
  OBVIOUS
<1>1. ASSUME NEW j \in Jobs, AcceptUpdate(j) PROVE rows' = rows /\ Accepted(i)
  BY <1>1 DEF AcceptUpdate, Accepted, TypeOK
<1>2. ASSUME NEW j \in Jobs, RetentionEnds(j) PROVE rows' = rows /\ Ages(i)
  BY <1>2 DEF RetentionEnds, Ages, TypeOK
<1>3. ASSUME NEW j \in Jobs, NEW o \in Owners, NEW lag \in Lags, ClaimNext(o, j, lag)
      PROVE  rows' = rows /\ Claimed(i, o, lag)
  BY <1>3 DEF ClaimNext, OldestClaimable, Claimed, TypeOK
<1>4. ASSUME NEW j \in Jobs, NEW o \in Owners, NEW lag \in Lags, RenewClaim(j, o, lag)
      PROVE  rows' = rows /\ Reclocked(i)
  <2>1. Lease - lag \in Ttls
    BY DEF Ttls, Lags, Lapsed
  <2>. QED
    BY <1>4, <2>1 DEF RenewClaim, Reclocked, TypeOK
<1>5. ASSUME NEW j \in Jobs, NEW o \in Owners, NEW lag \in Lags,
             NEW st \in {"checkpointed", "completed", "failed"}, Transition(j, o, st, lag)
      PROVE  rows' = rows /\ Released(i, o, lag)
  <2>1. i = j
    BY <1>5 DEF Transition, TypeOK
  <2>. QED
    BY <1>5, <2>1 DEF Transition, Released, TypeOK
<1>6. ASSUME NEW j \in Jobs, NEW s \in Jobs, NEW o \in Owners, NEW lag \in Lags,
             SupersedeFailed(j, s, o, lag)
      PROVE  rows' = rows /\ Superseded(i, s)
  <2>1. PICK t \in Jobs \ {s} :
          /\ ~HasUnsafeDeliveries(t)
          /\ jobs[t].state \in {"failed", "checkpointed"}
          /\ jobs' = [jobs EXCEPT ![t] =
                        [@ EXCEPT !.state = "completed", !.owner = NoOne,
                                  !.claim = Lapsed, !.supersededBy = s]]
    BY <1>6 DEF SupersedeFailed
  <2>2. t = i
    BY <2>1 DEF TypeOK
  <2>3. jobs[s].state = "running" /\ rows' = rows
    BY <1>6 DEF SupersedeFailed, OwnsLiveJob
  <2>. QED
    BY <2>1, <2>2, <2>3 DEF Superseded, TypeOK
<1>7. ASSUME NEW S \in SUBSET Jobs, RequeueFailed(S) PROVE rows' = rows /\ Requeued(i)
  BY <1>7 DEF RequeueFailed, Requeued, TypeOK
<1>8. ASSUME NEW S \in SUBSET Jobs, PurgeExpired(S) PROVE rows' = rows /\ Purged(i)
  BY <1>8 DEF PurgeExpired, Purged, TypeOK
<1>9. ASSUME Tick PROVE rows' = rows /\ Reclocked(i)
  <2>1. Older(jobs[i].claim) \in Ttls
    BY DEF Older, Ttls, Lapsed, TypeOK, Job
  <2>. QED
    BY <1>9, <2>1 DEF Tick, Reclocked
<1>. QED
  BY <1>0, <1>1, <1>2, <1>3, <1>4, <1>5, <1>6, <1>7, <1>8, <1>9, JobsStep

(* A running job leaves its owner only by that owner's hand or when its claim *)
(* has really run out (_claim_recoverable_jobs_sync, _transition_sync).      *)
THEOREM FencedClaims == Spec => ClaimsAreFenced
<1>1. TypeOK /\ [Next]_storeVars => FencedClaim
  <2> SUFFICES ASSUME TypeOK, [Next]_storeVars, NEW i \in Jobs,
                      jobs[i].state = "running", jobs'[i].owner # jobs[i].owner
               PROVE  \/ jobs'[i].owner = NoOne /\ lease.owner = jobs[i].owner
                      \/ jobs[i].claim <= 0 /\ lease'.owner = jobs'[i].owner
    BY DEF FencedClaim
  <2>0. jobs[i] \in Job
    BY DEF TypeOK
  <2>1. ASSUME NEW o \in Owners, NEW lag \in Lags, Claimed(i, o, lag)
        PROVE  jobs[i].claim <= 0 /\ lease'.owner = jobs'[i].owner
    <3>1. lag \in Nat /\ jobs[i].claim \in Int
      BY <2>0, StoreAssumption DEF Lags, Job, Ttls, Lapsed
    <3>2. ~Live(jobs[i].claim, lag)
      BY <2>1 DEF Claimed, Claimable
    <3>3. lease'.owner = o /\ jobs'[i].owner = o
      BY <2>0, <2>1 DEF Claimed, Renewed, Job
    <3>. QED
      BY <3>1, <3>2, <3>3 DEF Live
  <2>2. ASSUME NEW o \in Owners, NEW lag \in Lags, Released(i, o, lag)
        PROVE  jobs'[i].owner = NoOne /\ lease.owner = jobs[i].owner
    BY <2>0, <2>2 DEF Released, CanLeave, LeaseLive, Job
  <2>3. ~(Accepted(i) \/ Ages(i) \/ Reclocked(i) \/ Requeued(i) \/ Purged(i))
    BY <2>0 DEF Accepted, Ages, Reclocked, Requeued, Requeueable, Purged, Job
  <2>4. ~\E s \in Jobs : Superseded(i, s)
    BY DEF Superseded
  <2>. QED
    BY <2>1, <2>2, <2>3, <2>4, WrittenJob
<1>. QED
  BY <1>1, TypeCorrect, PTL DEF Spec, ClaimsAreFenced

(* A job with a whole-job receipt is never claimed again                     *)
(* (_claim_recoverable_jobs_sync, the NOT EXISTS clause).                    *)
THEOREM RetiredJobs == Spec => WholeJobReceiptRetires
<1>1. TypeOK /\ [Next]_storeVars => StaysRetired
  <2> SUFFICES ASSUME TypeOK, [Next]_storeVars, NEW i \in Jobs, NEW k \in Keys,
                      k = JobKey, Sent(rows[i][k]), jobs'[i].owner # jobs[i].owner
               PROVE  jobs'[i].owner = NoOne
    BY DEF StaysRetired
  <2>0. jobs[i] \in Job
    BY DEF TypeOK
  <2>1. \A o \in Owners, lag \in Lags : ~Claimed(i, o, lag)
    BY DEF Claimed, Claimable
  <2>2. ASSUME NEW o \in Owners, NEW lag \in Lags, Released(i, o, lag)
        PROVE  jobs'[i].owner = NoOne
    BY <2>0, <2>2 DEF Released, Job
  <2>3. ASSUME Accepted(i) PROVE jobs'[i].owner = NoOne
    BY <2>3 DEF Accepted, NewJob
  <2>4. ~(Ages(i) \/ Reclocked(i) \/ Requeued(i) \/ Purged(i))
    BY <2>0 DEF Ages, Reclocked, Requeued, Purged, Job
  <2>5. ASSUME NEW s \in Jobs, Superseded(i, s) PROVE jobs'[i].owner = NoOne
    BY <2>0, <2>5 DEF Superseded, Job
  <2>. QED
    BY <2>1, <2>2, <2>3, <2>4, <2>5, WrittenJob
<1>. QED
  BY <1>1, TypeCorrect, PTL DEF Spec, WholeJobReceiptRetires

(* completed is final, and failed is left only for items known to be unsent  *)
(* or for a successor (_requeue_failed_deliveries_sync,                      *)
(* _supersede_failed_job_sync).                                              *)
THEOREM FinishedJobs == Spec => FinishedStaysFinished
<1>1. TypeOK /\ [Next]_storeVars => StaysFinished
  <2> SUFFICES ASSUME TypeOK, [Next]_storeVars, NEW i \in Jobs,
                      jobs[i].state \in {"completed", "failed"}, jobs'[i].state # jobs[i].state
               PROVE  /\ jobs[i].state = "failed"
                      /\ \/ jobs'[i].state = "checkpointed" /\ HasFailedDeliveries(i)
                         \/ jobs'[i].supersededBy # NoJob
    BY DEF StaysFinished
  <2>0. jobs[i] \in Job
    BY DEF TypeOK
  <2>1. \A o \in Owners, lag \in Lags : ~Claimed(i, o, lag) /\ ~Released(i, o, lag)
    BY DEF Claimed, Claimable, Released, CanLeave
  <2>2. ~(Accepted(i) \/ Ages(i) \/ Reclocked(i) \/ Purged(i))
    BY <2>0 DEF Accepted, Ages, Reclocked, Purged, Job
  <2>3. ASSUME Requeued(i)
        PROVE  jobs[i].state = "failed" /\ jobs'[i].state = "checkpointed" /\ HasFailedDeliveries(i)
    BY <2>0, <2>3 DEF Requeued, Requeueable, Job
  <2>4. ASSUME NEW s \in Jobs, Superseded(i, s)
        PROVE  jobs[i].state = "failed" /\ jobs'[i].supersededBy # NoJob
    BY <2>0, <2>4, StoreAssumption DEF Superseded, Job
  <2>. QED
    BY <2>1, <2>2, <2>3, <2>4, WrittenJob
<1>. QED
  BY <1>1, TypeCorrect, PTL DEF Spec, FinishedStaysFinished

-----------------------------------------------------------------------------
(* Retention and retries: an inductive invariant. *)

StoreInv == TypeOK /\ PayloadOutlivesWork /\ SupersededNeverSent /\ SupersedeAcyclic

(* A step leaves alone the receipts of a job that is not running. *)
LEMMA IdleRows ==
  ASSUME TypeOK, [Next]_storeVars, NEW i \in Jobs, jobs[i].state # "running"
  PROVE  rows'[i] = rows[i]
<1>1. \A k \in Keys : rows'[i][k] = rows[i][k]
  BY WrittenRow DEF OwnsLiveJob
<1>2. rows[i] \in [Keys -> Row] /\ rows'[i] \in [Keys -> Row]
  BY NextTypeOK DEF TypeOK
<1>. QED
  BY <1>1, <1>2

(* No step strips a payload that is still needed.                            *)
LEMMA NextPayload == TypeOK /\ PayloadOutlivesWork /\ [Next]_storeVars => PayloadOutlivesWork'
<1> SUFFICES ASSUME TypeOK, PayloadOutlivesWork, [Next]_storeVars, NEW i \in Jobs,
                    jobs'[i].state \in Runnable \/ i \in Requeueable'
             PROVE  jobs'[i].payload # "purged"
  BY DEF PayloadOutlivesWork
<1>0. /\ jobs[i] \in Job
      /\ jobs[i].state \in Runnable \/ i \in Requeueable => jobs[i].payload # "purged"
  BY DEF TypeOK, PayloadOutlivesWork
<1>1. CASE jobs'[i] = jobs[i]
  <2>1. CASE jobs[i].state \in Runnable
    BY <1>0, <1>1, <2>1
  <2>2. CASE jobs[i].state \notin Runnable
    <3>1. rows'[i] = rows[i]
      BY <2>2, IdleRows DEF Runnable
    <3>2. i \in Requeueable
      BY <1>1, <2>2, <3>1 DEF Requeueable, HasFailedDeliveries
    <3>. QED
      BY <1>0, <1>1, <3>2
  <2>. QED
    BY <2>1, <2>2
<1>2. CASE jobs'[i] # jobs[i]
  <2>0. rows' = rows
    BY <1>2, WrittenJob
  <2>1. ASSUME Accepted(i) \/ Ages(i) PROVE jobs'[i].payload # "purged"
    BY <1>0, <2>1 DEF Accepted, Ages, NewJob, Job
  <2>2. ASSUME Reclocked(i) PROVE jobs'[i].payload # "purged"
    BY <1>0, <2>0, <2>2 DEF Reclocked, Requeueable, HasFailedDeliveries, Job
  <2>3. ASSUME Requeued(i) PROVE jobs'[i].payload # "purged"
    BY <1>0, <2>3 DEF Requeued, Job
  <2>4. ASSUME Purged(i) PROVE FALSE
    BY <1>0, <2>0, <2>4 DEF Purged, Purgeable, Requeueable, HasFailedDeliveries, Runnable, Job
  <2>5. ASSUME NEW o \in Owners, NEW lag \in Lags, Claimed(i, o, lag) \/ Released(i, o, lag)
        PROVE  jobs'[i].payload # "purged"
    <3>1. jobs[i].state \in Runnable
      BY <2>5 DEF Claimed, Claimable, Released, CanLeave, Runnable
    <3>. QED
      BY <1>0, <2>5, <3>1 DEF Claimed, Released, Job
  <2>6. ASSUME NEW s \in Jobs, Superseded(i, s) PROVE FALSE
    BY <1>0, <2>6 DEF Superseded, Requeueable, Runnable, Job
  <2>. QED
    BY <1>2, <2>1, <2>2, <2>3, <2>4, <2>5, <2>6, WrittenJob
<1>. QED
  BY <1>1, <1>2

(* No step gives a superseded job a receipt or takes it out of completed.    *)
LEMMA NextSuperseded == TypeOK /\ SupersededNeverSent /\ [Next]_storeVars => SupersededNeverSent'
<1> SUFFICES ASSUME TypeOK, SupersededNeverSent, [Next]_storeVars, NEW i \in Jobs,
                    jobs'[i].supersededBy # NoJob
             PROVE  jobs'[i].state = "completed" /\ ~HasUnsafeDeliveries(i)'
  BY DEF SupersededNeverSent, HasUnsafeDeliveries
<1>0. /\ jobs[i] \in Job
      /\ jobs[i].supersededBy # NoJob => jobs[i].state = "completed" /\ ~HasUnsafeDeliveries(i)
  BY DEF TypeOK, SupersededNeverSent, HasUnsafeDeliveries
<1>1. CASE jobs'[i] = jobs[i]
  <2>1. jobs[i].state = "completed" /\ ~HasUnsafeDeliveries(i)
    BY <1>0, <1>1
  <2>2. rows'[i] = rows[i]
    BY <2>1, IdleRows
  <2>. QED
    BY <1>1, <2>1, <2>2 DEF HasUnsafeDeliveries
<1>2. CASE jobs'[i] # jobs[i]
  <2>0. rows' = rows
    BY <1>2, WrittenJob
  <2>1. ASSUME Ages(i) \/ Reclocked(i) \/ Purged(i)
        PROVE  jobs'[i].state = "completed" /\ ~HasUnsafeDeliveries(i)'
    <3>1. jobs'[i].supersededBy = jobs[i].supersededBy /\ jobs'[i].state = jobs[i].state
      BY <1>0, <2>1 DEF Ages, Reclocked, Purged, Job
    <3>. QED
      BY <1>0, <2>0, <3>1 DEF HasUnsafeDeliveries
  <2>2. ASSUME Accepted(i) PROVE FALSE
    BY <2>2 DEF Accepted, NewJob
  <2>3. ASSUME Requeued(i) PROVE FALSE
    BY <1>0, <2>3 DEF Requeued, Requeueable, Job
  <2>4. ASSUME NEW o \in Owners, NEW lag \in Lags, Claimed(i, o, lag) \/ Released(i, o, lag)
        PROVE  FALSE
    BY <1>0, <2>4 DEF Claimed, Claimable, Released, CanLeave, Job
  <2>5. ASSUME NEW s \in Jobs, Superseded(i, s)
        PROVE  jobs'[i].state = "completed" /\ ~HasUnsafeDeliveries(i)'
    BY <1>0, <2>0, <2>5 DEF Superseded, HasUnsafeDeliveries, Job
  <2>. QED
    BY <1>2, <2>1, <2>2, <2>3, <2>4, <2>5, WrittenJob
<1>. QED
  BY <1>1, <1>2

(* The only new link leads from a job to a running one, and a running job    *)
(* has no link of its own.                                                   *)
LEMMA NewLink ==
  ASSUME TypeOK, SupersededNeverSent, [Next]_storeVars, NEW i \in Jobs,
         jobs'[i].supersededBy # jobs[i].supersededBy
  PROVE  \E s \in Jobs : /\ s # i /\ jobs'[i].supersededBy = s
                          /\ jobs'[s].supersededBy = NoJob
<1>0. jobs[i] \in Job
  BY DEF TypeOK
<1>1. ~(Ages(i) \/ Reclocked(i) \/ Requeued(i) \/ Purged(i))
  BY <1>0 DEF Ages, Reclocked, Requeued, Purged, Job
<1>2. ~Accepted(i)
  BY <1>0 DEF Accepted, NewJob, SupersededNeverSent, Job
<1>3. \A o \in Owners, lag \in Lags : ~Claimed(i, o, lag) /\ ~Released(i, o, lag)
  BY <1>0 DEF Claimed, Released, Job
<1>4. PICK s \in Jobs : Superseded(i, s)
  BY <1>1, <1>2, <1>3, WrittenJob
<1>5. jobs'[i].supersededBy = s
  BY <1>0, <1>4 DEF Superseded, Job
<1>6. jobs'[s].supersededBy = NoJob
  BY <1>4 DEF Superseded, SupersededNeverSent
<1>. QED
  BY <1>4, <1>5, <1>6 DEF Superseded

(* No step closes a cycle of superseded_by links.                            *)
LEMMA NextAcyclic ==
  TypeOK /\ SupersededNeverSent /\ SupersedeAcyclic /\ [Next]_storeVars => SupersedeAcyclic'
<1> SUFFICES ASSUME TypeOK, SupersededNeverSent, SupersedeAcyclic, [Next]_storeVars,
                    NEW S \in SUBSET Jobs, S # {}
             PROVE  \E j \in S : jobs'[j].supersededBy \notin S
  BY DEF SupersedeAcyclic
<1>1. CASE \A j \in S : jobs'[j].supersededBy = jobs[j].supersededBy
  BY <1>1 DEF SupersedeAcyclic
<1>2. ASSUME NEW i \in S, jobs'[i].supersededBy # jobs[i].supersededBy
      PROVE  \E j \in S : jobs'[j].supersededBy \notin S
  <2>1. PICK s \in Jobs : jobs'[i].supersededBy = s /\ jobs'[s].supersededBy = NoJob
    BY <1>2, NewLink
  <2>2. CASE s \in S
    BY <2>1, <2>2, StoreAssumption
  <2>3. CASE s \notin S
    BY <2>1, <2>3
  <2>. QED
    BY <2>2, <2>3
<1>. QED
  BY <1>1, <1>2

(* The empty store satisfies the invariant.                                  *)
LEMMA InitInv == Init => StoreInv
<1> SUFFICES ASSUME Init PROVE StoreInv
  OBVIOUS
<1>1. \A j \in Jobs : jobs[j] = NewJob("absent")
  BY DEF Init
<1>2. TypeOK
  BY InitTypeOK
<1>3. PayloadOutlivesWork
  BY <1>1 DEF PayloadOutlivesWork, Runnable, Requeueable, NewJob
<1>4. SupersededNeverSent
  BY <1>1 DEF SupersededNeverSent, NewJob
<1>5. SupersedeAcyclic
  BY <1>1, StoreAssumption DEF SupersedeAcyclic, NewJob
<1>. QED
  BY <1>2, <1>3, <1>4, <1>5 DEF StoreInv

(* The invariant is inductive.                                               *)
LEMMA StoreInvariant == Spec => []StoreInv
<1>1. StoreInv /\ [Next]_storeVars => StoreInv'
  BY NextTypeOK, NextPayload, NextSuperseded, NextAcyclic DEF StoreInv
<1>. QED
  BY InitInv, <1>1, PTL DEF Spec

(* purge_expired_payloads never strips an update that can run again.         *)
THEOREM PayloadIsKept == Spec => []PayloadOutlivesWork
  BY StoreInvariant, PTL DEF StoreInv

(* supersede_failed_job closes only attempts that sent nothing, and nothing  *)
(* is sent for them later.                                                   *)
THEOREM SupersededJobs == Spec => []SupersededNeverSent
  BY StoreInvariant, PTL DEF StoreInv

(* The walk over superseded_by always ends.                                  *)
THEOREM NoSupersedeCycle == Spec => []SupersedeAcyclic
  BY StoreInvariant, PTL DEF StoreInv

=============================================================================
