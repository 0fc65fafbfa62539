------------------------------ MODULE JobStore ------------------------------
(***************************************************************************)
(* The durable webhook inbox of app/core/job_store.py: the tables jobs,    *)
(* deliveries and worker_lease, and one action per transaction.  Every     *)
(* method of the store is one BEGIN IMMEDIATE transaction, so an action is *)
(* atomic, and a transaction whose WHERE clause matches no row (rowcount   *)
(* 0, the method returns False) changes nothing: it is a stuttering step,  *)
(* and the client reads the negated guard.                                 *)
(*                                                                         *)
(* The specification is the store under its most general client: any       *)
(* owner, alive or long since replaced, may issue any call at any time.    *)
(*                                                                         *)
(* Time.  The code keeps absolute expiry times and compares them with a    *)
(* `now` read BEFORE the call is handed to a worker thread                 *)
(* (self._clock() is an argument of self._run), so `now` may lie in the    *)
(* past when the transaction commits.  The model keeps, for each expiry    *)
(* time, the time left to live: ttl = expires_at - clock.  A call whose    *)
(* `now` is `lag` ticks old sees  expires_at > now  exactly when           *)
(* ttl + lag > 0, and writes now + lease_seconds as Lease - lag.  Ttls     *)
(* stop falling at Lapsed = -MaxLag, where no call sees them live; a NULL  *)
(* claim_expires_at, which compares like an expired one in every           *)
(* statement, is Lapsed too.                                               *)
(***************************************************************************)
EXTENDS Integers, Sequences

CONSTANTS
    Jobs,     \* update ids; job_id = str(update_id), so one job per update
    Owners,   \* worker owner ids, one uuid per process
    Keys,     \* delivery item keys
    JobKey,   \* the item key '__job__' of a whole-job receipt
    NoOne,    \* a NULL owner_id
    NoJob,    \* no superseded_by entry in the checkpoint
    Lease,    \* lease_seconds, in ticks
    MaxLag    \* bound: the age of `now` when a transaction commits

ASSUME StoreAssumption ==
    /\ NoOne \notin Owners
    /\ NoJob \notin Jobs
    /\ Lease \in Nat \ {0}
    /\ MaxLag \in Nat

VARIABLES
    jobs,     \* the jobs table
    inbox,    \* the stored jobs in the order (accepted_at, update_id)
    rows,     \* the deliveries table
    lease     \* the worker_lease singleton

storeVars == <<jobs, inbox, rows, lease>>

-----------------------------------------------------------------------------
(* Types and row constructors. *)

Lapsed == -MaxLag
Lags == 0 .. MaxLag
Ttls == Lapsed .. Lease

JobState == {"accepted", "running", "checkpointed", "completed", "failed"}
DeliveryOutcome == {"success", "failed", "uncertain"}

\* A payload is kept, past its retention time, or replaced by its bare id.
Job == [state : JobState \cup {"absent"},
        owner : Owners \cup {NoOne},
        claim : Ttls,
        payload : {"kept", "due", "purged"},
        supersededBy : Jobs \cup {NoJob}]

Row == [outcome : DeliveryOutcome \cup {"none"},
        finalized : BOOLEAN,
        owner : Owners \cup {NoOne}]

NewJob(state) == [state |-> state, owner |-> NoOne, claim |-> Lapsed,
                  payload |-> "kept", supersededBy |-> NoJob]
NoRow == [outcome |-> "none", finalized |-> TRUE, owner |-> NoOne]
NoLease == [owner |-> NoOne, ttl |-> Lapsed]

(* Every table keeps its type; no expiry time lies further ahead than a lease.*)
TypeOK ==
    /\ jobs \in [Jobs -> Job]
    /\ inbox \in Seq(Jobs)
    /\ rows \in [Jobs -> [Keys -> Row]]
    /\ lease \in [owner : Owners \cup {NoOne}, ttl : Ttls]

Init ==
    /\ jobs = [j \in Jobs |-> NewJob("absent")]
    /\ inbox = << >>
    /\ rows = [j \in Jobs |-> [k \in Keys |-> NoRow]]
    /\ lease = NoLease

-----------------------------------------------------------------------------
(* Conditions shared by the statements. *)

\* expires_at > now, for a `now` that is lag ticks old.
Live(ttl, lag) == ttl + lag > 0

LeaseLive(o, lag) == lease.owner = o /\ Live(lease.ttl, lag)

\* Fault: the claim is checked, the worker lease is not.
OwnsJobWithoutLease(j, o, lag) ==
    /\ jobs[j].state = "running"
    /\ jobs[j].owner = o
    /\ Live(jobs[j].claim, lag)

OwnsLiveJob(j, o, lag) ==
    /\ jobs[j].state = "running"
    /\ jobs[j].owner = o
    /\ Live(jobs[j].claim, lag)
    /\ LeaseLive(o, lag)

Sent(row) == row.outcome \in {"success", "uncertain"}
Settled(row) == row.finalized /\ Sent(row)

\* Fault: an uncertain receipt does not forbid the retry of the request.
HasUnsafeSuccessOnly(j) == \E k \in Keys : rows[j][k].outcome = "success"

HasUnsafeDeliveries(j) == \E k \in Keys : Sent(rows[j][k])
HasFailedDeliveries(j) == \E k \in Keys : rows[j][k].outcome = "failed"

-----------------------------------------------------------------------------
(* The inbox. *)

\* INSERT OR IGNORE: a repeated update changes nothing.  accepted_at is the
\* caller's possibly old `now`, so the new row may sort before earlier ones.
AcceptUpdate(j) ==
    /\ jobs[j].state = "absent"
    /\ jobs' = [jobs EXCEPT ![j] = NewJob("accepted")]
    /\ \E p \in 0 .. Len(inbox) :
          inbox' = SubSeq(inbox, 1, p) \o <<j>> \o SubSeq(inbox, p + 1, Len(inbox))
    /\ UNCHANGED <<rows, lease>>

-----------------------------------------------------------------------------
(* The worker lease. *)

\* Fault: expiry tested against the time of the lease's last renewal.
CanAcquireEarly(o, lag) ==
    lease.owner \in {o, NoOne} \/ lease.ttl <= lag

CanAcquire(o, lag) ==
    lease.owner \in {o, NoOne} \/ ~Live(lease.ttl, lag)

\* Fault: a renewal extends the old expiry time.
RenewedOnTop(o, lag) == [owner |-> o, ttl |-> lease.ttl + Lease - lag]

Renewed(o, lag) == [owner |-> o, ttl |-> Lease - lag]

AcquireWorker(o, lag) ==
    /\ CanAcquire(o, lag)
    /\ lease' = Renewed(o, lag)
    /\ UNCHANGED <<jobs, inbox, rows>>

RenewWorker(o, lag) ==
    /\ LeaseLive(o, lag)
    /\ lease' = Renewed(o, lag)
    /\ UNCHANGED <<jobs, inbox, rows>>

ReleaseWorker(o) ==
    /\ lease.owner = o
    /\ lease' = NoLease
    /\ UNCHANGED <<jobs, inbox, rows>>

-----------------------------------------------------------------------------
(* Claims. *)

\* Fault: a running job is claimed while its claim is live.
ClaimableWhileRunning(lag) ==
    {j \in Jobs :
        /\ jobs[j].state \in {"accepted", "checkpointed", "running"}
        /\ \A k \in Keys \cap {JobKey} : ~Sent(rows[j][k])}

\* Fault: an abandoned running job is not recovered.
ClaimableIfQueued(lag) ==
    {j \in Jobs :
        /\ jobs[j].state \in {"accepted", "checkpointed"}
        /\ \A k \in Keys \cap {JobKey} : ~Sent(rows[j][k])}

\* Fault: whole-job receipts are not consulted.
ClaimableDespiteReceipt(lag) ==
    {j \in Jobs :
        \/ jobs[j].state \in {"accepted", "checkpointed"}
        \/ jobs[j].state = "running" /\ ~Live(jobs[j].claim, lag)}

Claimable(lag) ==
    {j \in Jobs :
        /\ \/ jobs[j].state \in {"accepted", "checkpointed"}
           \/ jobs[j].state = "running" /\ ~Live(jobs[j].claim, lag)
        /\ \A k \in Keys \cap {JobKey} : ~Sent(rows[j][k])}

OldestClaimable(j, lag) ==
    \E i \in DOMAIN inbox :
        /\ inbox[i] = j
        /\ j \in Claimable(lag)
        /\ \A h \in 1 .. (i - 1) : inbox[h] \notin Claimable(lag)

\* claim_next takes the worker lease in the same transaction, and keeps it
\* when it finds no job.
ClaimNext(o, j, lag) ==
    /\ CanAcquire(o, lag)
    /\ lease' = Renewed(o, lag)
    /\ OldestClaimable(j, lag)
    /\ jobs' = [jobs EXCEPT ![j] =
                  [@ EXCEPT !.state = "running", !.owner = o, !.claim = Lease - lag]]
    /\ UNCHANGED <<inbox, rows>>

ClaimNothing(o, lag) ==
    /\ Claimable(lag) = {}
    /\ AcquireWorker(o, lag)

RenewClaim(j, o, lag) ==
    /\ OwnsLiveJob(j, o, lag)
    /\ jobs' = [jobs EXCEPT ![j] = [@ EXCEPT !.claim = Lease - lag]]
    /\ UNCHANGED <<inbox, rows, lease>>

\* checkpoint, complete and fail: leave the claim, guarded by its ownership.
CanLeave(j, o, lag) ==
    /\ jobs[j].state \in {"accepted", "running", "checkpointed"}
    /\ jobs[j].owner = o
    /\ Live(jobs[j].claim, lag)
    /\ LeaseLive(o, lag)

Transition(j, o, state, lag) ==
    /\ CanLeave(j, o, lag)
    /\ jobs' = [jobs EXCEPT ![j] =
                  [@ EXCEPT !.state = state, !.owner = NoOne, !.claim = Lapsed]]
    /\ UNCHANGED <<inbox, rows, lease>>

Checkpoint(j, o, lag) == Transition(j, o, "checkpointed", lag)
Complete(j, o, lag) == Transition(j, o, "completed", lag)
Fail(j, o, lag) == Transition(j, o, "failed", lag)

-----------------------------------------------------------------------------
(* Delivery receipts. *)

\* Fault: a finalized receipt does not stop a new attempt.
CanBeginAgain(j, K, o, lag) == OwnsLiveJob(j, o, lag)

CanBegin(j, K, o, lag) ==
    /\ OwnsLiveJob(j, o, lag)
    /\ \A k \in K : ~Settled(rows[j][k])

\* Reserve every item of one send, or none: the rows turn 'uncertain' before
\* anything is sent.
BeginDelivery(j, K, o, lag) ==
    /\ CanBegin(j, K, o, lag)
    /\ rows' = [rows EXCEPT ![j] =
                  [k \in Keys |->
                     IF k \in K
                       THEN [outcome |-> "uncertain", finalized |-> FALSE, owner |-> o]
                       ELSE rows[j][k]]]
    /\ UNCHANGED <<jobs, inbox, lease>>

CanFinalize(j, k, o, lag) ==
    /\ OwnsLiveJob(j, o, lag)
    /\ ~rows[j][k].finalized
    /\ rows[j][k].owner = o

FinalizeDelivery(j, k, outcome, o, lag) ==
    /\ CanFinalize(j, k, o, lag)
    /\ rows' = [rows EXCEPT ![j][k] =
                  [outcome |-> outcome, finalized |-> TRUE, owner |-> NoOne]]
    /\ UNCHANGED <<jobs, inbox, lease>>

-----------------------------------------------------------------------------
(* Retry of a failed request by a later update (the retry button). *)

\* One round of the walk over superseded_by: stop at the successor, at a job
\* with an unsafe receipt and at one that no later job has replaced.
NextInChain(j, s) ==
    IF j # s /\ jobs[j].state = "completed" /\ jobs[j].supersededBy # NoJob
       /\ ~HasUnsafeDeliveries(j)
      THEN jobs[j].supersededBy
      ELSE j

\* The job at which the walk from j stops; a walk visits a stored job once.
ChainEnd(j, s) ==
    LET walk[n \in Nat] == IF n = 0 THEN j ELSE NextInChain(walk[n - 1], s)
    IN  walk[Len(inbox)]

\* Fault: the successor's ownership is not checked.
SupersedeUnowned(j, s, o, lag) ==
    /\ \E t \in Jobs \ {s} :
          /\ t = ChainEnd(j, s)
          /\ ~HasUnsafeDeliveries(t)
          /\ jobs[t].state \in {"failed", "checkpointed"}
          /\ jobs' = [jobs EXCEPT ![t] =
                        [@ EXCEPT !.state = "completed", !.owner = NoOne,
                                  !.claim = Lapsed, !.supersededBy = s]]
    /\ UNCHANGED <<inbox, rows, lease>>

\* Close the last failed attempt of the request in favour of the successor s,
\* which must be running under its live owner.  When the walk arrives at s
\* itself the call succeeds and changes nothing.
SupersedeFailed(j, s, o, lag) ==
    /\ OwnsLiveJob(s, o, lag)
    /\ \E t \in Jobs \ {s} :
          /\ t = ChainEnd(j, s)
          /\ ~HasUnsafeDeliveries(t)
          /\ jobs[t].state \in {"failed", "checkpointed"}
          /\ jobs' = [jobs EXCEPT ![t] =
                        [@ EXCEPT !.state = "completed", !.owner = NoOne,
                                  !.claim = Lapsed, !.supersededBy = s]]
    /\ UNCHANGED <<inbox, rows, lease>>

-----------------------------------------------------------------------------
(* Startup requeue and payload retention; LIMIT takes a part of the matches. *)

\* Fault: every failed job is run again, not only unsent deliveries.
RequeueableFailed == {j \in Jobs : jobs[j].state = "failed"}

Requeueable == {j \in Jobs : jobs[j].state = "failed" /\ HasFailedDeliveries(j)}

RequeueFailed(S) ==
    /\ S # {}
    /\ S \subseteq Requeueable
    /\ jobs' = [j \in Jobs |->
                  IF j \in S THEN [jobs[j] EXCEPT !.state = "checkpointed"]
                             ELSE jobs[j]]
    /\ UNCHANGED <<inbox, rows, lease>>

\* Fault: retention ignores that a failed delivery is retried after a restart.
PurgeableFinished ==
    {j \in Jobs :
        /\ jobs[j].state \in {"completed", "failed"}
        /\ jobs[j].payload = "due"}

Purgeable ==
    {j \in Jobs :
        /\ jobs[j].state \in {"completed", "failed"}
        /\ jobs[j].payload = "due"
        /\ ~(jobs[j].state = "failed" /\ HasFailedDeliveries(j))}

PurgeExpired(S) ==
    /\ S # {}
    /\ S \subseteq Purgeable
    /\ jobs' = [j \in Jobs |->
                  IF j \in S THEN [jobs[j] EXCEPT !.payload = "purged"]
                             ELSE jobs[j]]
    /\ UNCHANGED <<inbox, rows, lease>>

-----------------------------------------------------------------------------
(* The passage of time. *)

Older(ttl) == IF ttl > Lapsed THEN ttl - 1 ELSE Lapsed

Tick ==
    /\ jobs' = [j \in Jobs |-> [jobs[j] EXCEPT !.claim = Older(jobs[j].claim)]]
    /\ lease' = [lease EXCEPT !.ttl = Older(lease.ttl)]
    /\ UNCHANGED <<inbox, rows>>

\* payload_expires_at passes: retention is days where leases are seconds.
RetentionEnds(j) ==
    /\ jobs[j].state # "absent"
    /\ jobs[j].payload = "kept"
    /\ jobs' = [jobs EXCEPT ![j] = [@ EXCEPT !.payload = "due"]]
    /\ UNCHANGED <<inbox, rows, lease>>

-----------------------------------------------------------------------------

OwnerStep(o, lag) ==
    \/ AcquireWorker(o, lag)
    \/ RenewWorker(o, lag)
    \/ ClaimNothing(o, lag)
    \/ \E j \in Jobs :
          \/ ClaimNext(o, j, lag)
          \/ RenewClaim(j, o, lag)
          \/ Checkpoint(j, o, lag)
          \/ Complete(j, o, lag)
          \/ Fail(j, o, lag)
          \/ \E K \in (SUBSET Keys) \ {{}} : BeginDelivery(j, K, o, lag)
          \/ \E k \in Keys, outcome \in DeliveryOutcome :
                FinalizeDelivery(j, k, outcome, o, lag)
          \/ \E s \in Jobs : SupersedeFailed(j, s, o, lag)

Next ==
    \/ \E j \in Jobs : AcceptUpdate(j)
    \/ \E o \in Owners, lag \in Lags : OwnerStep(o, lag)
    \/ \E o \in Owners : ReleaseWorker(o)
    \/ \E S \in SUBSET Jobs : RequeueFailed(S)
    \/ \E S \in SUBSET Jobs : PurgeExpired(S)
    \/ Tick
    \/ \E j \in Jobs : RetentionEnds(j)

Spec == Init /\ [][Next]_storeVars

-----------------------------------------------------------------------------
(* Safety. *)

Runnable == {"accepted", "running", "checkpointed"}

(* An update whose handler can still run, now or after a restart, has its     *)
(* full payload: purge_expired_payloads never strips a job that a claim or    *)
(* the startup requeue can bring back (job_store.py, _purge_expired_payloads).*)
PayloadOutlivesWork ==
    \A j \in Jobs :
        jobs[j].state \in Runnable \/ j \in Requeueable => jobs[j].payload # "purged"

(* A job given up for a later one has sent nothing, and never will: each of   *)
(* its receipts stays absent or 'failed', so the successor repeats no send.   *)
SupersededNeverSent ==
    \A j \in Jobs :
        jobs[j].supersededBy # NoJob =>
            jobs[j].state = "completed" /\ \A k \in Keys : ~Sent(rows[j][k])

(* The superseded_by links form no cycle, so supersede_failed_job's walk      *)
(* reaches an end and its `visited` test never refuses a retry.               *)
SupersedeAcyclic ==
    \A S \in SUBSET Jobs : S # {} => \E j \in S : jobs[j].supersededBy \notin S

(* A receipt recorded as success or uncertain is never altered again,         *)
(* whatever owner, crash or late commit comes after it.                       *)
KeepsSettled ==
    \A j \in Jobs, k \in Keys : Settled(rows[j][k]) => rows'[j][k] = rows[j][k]

ReceiptsAreFinal == [][KeepsSettled]_storeVars

(* A receipt is written only by the owner that holds both the worker lease    *)
(* and the job's claim; a replaced worker's late calls leave no trace.        *)
FencedReceipt ==
    \A j \in Jobs, k \in Keys :
        rows'[j][k] # rows[j][k] =>
            /\ jobs[j].state = "running"
            /\ jobs[j].owner = lease.owner
            /\ rows'[j][k].owner \in {lease.owner, NoOne}

ReceiptsAreFenced == [][FencedReceipt]_storeVars

(* A whole-job receipt ends the job's recovery: once '__job__' is success or  *)
(* uncertain, and though its owner may have crashed before recording more,    *)
(* no owner claims the job again.                                             *)
StaysRetired ==
    \A j \in Jobs, k \in Keys :
        k = JobKey /\ Sent(rows[j][k]) => jobs'[j].owner \in {jobs[j].owner, NoOne}

WholeJobReceiptRetires == [][StaysRetired]_storeVars

(* A running job leaves its owner in two ways only: the owner, holding the    *)
(* worker lease, lets it go; or its claim has really run out (against the     *)
(* true clock, not a caller's old `now`) and the new lease holder takes it.   *)
FencedClaim ==
    \A j \in Jobs :
        jobs[j].state = "running" /\ jobs'[j].owner # jobs[j].owner =>
            \/ jobs'[j].owner = NoOne /\ lease.owner = jobs[j].owner
            \/ jobs[j].claim <= 0 /\ lease'.owner = jobs'[j].owner

ClaimsAreFenced == [][FencedClaim]_storeVars

(* The lease passes from one worker to another only after it really expired   *)
(* or its holder deleted it, however old the taker's `now`.                   *)
FairHandover ==
    lease'.owner # lease.owner =>
        lease.owner = NoOne \/ lease'.owner = NoOne \/ lease.ttl <= 0

LeaseHandover == [][FairHandover]_storeVars

(* A finished job stays finished: completed is final, and failed is left only *)
(* for another attempt at items known to be unsent, or for a successor.       *)
StaysFinished ==
    \A j \in Jobs :
        /\ jobs[j].state = "completed" => jobs'[j].state = "completed"
        /\ jobs[j].state = "failed" /\ jobs'[j].state # "failed" =>
              \/ jobs'[j].state = "checkpointed" /\ HasFailedDeliveries(j)
              \/ jobs'[j].supersededBy # NoJob

FinishedStaysFinished == [][StaysFinished]_storeVars

=============================================================================
