---------------------------- MODULE DurableInbox ----------------------------
(***************************************************************************)
(* Worker processes around the shared job store: the webhook that feeds it *)
(* (app/api/routes.py), DurableUpdateWorker and DrainController            *)
(* (app/core/drain.py), and the handler's media delivery                   *)
(* (app/services/media/delivery.py) under its durable job context.         *)
(*                                                                         *)
(* A member of Owners is one process: it starts once, under a fresh owner  *)
(* id, and ends by a drained stop or by a crash.  Old and new processes    *)
(* overlap.  A process that stalls past its lease is replaced while it     *)
(* still runs, and does not know.                                          *)
(*                                                                         *)
(* A store call runs in a thread that a cancelled caller cannot stop, so   *)
(* a cancelled call stays in `late` and commits at any later time.         *)
(*                                                                         *)
(* Payload maintenance is left to JobStore's PurgeExpired: it touches no   *)
(* state of a process.                                                     *)
(***************************************************************************)
EXTENDS Integers, Sequences, FiniteSets

CONSTANTS Jobs, Owners, Keys, JobKey, NoOne, NoJob, Lease, MaxLag,
    MaxPasses,  \* bound: deliver calls of one handler (first try and retries)
    MaxFaults,  \* bound: stalls past the lease and failed store calls
    MaxLate     \* bound: cancelled calls whose thread has not yet committed

ASSUME InboxAssumption ==
    /\ NoOne \notin Owners
    /\ NoJob \notin Jobs
    /\ Lease \in Nat \ {0}
    /\ MaxLag \in Nat
    /\ MaxPasses \in Nat \ {0}
    /\ MaxFaults \in Nat
    /\ MaxLate \in Nat

VARIABLES
    jobs, inbox, rows, lease,   \* the store
    proc,      \* the processes' volatile state
    post,      \* Telegram's view of each webhook call
    accepted,  \* how often Telegram accepted each item of each job
    late,      \* cancelled store calls still to commit
    faults     \* stalls and store errors so far

Store == INSTANCE JobStore
    WITH Jobs <- Jobs, Owners <- Owners, Keys <- Keys, JobKey <- JobKey,
         NoOne <- NoOne, NoJob <- NoJob, Lease <- Lease, MaxLag <- MaxLag,
         jobs <- jobs, inbox <- inbox, rows <- rows, lease <- lease

vars == <<jobs, inbox, rows, lease, proc, post, accepted, late, faults>>
storeVars == <<jobs, inbox, rows, lease>>
outside == <<post, accepted, late, faults>>

Lags == 0 .. MaxLag

Unread == [k \in Keys |-> "none"]

Idle == [phase |-> "new", drain |-> "no", job |-> NoJob, beat |-> "off",
         cancel |-> FALSE, handler |-> "idle", unread |-> {}, todo |-> {},
         unit |-> {}, verdict |-> Unread, failed |-> {}, passes |-> 0]

Process ==
    [phase : {"new", "acquired", "polling", "idle", "claimed", "working",
              "losing", "restarting", "stopped", "dead"},
     drain : {"no", "draining", "stop"},
     job : Jobs \cup {NoJob},
     beat : {"off", "beating", "lost"},
     cancel : BOOLEAN,
     handler : {"idle", "reading", "ready", "sending", "recording",
                "returned", "raised", "cancelled", "failing", "completing"},
     unread : SUBSET Keys,
     todo : SUBSET Keys,
     unit : SUBSET Keys,
     verdict : [Keys -> {"none", "success", "failed", "uncertain"}],
     failed : SUBSET Keys,
     passes : 0 .. MaxPasses]

LateCall == [op : {"begin", "finalize", "checkpoint"}, owner : Owners, job : Jobs,
             keys : SUBSET Keys, outcome : {"none", "success", "failed", "uncertain"},
             lag : Lags]

(* Every variable keeps its type.                                             *)
TypeOK ==
    /\ Store!TypeOK
    /\ proc \in [Owners -> Process]
    /\ post \in [Jobs -> {"waiting", "stored", "acked"}]
    /\ accepted \in [Jobs -> [Keys -> 0 .. 2]]
    /\ late \subseteq LateCall /\ Cardinality(late) <= MaxLate
    /\ faults \in 0 .. MaxFaults

Init ==
    /\ Store!Init
    /\ proc = [w \in Owners |-> Idle]
    /\ post = [j \in Jobs |-> "waiting"]
    /\ accepted = [j \in Jobs |-> [k \in Keys |-> 0]]
    /\ late = {}
    /\ faults = 0

Up(w) == proc[w].phase \notin {"new", "stopped", "dead"}
Active(w) == proc[w].handler \in {"reading", "ready", "sending", "recording"}
Fault == faults < MaxFaults /\ faults' = faults + 1

-----------------------------------------------------------------------------
(* The webhook: 200 only after the insert committed; a lost answer makes    *)
(* Telegram post the update again.                                          *)

WebhookStore(j) ==
    /\ post[j] = "waiting"
    /\ \E w \in Owners : Up(w)
    /\ \/ Store!AcceptUpdate(j)
       \/ jobs[j].state # "absent" /\ UNCHANGED storeVars
    /\ post' = [post EXCEPT ![j] = "stored"]
    /\ UNCHANGED <<proc, accepted, late, faults>>

WebhookAnswer(j) ==
    /\ post[j] = "stored"
    /\ post' = [post EXCEPT ![j] = "acked"]
    /\ UNCHANGED <<storeVars, proc, accepted, late, faults>>

-----------------------------------------------------------------------------
(* Worker start, poll loop and supervision. *)

\* A process whose acquire is refused exits and is started again.
Start(w, lag) ==
    /\ proc[w].phase = "new"
    /\ Store!AcquireWorker(w, lag)
    /\ proc' = [proc EXCEPT ![w].phase = "acquired"]
    /\ UNCHANGED outside

RequeueStartupFailures(w) ==
    /\ proc[w].phase = "acquired" /\ proc[w].drain # "stop"
    /\ \/ Store!RequeueFailed(Store!Requeueable)
       \/ Store!Requeueable = {} /\ UNCHANGED storeVars
    /\ proc' = [proc EXCEPT ![w].phase = "polling"]
    /\ UNCHANGED outside

Claim(w, lag) ==
    /\ proc[w].phase = "polling" /\ proc[w].drain = "no"
    /\ \E j \in Jobs :
          /\ Store!ClaimNext(w, j, lag)
          /\ proc' = [proc EXCEPT ![w].phase = "claimed", ![w].job = j]
    /\ UNCHANGED outside

ClaimNothing(w, lag) ==
    /\ proc[w].phase = "polling" /\ proc[w].drain = "no"
    /\ \/ Store!ClaimNothing(w, lag)
       \/ ~Store!CanAcquire(w, lag) /\ UNCHANGED storeVars
    /\ proc' = [proc EXCEPT ![w].phase = "idle"]
    /\ UNCHANGED outside

RenewIdle(w, lag) ==
    /\ proc[w].phase = "idle"
    /\ \/ /\ Store!RenewWorker(w, lag)
          /\ proc' = [proc EXCEPT ![w].phase = "polling"]
       \/ /\ ~Store!LeaseLive(w, lag)
          /\ UNCHANGED storeVars
          /\ proc' = [proc EXCEPT ![w].phase = "losing"]
    /\ UNCHANGED outside

\* The supervisor gives up the lease after an error and tries to get it back.
\* A failed release is logged; the lease then stays until it expires.
Release(w) ==
    \/ Store!ReleaseWorker(w) /\ UNCHANGED faults
    \/ lease.owner # w /\ UNCHANGED <<storeVars, faults>>
    \/ Fault /\ UNCHANGED storeVars

ReleaseAfterError(w) ==
    /\ proc[w].phase = "losing"
    /\ Release(w)
    /\ proc' = [proc EXCEPT ![w].phase = "restarting"]
    /\ UNCHANGED <<post, accepted, late>>

Reacquire(w, lag) ==
    /\ proc[w].phase = "restarting" /\ proc[w].drain # "stop"
    /\ Store!AcquireWorker(w, lag)
    /\ proc' = [proc EXCEPT ![w].phase = "polling"]
    /\ UNCHANGED outside

-----------------------------------------------------------------------------
(* One job. *)

\* Fault: checkpoint without the owner guard (owner_id not passed).
TryCheckpointOwnerless(w, lag) ==
    /\ jobs' = [jobs EXCEPT ![proc[w].job].state = "checkpointed",
                            ![proc[w].job].owner = NoOne,
                            ![proc[w].job].claim = -MaxLag]
    /\ UNCHANGED <<inbox, rows, lease>>

TryCheckpoint(w, lag) ==
    LET j == proc[w].job IN
    \/ Store!Checkpoint(j, w, lag)
    \/ ~Store!CanLeave(j, w, lag) /\ UNCHANGED storeVars

\* The loop comes back to its poll, or leaves it for the supervisor.
After(w, phase) ==
    proc' = [proc EXCEPT ![w] = [Idle EXCEPT !.phase = phase,
                                             !.drain = proc[w].drain]]

\* A drain or a stop between the claim and the start puts the job back.
StartJob(w, lag) ==
    /\ proc[w].phase = "claimed"
    /\ \/ /\ proc[w].drain = "no"
          /\ proc' = [proc EXCEPT ![w].phase = "working", ![w].beat = "beating",
                                  ![w].handler = "reading", ![w].unread = Keys]
          /\ UNCHANGED storeVars
       \/ /\ proc[w].drain # "no"
          /\ TryCheckpoint(w, lag)
          /\ After(w, "polling")
    /\ UNCHANGED outside

BeatWorker(w, lag) ==
    /\ proc[w].beat = "beating"
    /\ Store!RenewWorker(w, lag)
    /\ UNCHANGED <<proc, outside>>

BeatClaim(w, lag) ==
    /\ proc[w].beat = "beating"
    /\ Store!RenewClaim(proc[w].job, w, lag)
    /\ UNCHANGED <<proc, outside>>

\* A refused or failed renewal ends the heartbeat, and the handler with it.
BeatLost(w, lag) ==
    /\ proc[w].beat = "beating"
    /\ proc[w].handler \notin {"failing", "completing"}
    /\ \/ /\ ~Store!LeaseLive(w, lag) \/ ~Store!OwnsLiveJob(proc[w].job, w, lag)
          /\ UNCHANGED faults
       \/ Fault
    /\ proc' = [proc EXCEPT ![w].beat = "lost", ![w].cancel = TRUE]
    /\ UNCHANGED <<storeVars, post, accepted, late>>

SettleLost(w, lag) ==
    /\ proc[w].handler \in {"returned", "raised", "cancelled"}
    /\ proc[w].beat = "lost"
    /\ TryCheckpoint(w, lag)
    /\ After(w, "losing")
    /\ UNCHANGED outside

\* Fault: a handler that swallows its cancellation counts as finished.
StoppedOnlyIfCancelled(w) == proc[w].handler = "cancelled"

Stopped(w) ==
    \/ proc[w].handler = "cancelled"
    \/ proc[w].handler = "returned" /\ proc[w].drain # "no" /\ proc[w].cancel

\* Checkpointed by the drain, or by the worker once the drain has ended; the
\* drain leaves a checkpoint behind when its cleanup time is over.
SettleStopped(w, lag) ==
    /\ proc[w].beat = "beating" /\ Stopped(w)
    /\ \/ TryCheckpoint(w, lag) /\ UNCHANGED late
       \/ /\ proc[w].drain # "no" /\ Cardinality(late) < MaxLate
          /\ late' = late \cup {[op |-> "checkpoint", owner |-> w, job |-> proc[w].job,
                                 keys |-> {}, outcome |-> "none", lag |-> lag]}
          /\ UNCHANGED storeVars
    /\ After(w, "polling")
    /\ UNCHANGED <<post, accepted, faults>>

\* The result of this fail call is not looked at.
SettleRaised(w, lag) ==
    /\ proc[w].beat = "beating" /\ proc[w].handler = "raised"
    /\ \/ Store!Fail(proc[w].job, w, lag)
       \/ ~Store!CanLeave(proc[w].job, w, lag) /\ UNCHANGED storeVars
    /\ After(w, "polling")
    /\ UNCHANGED outside

\* Fault: complete without asking for failed deliveries.
ReadFailuresSkipped(w) ==
    /\ proc[w].beat = "beating" /\ proc[w].handler = "returned" /\ ~Stopped(w)
    /\ proc' = [proc EXCEPT ![w].handler = "completing"]
    /\ UNCHANGED <<storeVars, outside>>

ReadFailures(w) ==
    /\ proc[w].beat = "beating" /\ proc[w].handler = "returned" /\ ~Stopped(w)
    /\ proc' = [proc EXCEPT ![w].handler =
                  IF Store!HasFailedDeliveries(proc[w].job) THEN "failing"
                                                            ELSE "completing"]
    /\ UNCHANGED <<storeVars, outside>>

\* An error of that read counts as an error of the handler.
ReadFailuresError(w) ==
    /\ proc[w].beat = "beating" /\ proc[w].handler = "returned" /\ ~Stopped(w)
    /\ Fault
    /\ proc' = [proc EXCEPT ![w].handler = "raised"]
    /\ UNCHANGED <<storeVars, post, accepted, late>>

SettleReturned(w, lag) ==
    LET j == proc[w].job IN
    /\ proc[w].handler \in {"failing", "completing"}
    /\ \/ /\ \/ proc[w].handler = "failing" /\ Store!Fail(j, w, lag)
             \/ proc[w].handler = "completing" /\ Store!Complete(j, w, lag)
          /\ After(w, "polling")
       \/ /\ ~Store!CanLeave(j, w, lag)
          /\ UNCHANGED storeVars
          /\ After(w, "losing")
    /\ UNCHANGED outside

\* A store call of the loop itself raises: the supervisor starts over.
StoreError(w) ==
    /\ \/ proc[w].phase \in {"polling", "idle"}
       \/ proc[w].phase = "claimed" /\ proc[w].drain # "no"
       \/ proc[w].handler \in {"raised", "cancelled", "failing", "completing"}
       \/ proc[w].handler = "returned" /\ (proc[w].beat = "lost" \/ Stopped(w))
    /\ Fault
    /\ After(w, "losing")
    /\ UNCHANGED <<storeVars, post, accepted, late>>

-----------------------------------------------------------------------------
(* The handler: deliver reads every item's earlier outcome, then reserves,  *)
(* sends and records unit after unit (one item, or an album).               *)

\* Fault: only a confirmed send is skipped, an uncertain one is repeated.
ReadPriorSuccessOnly(w, k) ==
    /\ proc[w].handler = "reading" /\ k \in proc[w].unread
    /\ LET left == proc[w].unread \ {k}
           sent == rows[proc[w].job][k].outcome = "success"
       IN  proc' = [proc EXCEPT ![w].unread = left,
                                ![w].todo = IF sent THEN @ ELSE @ \cup {k},
                                ![w].handler = IF left = {} THEN "ready" ELSE @]
    /\ UNCHANGED <<storeVars, outside>>

ReadPrior(w, k) ==
    /\ proc[w].handler = "reading" /\ k \in proc[w].unread
    /\ LET left == proc[w].unread \ {k}
           sent == Store!Sent(rows[proc[w].job][k])
       IN  proc' = [proc EXCEPT ![w].unread = left,
                                ![w].todo = IF sent THEN @ ELSE @ \cup {k},
                                ![w].handler = IF left = {} THEN "ready" ELSE @]
    /\ UNCHANGED <<storeVars, outside>>

Reserve(w, U, lag) ==
    /\ proc[w].handler = "ready" /\ U \subseteq proc[w].todo /\ U # {}
    /\ \/ /\ Store!BeginDelivery(proc[w].job, U, w, lag)
          /\ proc' = [proc EXCEPT ![w].handler = "sending", ![w].unit = U,
                                  ![w].todo = @ \ U]
       \/ /\ ~Store!CanBegin(proc[w].job, U, w, lag)
          /\ UNCHANGED storeVars
          /\ proc' = [proc EXCEPT ![w].handler = "raised"]
    /\ UNCHANGED outside

Accept(j, S) ==
    accepted' = [accepted EXCEPT ![j] =
        [k \in Keys |-> IF k \in S /\ accepted[j][k] < 2 THEN accepted[j][k] + 1
                                                         ELSE accepted[j][k]]]

\* Fault: a network error during the send counts as a failure.
VerdictsNetworkFailed(U, S) ==
    {[k \in Keys |-> IF k \in confirmed THEN "success"
                     ELSE IF k \in U THEN "failed" ELSE "none"] :
        confirmed \in SUBSET S}

\* Which verdict the exceptions and the answer of a send give each item, when
\* Telegram accepted S of the unit U and its answer confirms part of S.  A
\* RetryAfter, BadRequest or local error means that nothing was accepted.
Verdicts(U, S) ==
    {[k \in Keys |-> IF k \in confirmed THEN "success"
                     ELSE IF k \in U THEN "uncertain" ELSE "none"] :
        confirmed \in SUBSET S}
    \cup IF S = {} THEN {[k \in Keys |-> IF k \in U THEN "failed" ELSE "none"]} ELSE {}

Send(w) ==
    /\ proc[w].handler = "sending"
    /\ \E S \in SUBSET proc[w].unit : \E verdict \in Verdicts(proc[w].unit, S) :
          /\ Accept(proc[w].job, S)
          /\ proc' = [proc EXCEPT ![w].handler = "recording", ![w].verdict = verdict]
    /\ UNCHANGED <<storeVars, post, late, faults>>

Record(w, k, lag) ==
    LET j == proc[w].job  left == proc[w].unit \ {k} IN
    /\ proc[w].handler = "recording" /\ k \in proc[w].unit
    /\ \/ /\ Store!FinalizeDelivery(j, k, proc[w].verdict[k], w, lag)
          /\ proc' = [proc EXCEPT ![w].unit = left,
                                  ![w].verdict = [@ EXCEPT ![k] = "none"],
                                  ![w].failed = IF proc[w].verdict[k] = "failed"
                                                  THEN @ \cup {k} ELSE @,
                                  ![w].handler = IF left = {} THEN "ready" ELSE @]
       \/ /\ ~Store!CanFinalize(j, k, w, lag)
          /\ UNCHANGED storeVars
          /\ proc' = [proc EXCEPT ![w].handler = "raised"]
    /\ UNCHANGED outside

\* retry_failed: deliver once more the items whose receipt says failed.
Redeliver(w) ==
    /\ proc[w].handler = "ready" /\ proc[w].todo = {}
    /\ proc[w].failed # {} /\ proc[w].passes < MaxPasses - 1
    /\ proc' = [proc EXCEPT ![w].handler = "reading", ![w].unread = proc[w].failed,
                            ![w].failed = {}, ![w].passes = @ + 1]
    /\ UNCHANGED <<storeVars, outside>>

HandlerReturns(w) ==
    /\ proc[w].handler = "ready" /\ proc[w].todo = {}
    /\ proc' = [proc EXCEPT ![w].handler = "returned", ![w].failed = {}]
    /\ UNCHANGED <<storeVars, outside>>

\* Nothing, or nothing more, could be produced; the error reaches the worker.
HandlerRaises(w) ==
    /\ proc[w].handler \in {"reading", "ready"}
    /\ proc' = [proc EXCEPT ![w].handler = "raised"]
    /\ UNCHANGED <<storeVars, outside>>

\* Cancellation lands in whatever the handler awaits, and may be swallowed or
\* turned into another error there.  A store call it abandons may still
\* commit, a send it abandons may still be accepted.
Abandoned(w, lag) ==
    LET call(op, K, outcome) ==
          [op |-> op, owner |-> w, job |-> proc[w].job,
           keys |-> K, outcome |-> outcome, lag |-> lag]
    IN  CASE proc[w].handler = "ready" ->
               {call("begin", U, "none") : U \in (SUBSET proc[w].todo) \ {{}}}
          [] proc[w].handler = "recording" ->
               {call("finalize", {k}, proc[w].verdict[k]) : k \in proc[w].unit}
          [] OTHER -> {}

HandlerCancelled(w, lag) ==
    /\ Active(w) /\ proc[w].cancel
    /\ \E end \in {"cancelled", "returned", "raised"} :
          proc' = [proc EXCEPT ![w].handler = end]
    /\ \/ UNCHANGED late
       \/ /\ Cardinality(late) < MaxLate
          /\ \E c \in Abandoned(w, lag) : late' = late \cup {c}
    /\ \/ UNCHANGED accepted
       \/ /\ proc[w].handler = "sending"
          /\ \E S \in (SUBSET proc[w].unit) \ {{}} : Accept(proc[w].job, S)
    /\ UNCHANGED <<storeVars, post, faults>>

LateCommit(c) ==
    /\ late' = late \ {c}
    /\ \/ c.op = "begin" /\ Store!BeginDelivery(c.job, c.keys, c.owner, c.lag)
       \/ /\ c.op = "finalize"
          /\ \E k \in c.keys :
                Store!FinalizeDelivery(c.job, k, c.outcome, c.owner, c.lag)
       \/ c.op = "checkpoint" /\ Store!Checkpoint(c.job, c.owner, c.lag)
       \/ /\ CASE c.op = "begin" -> ~Store!CanBegin(c.job, c.keys, c.owner, c.lag)
               [] c.op = "finalize" ->
                    \A k \in c.keys : ~Store!CanFinalize(c.job, k, c.owner, c.lag)
               [] OTHER -> ~Store!CanLeave(c.job, c.owner, c.lag)
          /\ UNCHANGED storeVars
    /\ UNCHANGED <<proc, post, accepted, faults>>

-----------------------------------------------------------------------------
(* Deployment, crashes and time.  A process is only taken down when another *)
(* one can still be started.                                                *)

Replaceable(w) == Up(w) /\ \E v \in Owners : proc[v].phase = "new"

Drain(w) ==
    /\ Replaceable(w) /\ proc[w].drain = "no"
    /\ proc' = [proc EXCEPT ![w].drain = "draining"]
    /\ UNCHANGED <<storeVars, outside>>

\* The work grace is over.
DrainCancel(w) ==
    /\ proc[w].drain # "no" /\ Active(w) /\ ~proc[w].cancel
    /\ proc' = [proc EXCEPT ![w].cancel = TRUE]
    /\ UNCHANGED <<storeVars, outside>>

Stop(w) ==
    /\ Up(w) /\ proc[w].drain = "draining"
    /\ proc' = [proc EXCEPT ![w].drain = "stop"]
    /\ UNCHANGED <<storeVars, outside>>

\* The lease is released after every task of the process has been joined.
Exit(w) ==
    /\ proc[w].drain = "stop"
    /\ proc[w].phase \in {"acquired", "polling", "restarting"}
    /\ Release(w)
    /\ proc' = [proc EXCEPT ![w] = [Idle EXCEPT !.phase = "stopped"]]
    /\ UNCHANGED <<post, accepted, late>>

Crash(w) ==
    /\ Replaceable(w)
    /\ proc' = [proc EXCEPT ![w] = [Idle EXCEPT !.phase = "dead"]]
    /\ late' = {c \in late : c.owner # w}
    /\ \E lost \in SUBSET {j \in Jobs : post[j] = "stored"} :
          post' = [j \in Jobs |-> IF j \in lost THEN "waiting" ELSE post[j]]
    /\ UNCHANGED <<storeVars, accepted, faults>>

\* A worker renews its lease while it polls or works, not while it idles in a
\* drain, and its claim while the handler runs.  To let one lapse is a fault.
Renewing(w) ==
    \/ proc[w].beat = "beating"
    \/ proc[w].drain = "no" /\ proc[w].phase \in {"acquired", "polling", "idle", "claimed"}

Stalls(w) ==
    /\ Renewing(w)
    /\ \/ lease.owner = w /\ lease.ttl = 1
       \/ \E j \in Jobs : proc[w].job = j /\ jobs[j].owner = w /\ jobs[j].claim = 1

Tick ==
    /\ Store!Tick
    /\ IF \E w \in Owners : Stalls(w) THEN Fault ELSE UNCHANGED faults
    /\ late' = {[c EXCEPT !.lag = IF @ < MaxLag THEN @ + 1 ELSE @] : c \in late}
    /\ UNCHANGED <<proc, post, accepted>>

-----------------------------------------------------------------------------

Supervisor(w) ==
    \/ RequeueStartupFailures(w)
    \/ ReleaseAfterError(w)
    \/ ReadFailures(w)
    \/ \E lag \in Lags :
          \/ Start(w, lag)
          \/ Claim(w, lag)
          \/ ClaimNothing(w, lag)
          \/ RenewIdle(w, lag)
          \/ Reacquire(w, lag)
          \/ StartJob(w, lag)
          \/ SettleLost(w, lag)
          \/ SettleStopped(w, lag)
          \/ SettleRaised(w, lag)
          \/ SettleReturned(w, lag)

Handler(w) ==
    \/ \E k \in Keys : ReadPrior(w, k)
    \/ Send(w)
    \/ Redeliver(w)
    \/ HandlerReturns(w)
    \/ HandlerRaises(w)
    \/ \E lag \in Lags :
          \/ \E U \in SUBSET Keys : Reserve(w, U, lag)
          \/ \E k \in Keys : Record(w, k, lag)
          \/ HandlerCancelled(w, lag)

Heartbeat(w) ==
    \E lag \in Lags : BeatWorker(w, lag) \/ BeatClaim(w, lag) \/ BeatLost(w, lag)

Shutdown(w) == DrainCancel(w) \/ Stop(w) \/ Exit(w)

Webhook(j) == WebhookStore(j) \/ WebhookAnswer(j)

Next ==
    \/ \E j \in Jobs : Webhook(j)
    \/ \E w \in Owners :
          \/ Supervisor(w)
          \/ Handler(w)
          \/ Heartbeat(w)
          \/ Shutdown(w)
          \/ StoreError(w)
          \/ ReadFailuresError(w)
          \/ Drain(w)
          \/ Crash(w)
    \/ \E c \in late : LateCommit(c)
    \/ Tick

Spec == Init /\ [][Next]_vars

(* The event loop runs every ready task, Telegram repeats an unanswered post,*)
(* the orchestrator starts a new process, and time passes.                   *)
Fairness ==
    /\ WF_vars(Tick)
    /\ \A j \in Jobs : WF_vars(Webhook(j))
    /\ \A w \in Owners : /\ WF_vars(Supervisor(w))
                         /\ WF_vars(Handler(w))
                         /\ WF_vars(Shutdown(w))
                         /\ WF_vars(\E lag \in Lags : BeatWorker(w, lag))
                         /\ WF_vars(\E lag \in Lags : BeatClaim(w, lag))

FairSpec == Spec /\ Fairness

-----------------------------------------------------------------------------
(* What the inbox promises. *)

(* Telegram accepts each item of an update at most once, over crashes,        *)
(* restarts, retries, overlapping workers and late commits: the reservation   *)
(* written before each send (delivery.py, deliver) outlives every one of them.*)
AtMostOnce == \A j \in Jobs, k \in Keys : accepted[j][k] <= 1

(* Both receipts tell the truth.  An update that Telegram was told is received *)
(* is in the inbox.  A stored delivery row neither misses nor calls failed    *)
(* what Telegram accepted, and calls nothing a success that it did not.       *)
ReceiptsAreTrue ==
    /\ TypeOK
    /\ \A j \in Jobs : post[j] = "acked" => jobs[j].state # "absent"
    /\ \A j \in Jobs, k \in Keys :
          /\ accepted[j][k] > 0 => Store!Sent(rows[j][k])
          /\ rows[j][k].outcome = "success" => accepted[j][k] > 0

(* A job is completed only when every item was tried: whatever interrupted    *)
(* earlier attempts, none is skipped by the attempt that completes the job.   *)
CompletedMeansTried ==
    \A j \in Jobs :
        jobs[j].state = "completed" => \A k \in Keys : rows[j][k].outcome # "none"

(* An item known to have failed keeps its job out of 'completed', where the   *)
(* startup requeue (which looks at failed jobs only) would never find it.     *)
KnownFailuresAreKept ==
    \A j \in Jobs :
        jobs[j].state = "completed" => ~Store!HasFailedDeliveries(j)

(* The workers, their threads and the webhook use the store only through its  *)
(* transactions, each with arguments the store's specification allows.        *)
UsesStore == Store!Spec

(* Every acknowledged update is eventually completed or failed, if stalls and *)
(* crashes stop and some process stays up.                                    *)
AckedIsFinished ==
    \A j \in Jobs :
        post[j] = "acked" ~> jobs[j].state \in {"completed", "failed"}

=============================================================================
