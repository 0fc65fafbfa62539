-------------------------- MODULE DurableInboxProofs --------------------------
(***************************************************************************)
(* Theorems about the workers of DurableInbox around the shared job store, *)
(* for any number of jobs, items, processes, faults and late calls.        *)
(*                                                                         *)
(* The argument.  A step of DurableInbox is a transaction of the store or  *)
(* leaves it alone (StoreStep), so all that JobStoreProofs proves of the   *)
(* store's most general client holds here.  Each item of each job then has *)
(* at most one open attempt: a handler between its reservation and its     *)
(* receipt, or a late receipt.  While there is one, the item's row stays   *)
(* reserved, and whoever may still reserve the item (the live owner of the *)
(* job, with the item on its list) finds that there is none and that       *)
(* Telegram has accepted nothing (OneAttempt).                             *)
(***************************************************************************)
EXTENDS DurableInbox, FiniteSetTheorems, TLAPS

StoreProofs == INSTANCE JobStoreProofs

-----------------------------------------------------------------------------
(* The inductive invariant. *)

\* What the places of the worker loop and of the handler say of the rest.
ProcessShape(p) ==
    /\ p.handler # "idle" => p.phase = "working"
    /\ p.phase = "working" => p.handler # "idle"
    /\ p.beat # "off" => p.phase = "working"
    /\ p.phase \in {"claimed", "working"} => p.job \in Jobs
    /\ p.handler = "idle" => p.todo = {}
    /\ p.handler = "ready" => p.unread = {}
    /\ p.handler \in {"sending", "recording"} => p.unread = {} /\ p.todo \cap p.unit = {}
    /\ p.handler = "recording" => \A k \in p.unit : p.verdict[k] # "none"
    /\ p.cancel => p.beat = "lost" \/ p.drain # "no"
    /\ p.handler = "completing" => ~p.cancel

\* A late reservation names an item, a late receipt one item and its outcome.
LateShape(c) ==
    /\ c.op = "begin" => c.keys # {}
    /\ c.op = "finalize" => c.outcome # "none" /\ \E k \in Keys : c.keys = {k}

TypeInv ==
    /\ TypeOK
    /\ IsFiniteSet(late)
    /\ \A w \in Owners : ProcessShape(proc[w])
    /\ \A c \in late : LateShape(c)

\* The row that a reservation writes, whoever made it.
Reserved(row) == row.outcome = "uncertain" /\ ~row.finalized

Owning(w, j) == jobs[j].state = "running" /\ jobs[j].owner = w

\* What an outcome may claim of an item that Telegram accepted n times.
Truthful(outcome, n) ==
    /\ outcome = "success" => n > 0
    /\ outcome = "failed" => n = 0

\* An open attempt is a handler between reservation and receipt, or a receipt
\* still to commit.
InFlight(w, j, k) ==
    /\ proc[w].handler \in {"sending", "recording"}
    /\ proc[w].job = j
    /\ k \in proc[w].unit

Unrecorded(c, j, k) == c.op = "finalize" /\ c.job = j /\ k \in c.keys

\* The handler of the job's live owner has the item on its list.
Pending(w, j, k) ==
    Active(w) /\ proc[w].job = j /\ k \in proc[w].todo /\ Owning(w, j)

NoAttempt(j, k) ==
    /\ \A w \in Owners : ~InFlight(w, j, k)
    /\ \A c \in late : ~Unrecorded(c, j, k)

OneAttempt(j, k) ==
    /\ \A w \in Owners : InFlight(w, j, k) =>
          /\ Reserved(rows[j][k])
          /\ \A v \in Owners : InFlight(v, j, k) => v = w
          /\ \A c \in late : ~Unrecorded(c, j, k)
          /\ proc[w].handler = "sending" => accepted[j][k] = 0
          /\ proc[w].handler = "recording" => Truthful(proc[w].verdict[k], accepted[j][k])
    /\ \A c \in late : Unrecorded(c, j, k) =>
          /\ Reserved(rows[j][k])
          /\ \A d \in late : Unrecorded(d, j, k) => d = c
          /\ Truthful(c.outcome, accepted[j][k])
    /\ \A w \in Owners : Pending(w, j, k) => accepted[j][k] = 0 /\ NoAttempt(j, k)

TrueReceipt(j, k) ==
    /\ accepted[j][k] <= 1
    /\ accepted[j][k] > 0 => Store!Sent(rows[j][k])
    /\ rows[j][k].outcome = "success" => accepted[j][k] > 0

AttemptInv == \A j \in Jobs, k \in Keys : OneAttempt(j, k) /\ TrueReceipt(j, k)

-----------------------------------------------------------------------------
(* Every step is a transaction of the store, or leaves it alone. *)

(* The calls of a worker that name no job.                                   *)
LEMMA LeaseCalls ==
  ASSUME NEW w \in Owners, NEW lag \in Lags,
         \/ Store!AcquireWorker(w, lag)
         \/ Store!RenewWorker(w, lag)
         \/ Store!ClaimNothing(w, lag)
  PROVE  Store!Next
  BY DEF Store!Next, Store!OwnerStep, Lags, Store!Lags

(* The calls of a worker about a job.                                        *)
LEMMA JobCalls ==
  ASSUME NEW w \in Owners, NEW lag \in Lags, NEW j \in Jobs,
         \/ Store!ClaimNext(w, j, lag)
         \/ Store!RenewClaim(j, w, lag)
         \/ Store!Checkpoint(j, w, lag)
         \/ Store!Complete(j, w, lag)
         \/ Store!Fail(j, w, lag)
  PROVE  Store!Next
  BY DEF Store!Next, Store!OwnerStep, Lags, Store!Lags

(* The reservation of a unit, made by a handler or by its late thread.       *)
LEMMA BeginCall ==
  ASSUME NEW w \in Owners, NEW lag \in Lags, NEW j \in Jobs, NEW K \in SUBSET Keys, K # {},
         Store!BeginDelivery(j, K, w, lag)
  PROVE  Store!Next
<1>1. \E U \in (SUBSET Keys) \ {{}} : Store!BeginDelivery(j, U, w, lag)
  OBVIOUS
<1>2. Store!OwnerStep(w, lag)
  BY <1>1 DEF Store!OwnerStep
<1>. QED
  BY <1>2 DEF Store!Next, Lags, Store!Lags

(* The receipt of an item, written by a handler or by its late thread.       *)
LEMMA FinalizeCall ==
  ASSUME NEW w \in Owners, NEW lag \in Lags, NEW j \in Jobs, NEW k \in Keys,
         NEW outcome \in {"success", "failed", "uncertain"},
         Store!FinalizeDelivery(j, k, outcome, w, lag)
  PROVE  Store!Next
  BY DEF Store!Next, Store!OwnerStep, Lags, Store!Lags, Store!DeliveryOutcome

(* The type of one process, and of one late call, out of the type invariant. *)
LEMMA Types ==
  ASSUME TypeInv
  PROVE  /\ Store!TypeOK
         /\ \A w \in Owners : proc[w] \in Process /\ ProcessShape(proc[w])
         /\ \A c \in late : c \in LateCall /\ LateShape(c)
  BY DEF TypeInv, TypeOK

(* Whatever a process, a late thread or the webhook does, it uses the store  *)
(* through one transaction with legal arguments, or not at all.              *)
LEMMA StoreStep == TypeInv /\ [Next]_vars => [Store!Next]_storeVars
<1> SUFFICES ASSUME TypeInv, [Next]_vars PROVE [Store!Next]_storeVars
  OBVIOUS
<1> USE Types
<1>1. ASSUME NEW j \in Jobs, Webhook(j) PROVE [Store!Next]_storeVars
  BY <1>1 DEF Webhook, WebhookStore, WebhookAnswer, Store!Next
<1>2. ASSUME NEW w \in Owners, Release(w) PROVE [Store!Next]_storeVars
  BY <1>2 DEF Release, Store!Next
<1>3. ASSUME NEW w \in Owners, NEW lag \in Lags, proc[w].job \in Jobs, TryCheckpoint(w, lag)
      PROVE  [Store!Next]_storeVars
  BY <1>3, JobCalls DEF TryCheckpoint
<1>4. ASSUME NEW w \in Owners, Supervisor(w) PROVE [Store!Next]_storeVars
  <2>1. CASE RequeueStartupFailures(w)
    <3>1. Store!Requeueable \in SUBSET Jobs
      BY DEF Store!Requeueable
    <3>. QED
      BY <2>1, <3>1, Zenon DEF RequeueStartupFailures, Store!Next
  <2>2. CASE ReleaseAfterError(w)
    BY <2>2, <1>2 DEF ReleaseAfterError
  <2>3. CASE ReadFailures(w)
    BY <2>3 DEF ReadFailures
  <2>4. ASSUME NEW lag \in Lags, Start(w, lag) \/ ClaimNothing(w, lag) \/ RenewIdle(w, lag)
                                 \/ Reacquire(w, lag)
        PROVE  [Store!Next]_storeVars
    BY <2>4, LeaseCalls DEF Start, ClaimNothing, RenewIdle, Reacquire
  <2>5. ASSUME NEW lag \in Lags, Claim(w, lag) PROVE [Store!Next]_storeVars
    BY <2>5, JobCalls DEF Claim
  <2>6. ASSUME NEW lag \in Lags, StartJob(w, lag) PROVE [Store!Next]_storeVars
    BY <2>6, <1>3 DEF StartJob, ProcessShape
  <2>7. ASSUME NEW lag \in Lags, SettleLost(w, lag) \/ SettleStopped(w, lag)
        PROVE  [Store!Next]_storeVars
    BY <2>7, <1>3 DEF SettleLost, SettleStopped, Stopped, ProcessShape
  <2>8. ASSUME NEW lag \in Lags, SettleRaised(w, lag) \/ SettleReturned(w, lag)
        PROVE  [Store!Next]_storeVars
    BY <2>8, JobCalls DEF SettleRaised, SettleReturned, ProcessShape
  <2>. QED
    BY <1>4, <2>1, <2>2, <2>3, <2>4, <2>5, <2>6, <2>7, <2>8 DEF Supervisor
<1>5. ASSUME NEW w \in Owners, Handler(w) PROVE [Store!Next]_storeVars
  <2>1. ASSUME NEW lag \in Lags, NEW U \in SUBSET Keys, Reserve(w, U, lag)
        PROVE  [Store!Next]_storeVars
    BY <2>1, BeginCall DEF Reserve, ProcessShape
  <2>2. ASSUME NEW lag \in Lags, NEW k \in Keys, Record(w, k, lag)
        PROVE  [Store!Next]_storeVars
    <3>1. /\ proc[w].job \in Jobs
          /\ proc[w].verdict[k] \in {"success", "failed", "uncertain"}
      BY <2>2 DEF Record, ProcessShape, Process
    <3>. QED
      BY <2>2, <3>1, FinalizeCall DEF Record
  <2>. QED
    BY <1>5, <2>1, <2>2
    DEF Handler, ReadPrior, Send, Redeliver, HandlerReturns, HandlerRaises, HandlerCancelled
<1>6. ASSUME NEW w \in Owners, Heartbeat(w) PROVE [Store!Next]_storeVars
  <2>1. ASSUME NEW lag \in Lags, BeatWorker(w, lag) \/ BeatClaim(w, lag) \/ BeatLost(w, lag)
        PROVE  [Store!Next]_storeVars
    BY <2>1, LeaseCalls, JobCalls DEF BeatWorker, BeatClaim, BeatLost, ProcessShape
  <2>. QED
    BY <1>6, <2>1 DEF Heartbeat
<1>7. ASSUME NEW w \in Owners, Shutdown(w) PROVE [Store!Next]_storeVars
  BY <1>7, <1>2 DEF Shutdown, DrainCancel, Stop, Exit
<1>8. ASSUME NEW w \in Owners,
             StoreError(w) \/ ReadFailuresError(w) \/ Drain(w) \/ Crash(w)
      PROVE  [Store!Next]_storeVars
  BY <1>8 DEF StoreError, ReadFailuresError, Drain, Crash
<1>9. ASSUME NEW c \in late, LateCommit(c) PROVE [Store!Next]_storeVars
  <2>1. c.owner \in Owners /\ c.job \in Jobs /\ c.lag \in Lags /\ c.keys \in SUBSET Keys
        /\ c.outcome \in {"none", "success", "failed", "uncertain"}
    BY DEF LateCall
  <2>2. CASE c.op = "begin" /\ Store!BeginDelivery(c.job, c.keys, c.owner, c.lag)
    BY <2>1, <2>2, BeginCall DEF LateShape
  <2>3. CASE /\ c.op = "finalize"
             /\ \E k \in c.keys : Store!FinalizeDelivery(c.job, k, c.outcome, c.owner, c.lag)
    BY <2>1, <2>3, FinalizeCall DEF LateShape
  <2>4. CASE c.op = "checkpoint" /\ Store!Checkpoint(c.job, c.owner, c.lag)
    BY <2>1, <2>4, JobCalls
  <2>. QED
    BY <1>9, <2>2, <2>3, <2>4 DEF LateCommit
<1>10. CASE Tick
  BY <1>10 DEF Tick, Store!Next
<1>11. CASE UNCHANGED vars
  BY <1>11 DEF vars, storeVars
<1>. QED
  BY <1>1, <1>4, <1>5, <1>6, <1>7, <1>8, <1>9, <1>10, <1>11 DEF Next

-----------------------------------------------------------------------------
(* Type correctness, with the shape of processes and late calls. *)

GoodProcs == proc \in [Owners -> Process] /\ \A w \in Owners : ProcessShape(proc[w])

(* A process that has not started is a legal one.                            *)
LEMMA IdleType == Idle \in Process
  BY InboxAssumption DEF Idle, Process, Unread

(* A process between two jobs has a legal state in every phase of its loop.  *)
LEMMA IdleProcess ==
  ASSUME NEW phase \in {"new", "acquired", "polling", "idle", "losing", "restarting",
                        "stopped", "dead"},
         NEW drain \in {"no", "draining", "stop"}
  PROVE  /\ [Idle EXCEPT !.phase = phase, !.drain = drain] \in Process
         /\ ProcessShape([Idle EXCEPT !.phase = phase, !.drain = drain])
<1> DEFINE p == [Idle EXCEPT !.phase = phase, !.drain = drain]
<1>1. p \in Process
  BY IdleType DEF Process
<1>2. p.phase = phase /\ p.handler = "idle" /\ p.beat = "off" /\ p.cancel = FALSE
     /\ p.todo = {}
  BY DEF Idle
<1>3. ProcessShape(p)
  BY <1>2 DEF ProcessShape
<1>. QED
  BY <1>1, <1>3

(* So has a process that has ended (Exit, Crash).                            *)
LEMMA EndedProcess ==
  ASSUME NEW phase \in {"stopped", "dead"}
  PROVE  /\ [Idle EXCEPT !.phase = phase] \in Process
         /\ ProcessShape([Idle EXCEPT !.phase = phase])
<1> DEFINE p == [Idle EXCEPT !.phase = phase]
<1>1. p \in Process
  BY IdleType DEF Process
<1>2. p.phase = phase /\ p.handler = "idle" /\ p.beat = "off" /\ p.cancel = FALSE
     /\ p.todo = {}
  BY DEF Idle
<1>3. ProcessShape(p)
  BY <1>2 DEF ProcessShape
<1>. QED
  BY <1>1, <1>3

(* A step that gives one process a legal state leaves all of them legal.     *)
LEMMA OneProcess ==
  ASSUME TypeInv, NEW w \in Owners, NEW p \in Process, ProcessShape(p),
         proc' = [proc EXCEPT ![w] = p]
  PROVE  GoodProcs'
  BY DEF TypeInv, TypeOK, GoodProcs

(* Coming back to the poll or leaving it for the supervisor (After).         *)
LEMMA AfterProcess ==
  ASSUME TypeInv, NEW w \in Owners, NEW phase \in {"polling", "losing"}, After(w, phase)
  PROVE  GoodProcs'
<1>1. proc[w].drain \in {"no", "draining", "stop"}
  BY Types DEF Process
<1>. QED
  BY <1>1, IdleProcess, OneProcess DEF After

(* The processes are a function, so updating a field updates one record.     *)
LEMMA ProcsType == TypeInv => proc \in [Owners -> Process]
  BY DEF TypeInv, TypeOK

(* A send gives each item of its unit a verdict, whatever Telegram accepted. *)
LEMMA VerdictTypes ==
  ASSUME NEW U \in SUBSET Keys, NEW S \in SUBSET U, NEW verdict \in Verdicts(U, S)
  PROVE  /\ verdict \in [Keys -> {"none", "success", "failed", "uncertain"}]
         /\ \A k \in U : verdict[k] # "none"
  BY DEF Verdicts

(* The worker loop, its settling of a job included, keeps processes legal.   *)
LEMMA SupervisorProcs ==
  ASSUME TypeInv, NEW w \in Owners, Supervisor(w)
  PROVE  GoodProcs'
<1>a. proc[w] \in Process
  BY Types
<1>1. ASSUME RequeueStartupFailures(w) PROVE GoodProcs'
  <2> DEFINE p == [proc[w] EXCEPT !.phase = "polling"]
  <2>1. p \in Process
    BY <1>a DEF Process
  <2>2. ProcessShape(p)
    BY <1>1, Types DEF RequeueStartupFailures, Process, ProcessShape
  <2>3. proc' = [proc EXCEPT ![w] = p]
    BY <1>1, Types, ProcsType DEF RequeueStartupFailures
  <2>. QED
    BY <2>1, <2>2, <2>3, OneProcess
<1>2. ASSUME ReleaseAfterError(w) PROVE GoodProcs'
  <2> DEFINE p == [proc[w] EXCEPT !.phase = "restarting"]
  <2>1. p \in Process
    BY <1>a DEF Process
  <2>2. ProcessShape(p)
    BY <1>2, Types DEF ReleaseAfterError, Process, ProcessShape
  <2>3. proc' = [proc EXCEPT ![w] = p]
    BY <1>2, Types, ProcsType DEF ReleaseAfterError
  <2>. QED
    BY <2>1, <2>2, <2>3, OneProcess
<1>3. ASSUME ReadFailures(w) PROVE GoodProcs'
  <2>1. PICK h \in {"failing", "completing"} : proc' = [proc EXCEPT ![w].handler = h]
    BY <1>3 DEF ReadFailures
  <2> DEFINE p == [proc[w] EXCEPT !.handler = h]
  <2>2. p \in Process
    BY <1>a DEF Process
  <2>3. ProcessShape(p)
    BY <1>3, Types DEF ReadFailures, Stopped, Process, ProcessShape
  <2>4. proc' = [proc EXCEPT ![w] = p]
    BY <2>1, ProcsType
  <2>. QED
    BY <2>2, <2>3, <2>4, OneProcess
<1>4. ASSUME NEW lag \in Lags, Start(w, lag) PROVE GoodProcs'
  <2> DEFINE p == [proc[w] EXCEPT !.phase = "acquired"]
  <2>1. p \in Process
    BY <1>a DEF Process
  <2>2. ProcessShape(p)
    BY <1>4, Types DEF Start, Process, ProcessShape
  <2>3. proc' = [proc EXCEPT ![w] = p]
    BY <1>4, Types, ProcsType DEF Start
  <2>. QED
    BY <2>1, <2>2, <2>3, OneProcess
<1>5. ASSUME NEW lag \in Lags, Claim(w, lag) PROVE GoodProcs'
  <2>1. PICK j \in Jobs : proc' = [proc EXCEPT ![w].phase = "claimed", ![w].job = j]
    BY <1>5 DEF Claim
  <2> DEFINE p == [proc[w] EXCEPT !.phase = "claimed", !.job = j]
  <2>2. p \in Process
    BY <1>a DEF Process
  <2>3. ProcessShape(p)
    BY <1>5, Types DEF Claim, Process, ProcessShape
  <2>4. proc' = [proc EXCEPT ![w] = p]
    BY <2>1, ProcsType
  <2>. QED
    BY <2>2, <2>3, <2>4, OneProcess
<1>6. ASSUME NEW lag \in Lags, ClaimNothing(w, lag) PROVE GoodProcs'
  <2> DEFINE p == [proc[w] EXCEPT !.phase = "idle"]
  <2>1. p \in Process
    BY <1>a DEF Process
  <2>2. ProcessShape(p)
    BY <1>6, Types DEF ClaimNothing, Process, ProcessShape
  <2>3. proc' = [proc EXCEPT ![w] = p]
    BY <1>6, Types, ProcsType DEF ClaimNothing
  <2>. QED
    BY <2>1, <2>2, <2>3, OneProcess
<1>7. ASSUME NEW lag \in Lags, RenewIdle(w, lag) PROVE GoodProcs'
  <2>1. PICK phase \in {"polling", "losing"} : proc' = [proc EXCEPT ![w].phase = phase]
    BY <1>7 DEF RenewIdle
  <2> DEFINE p == [proc[w] EXCEPT !.phase = phase]
  <2>2. p \in Process
    BY <1>a DEF Process
  <2>3. ProcessShape(p)
    BY <1>7, Types DEF RenewIdle, Process, ProcessShape
  <2>4. proc' = [proc EXCEPT ![w] = p]
    BY <2>1, ProcsType
  <2>. QED
    BY <2>2, <2>3, <2>4, OneProcess
<1>8. ASSUME NEW lag \in Lags, Reacquire(w, lag) PROVE GoodProcs'
  <2> DEFINE p == [proc[w] EXCEPT !.phase = "polling"]
  <2>1. p \in Process
    BY <1>a DEF Process
  <2>2. ProcessShape(p)
    BY <1>8, Types DEF Reacquire, Process, ProcessShape
  <2>3. proc' = [proc EXCEPT ![w] = p]
    BY <1>8, Types, ProcsType DEF Reacquire
  <2>. QED
    BY <2>1, <2>2, <2>3, OneProcess
<1>9. ASSUME NEW lag \in Lags, StartJob(w, lag) PROVE GoodProcs'
  <2> DEFINE p == [proc[w] EXCEPT !.phase = "working", !.beat = "beating",
                                  !.handler = "reading", !.unread = Keys]
  <2>1. p \in Process
    BY <1>a DEF Process
  <2>2. ProcessShape(p)
    BY <1>9, Types DEF StartJob, Process, ProcessShape
  <2>3. proc' = [proc EXCEPT ![w] = p] \/ After(w, "polling")
    BY <1>9, ProcsType DEF StartJob
  <2>. QED
    BY <2>1, <2>2, <2>3, OneProcess, AfterProcess
<1>10. ASSUME NEW lag \in Lags, \/ SettleLost(w, lag) \/ SettleStopped(w, lag)
                              \/ SettleRaised(w, lag) \/ SettleReturned(w, lag)
     PROVE  GoodProcs'
  BY <1>10, AfterProcess DEF SettleLost, SettleStopped, SettleRaised, SettleReturned
<1>. QED
  BY <1>1, <1>2, <1>3, <1>4, <1>5, <1>6, <1>7, <1>8, <1>9, <1>10 DEF Supervisor

(* The handler keeps processes legal, however it is interrupted.             *)
LEMMA HandlerProcs ==
  ASSUME TypeInv, NEW w \in Owners, Handler(w)
  PROVE  GoodProcs'
<1>a. proc[w] \in Process
  BY Types
<1>1. ASSUME NEW k \in Keys, ReadPrior(w, k) PROVE GoodProcs'
  <2>1. PICK todo \in SUBSET Keys, h \in {"reading", "ready"} :
          /\ proc' = [proc EXCEPT ![w].unread = proc[w].unread \ {k},
                                  ![w].todo = todo, ![w].handler = h]
          /\ h = "ready" => proc[w].unread \ {k} = {}
    <3>1. proc[w].todo \in SUBSET Keys /\ proc[w].todo \cup {k} \in SUBSET Keys
      BY <1>a DEF Process
    <3>. QED
      BY <1>1, <3>1 DEF ReadPrior
  <2> DEFINE p == [proc[w] EXCEPT !.unread = proc[w].unread \ {k}, !.todo = todo,
                                  !.handler = h]
  <2>2. p \in Process
    BY <1>a DEF Process
  <2>3. ProcessShape(p)
    BY <1>1, <2>1, Types DEF ReadPrior, Process, ProcessShape
  <2>4. proc' = [proc EXCEPT ![w] = p]
    BY <2>1, ProcsType
  <2>. QED
    BY <2>2, <2>3, <2>4, OneProcess
<1>2. ASSUME NEW lag \in Lags, NEW U \in SUBSET Keys, Reserve(w, U, lag) PROVE GoodProcs'
  <2> DEFINE p == [proc[w] EXCEPT !.handler = "sending", !.unit = U,
                                  !.todo = proc[w].todo \ U]
             q == [proc[w] EXCEPT !.handler = "raised"]
  <2>1. p \in Process /\ q \in Process
    BY <1>a DEF Process
  <2>2. ProcessShape(p)
    BY <1>2, Types DEF Reserve, Process, ProcessShape
  <2>3. ProcessShape(q)
    BY <1>2, Types DEF Reserve, Process, ProcessShape
  <2>4. proc' = [proc EXCEPT ![w] = p] \/ proc' = [proc EXCEPT ![w] = q]
    BY <1>2, ProcsType DEF Reserve
  <2>. QED
    BY <2>1, <2>2, <2>3, <2>4, OneProcess
<1>3. ASSUME Send(w) PROVE GoodProcs'
  <2>0. PICK S \in SUBSET proc[w].unit : \E verdict \in Verdicts(proc[w].unit, S) :
          proc' = [proc EXCEPT ![w].handler = "recording", ![w].verdict = verdict]
    BY <1>3 DEF Send
  <2>1. PICK verdict \in Verdicts(proc[w].unit, S) :
          proc' = [proc EXCEPT ![w].handler = "recording", ![w].verdict = verdict]
    BY <2>0
  <2> DEFINE p == [proc[w] EXCEPT !.handler = "recording", !.verdict = verdict]
  <2>2. /\ verdict \in [Keys -> {"none", "success", "failed", "uncertain"}]
        /\ \A k \in proc[w].unit : verdict[k] # "none"
    BY <1>a, VerdictTypes DEF Process
  <2>3. p \in Process
    BY <1>a, <2>2 DEF Process
  <2>4. ProcessShape(p)
    BY <1>3, <2>2, Types DEF Send, Process, ProcessShape
  <2>5. proc' = [proc EXCEPT ![w] = p]
    BY <2>1, ProcsType
  <2>. QED
    BY <2>3, <2>4, <2>5, OneProcess
<1>4. ASSUME NEW lag \in Lags, NEW k \in Keys, Record(w, k, lag) PROVE GoodProcs'
  <2> DEFINE left == proc[w].unit \ {k}
             verdict == [proc[w].verdict EXCEPT ![k] = "none"]
             q == [proc[w] EXCEPT !.handler = "raised"]
  <2>1. CASE proc' = [proc EXCEPT ![w].handler = "raised"]
    <3>1. q \in Process /\ ProcessShape(q)
      BY <1>4, Types DEF Record, Process, ProcessShape
    <3>2. proc' = [proc EXCEPT ![w] = q]
      BY <2>1, ProcsType
    <3>. QED
      BY <3>1, <3>2, OneProcess
  <2>2. ASSUME NEW failed \in SUBSET Keys, NEW h \in {"recording", "ready"},
               h = "ready" => left = {},
               proc' = [proc EXCEPT ![w].unit = left, ![w].verdict = verdict,
                                    ![w].failed = failed, ![w].handler = h]
        PROVE  GoodProcs'
    <3> DEFINE p == [proc[w] EXCEPT !.unit = left, !.verdict = verdict,
                                    !.failed = failed, !.handler = h]
    <3>1. verdict \in [Keys -> {"none", "success", "failed", "uncertain"}]
      BY <1>a DEF Process
    <3>2. p \in Process
      BY <1>a, <3>1 DEF Process
    <3>3. \A i \in left : verdict[i] # "none"
      BY <1>4, Types DEF Record, Process, ProcessShape
    <3>4. ProcessShape(p)
      BY <1>4, <2>2, <3>3, Types DEF Record, Process, ProcessShape
    <3>5. proc' = [proc EXCEPT ![w] = p]
      BY <2>2, ProcsType
    <3>. QED
      BY <3>2, <3>4, <3>5, OneProcess
  <2>3. proc[w].failed \in SUBSET Keys /\ proc[w].failed \cup {k} \in SUBSET Keys
    BY <1>a DEF Process
  <2>. QED
    BY <1>4, <2>1, <2>2, <2>3 DEF Record
<1>5. ASSUME Redeliver(w) PROVE GoodProcs'
  <2> DEFINE p == [proc[w] EXCEPT !.handler = "reading", !.unread = proc[w].failed,
                                  !.failed = {}, !.passes = proc[w].passes + 1]
  <2>0. proc[w].passes + 1 \in 0 .. MaxPasses
    BY <1>a, <1>5, InboxAssumption DEF Redeliver, Process
  <2>1. p \in Process
    BY <1>a, <2>0 DEF Process
  <2>2. ProcessShape(p)
    BY <1>5, Types DEF Redeliver, Process, ProcessShape
  <2>3. proc' = [proc EXCEPT ![w] = p]
    BY <1>5, Types, ProcsType DEF Redeliver
  <2>. QED
    BY <2>1, <2>2, <2>3, OneProcess
<1>6. ASSUME HandlerReturns(w) PROVE GoodProcs'
  <2> DEFINE p == [proc[w] EXCEPT !.handler = "returned", !.failed = {}]
  <2>1. p \in Process
    BY <1>a DEF Process
  <2>2. ProcessShape(p)
    BY <1>6, Types DEF HandlerReturns, Process, ProcessShape
  <2>3. proc' = [proc EXCEPT ![w] = p]
    BY <1>6, Types, ProcsType DEF HandlerReturns
  <2>. QED
    BY <2>1, <2>2, <2>3, OneProcess
<1>7. ASSUME HandlerRaises(w) PROVE GoodProcs'
  <2> DEFINE p == [proc[w] EXCEPT !.handler = "raised"]
  <2>1. p \in Process
    BY <1>a DEF Process
  <2>2. ProcessShape(p)
    BY <1>7, Types DEF HandlerRaises, Process, ProcessShape
  <2>3. proc' = [proc EXCEPT ![w] = p]
    BY <1>7, Types, ProcsType DEF HandlerRaises
  <2>. QED
    BY <2>1, <2>2, <2>3, OneProcess
<1>8. ASSUME NEW lag \in Lags, HandlerCancelled(w, lag) PROVE GoodProcs'
  <2>1. PICK end \in {"cancelled", "returned", "raised"} :
          proc' = [proc EXCEPT ![w].handler = end]
    BY <1>8 DEF HandlerCancelled
  <2> DEFINE p == [proc[w] EXCEPT !.handler = end]
  <2>2. p \in Process
    BY <1>a DEF Process
  <2>3. ProcessShape(p)
    BY <1>8, Types DEF HandlerCancelled, Active, Process, ProcessShape
  <2>4. proc' = [proc EXCEPT ![w] = p]
    BY <2>1, ProcsType
  <2>. QED
    BY <2>2, <2>3, <2>4, OneProcess
<1>. QED
  BY <1>1, <1>2, <1>3, <1>4, <1>5, <1>6, <1>7, <1>8 DEF Handler

(* Heartbeats, errors, deployments and crashes keep processes legal.         *)
LEMMA OtherProcs ==
  ASSUME TypeInv, NEW w \in Owners,
         \/ Heartbeat(w) \/ Shutdown(w) \/ StoreError(w)
         \/ ReadFailuresError(w) \/ Drain(w) \/ Crash(w)
  PROVE  GoodProcs'
<1>a. proc[w] \in Process
  BY Types
<1>1. ASSUME NEW lag \in Lags, BeatWorker(w, lag) \/ BeatClaim(w, lag) PROVE GoodProcs'
  BY <1>1, Types, ProcsType DEF BeatWorker, BeatClaim, GoodProcs
<1>2. ASSUME NEW lag \in Lags, BeatLost(w, lag) PROVE GoodProcs'
  <2> DEFINE p == [proc[w] EXCEPT !.beat = "lost", !.cancel = TRUE]
  <2>1. p \in Process
    BY <1>a DEF Process
  <2>2. ProcessShape(p)
    BY <1>2, Types DEF BeatLost, Process, ProcessShape
  <2>3. proc' = [proc EXCEPT ![w] = p]
    BY <1>2, Types, ProcsType DEF BeatLost
  <2>. QED
    BY <2>1, <2>2, <2>3, OneProcess
<1>3. ASSUME DrainCancel(w) PROVE GoodProcs'
  <2> DEFINE p == [proc[w] EXCEPT !.cancel = TRUE]
  <2>1. p \in Process
    BY <1>a DEF Process
  <2>2. ProcessShape(p)
    BY <1>3, Types DEF DrainCancel, Process, ProcessShape, Active
  <2>3. proc' = [proc EXCEPT ![w] = p]
    BY <1>3, Types, ProcsType DEF DrainCancel
  <2>. QED
    BY <2>1, <2>2, <2>3, OneProcess
<1>4. ASSUME Stop(w) PROVE GoodProcs'
  <2> DEFINE p == [proc[w] EXCEPT !.drain = "stop"]
  <2>1. p \in Process
    BY <1>a DEF Process
  <2>2. ProcessShape(p)
    BY <1>4, Types DEF Stop, Process, ProcessShape
  <2>3. proc' = [proc EXCEPT ![w] = p]
    BY <1>4, Types, ProcsType DEF Stop
  <2>. QED
    BY <2>1, <2>2, <2>3, OneProcess
<1>5. ASSUME Exit(w) PROVE GoodProcs'
  BY <1>5, EndedProcess, OneProcess DEF Exit
<1>6. ASSUME Crash(w) PROVE GoodProcs'
  BY <1>6, EndedProcess, OneProcess DEF Crash
<1>7. ASSUME StoreError(w) PROVE GoodProcs'
  BY <1>7, AfterProcess DEF StoreError
<1>8. ASSUME ReadFailuresError(w) PROVE GoodProcs'
  <2> DEFINE p == [proc[w] EXCEPT !.handler = "raised"]
  <2>1. p \in Process
    BY <1>a DEF Process
  <2>2. ProcessShape(p)
    BY <1>8, Types DEF ReadFailuresError, Process, ProcessShape
  <2>3. proc' = [proc EXCEPT ![w] = p]
    BY <1>8, Types, ProcsType DEF ReadFailuresError
  <2>. QED
    BY <2>1, <2>2, <2>3, OneProcess
<1>9. ASSUME Drain(w) PROVE GoodProcs'
  <2> DEFINE p == [proc[w] EXCEPT !.drain = "draining"]
  <2>1. p \in Process
    BY <1>a DEF Process
  <2>2. ProcessShape(p)
    BY <1>9, Types DEF Drain, Process, ProcessShape
  <2>3. proc' = [proc EXCEPT ![w] = p]
    BY <1>9, Types, ProcsType DEF Drain
  <2>. QED
    BY <2>1, <2>2, <2>3, OneProcess
<1>. QED
  BY <1>1, <1>2, <1>3, <1>4, <1>5, <1>6, <1>7, <1>8, <1>9 DEF Heartbeat, Shutdown

(* Every step keeps the processes legal.                                     *)
LEMMA NextProcs == TypeInv /\ [Next]_vars => GoodProcs'
<1> SUFFICES ASSUME TypeInv, [Next]_vars PROVE GoodProcs'
  OBVIOUS
<1>1. ASSUME UNCHANGED proc PROVE GoodProcs'
  BY <1>1, ProcsType, Types DEF GoodProcs
<1>2. ASSUME NEW j \in Jobs, Webhook(j) PROVE UNCHANGED proc
  BY <1>2 DEF Webhook, WebhookStore, WebhookAnswer
<1>3. ASSUME NEW c \in late, LateCommit(c) PROVE UNCHANGED proc
  BY <1>3 DEF LateCommit
<1>4. Tick \/ UNCHANGED vars => UNCHANGED proc
  BY DEF Tick, vars
<1>. QED
  BY <1>1, <1>2, <1>3, <1>4, SupervisorProcs, HandlerProcs, OtherProcs DEF Next

(* The late calls stay well formed and within their bound.                   *)
GoodLate ==
    /\ late \subseteq LateCall
    /\ \A c \in late : LateShape(c)
    /\ IsFiniteSet(late)
    /\ Cardinality(late) <= MaxLate

(* One more late call, when there is room for it.                            *)
LEMMA MoreLate ==
  ASSUME GoodLate, Cardinality(late) < MaxLate, NEW c \in LateCall, LateShape(c),
         late' = late \cup {c}
  PROVE  GoodLate'
<1>1. IsFiniteSet(late) /\ Cardinality(late) \in Nat
  BY FS_CardinalityType DEF GoodLate
<1>2. /\ IsFiniteSet(late')
      /\ Cardinality(late') = IF c \in late THEN Cardinality(late) ELSE Cardinality(late) + 1
  BY <1>1, FS_AddElement
<1>3. Cardinality(late') <= MaxLate
  BY <1>1, <1>2, InboxAssumption
<1>. QED
  BY <1>2, <1>3 DEF GoodLate

(* Late calls that commit or die with their process leave fewer of them.     *)
LEMMA FewerLate ==
  ASSUME GoodLate, late' \subseteq late
  PROVE  GoodLate'
<1>1. IsFiniteSet(late') /\ Cardinality(late') <= Cardinality(late)
  BY FS_Subset, FS_CardinalityType DEF GoodLate
<1>2. Cardinality(late) \in Nat /\ Cardinality(late') \in Nat
  BY <1>1, FS_CardinalityType DEF GoodLate
<1>3. Cardinality(late') <= MaxLate
  BY <1>1, <1>2, InboxAssumption DEF GoodLate
<1>. QED
  BY <1>1, <1>3 DEF GoodLate

\* The same call one tick later: the `now` it carries has aged.
Aged(c) == [c EXCEPT !.lag = IF @ < MaxLag THEN @ + 1 ELSE @]

(* Time makes the `now` of every late call older, and changes nothing else   *)
(* about it.                                                                 *)
LEMMA AgedCall ==
  ASSUME NEW c \in LateCall
  PROVE  /\ Aged(c) \in LateCall
         /\ Aged(c).op = c.op /\ Aged(c).owner = c.owner /\ Aged(c).job = c.job
         /\ Aged(c).keys = c.keys /\ Aged(c).outcome = c.outcome
<1>1. (IF c.lag < MaxLag THEN c.lag + 1 ELSE c.lag) \in Lags
  BY InboxAssumption DEF LateCall, Lags
<1>. QED
  BY <1>1 DEF Aged, LateCall

(* Time keeps the late calls well formed, and makes no new ones.             *)
LEMMA AgedLate ==
  ASSUME GoodLate, late' = {Aged(c) : c \in late}
  PROVE  GoodLate'
<1>1. \A c \in late : c \in LateCall
  BY DEF GoodLate
<1>2. late' \subseteq LateCall /\ \A c \in late' : LateShape(c)
  BY <1>1, AgedCall DEF GoodLate, LateShape
<1>3. IsFiniteSet(late') /\ Cardinality(late') <= Cardinality(late)
  <2> DEFINE age == [c \in late |-> Aged(c)]
  <2>1. age \in Surjection(late, late')
    BY DEF Surjection
  <2>. QED
    BY <2>1, FS_Surjection DEF GoodLate
<1>4. Cardinality(late) \in Nat /\ Cardinality(late') \in Nat
  BY <1>3, FS_CardinalityType DEF GoodLate
<1>5. Cardinality(late') <= MaxLate
  BY <1>3, <1>4, InboxAssumption DEF GoodLate
<1>. QED
  BY <1>2, <1>3, <1>5 DEF GoodLate

(* A call that a cancelled handler leaves behind is a legal one.             *)
LEMMA AbandonedCalls ==
  ASSUME TypeInv, NEW w \in Owners, NEW lag \in Lags, NEW c \in Abandoned(w, lag)
  PROVE  c \in LateCall /\ LateShape(c)
<1>1. proc[w] \in Process /\ ProcessShape(proc[w])
  BY Types
<1>2. CASE proc[w].handler = "ready"
  <2>1. PICK U \in (SUBSET proc[w].todo) \ {{}} :
          c = [op |-> "begin", owner |-> w, job |-> proc[w].job,
               keys |-> U, outcome |-> "none", lag |-> lag]
    BY <1>2 DEF Abandoned
  <2>2. proc[w].job \in Jobs /\ U \in SUBSET Keys /\ U # {}
    BY <1>1, <1>2, <2>1 DEF Process, ProcessShape
  <2>. QED
    BY <2>1, <2>2 DEF LateCall, LateShape
<1>3. CASE proc[w].handler = "recording"
  <2>1. PICK k \in proc[w].unit :
          c = [op |-> "finalize", owner |-> w, job |-> proc[w].job,
               keys |-> {k}, outcome |-> proc[w].verdict[k], lag |-> lag]
    BY <1>3 DEF Abandoned
  <2>2. proc[w].job \in Jobs /\ k \in Keys
    BY <1>1, <1>3, <2>1 DEF Process, ProcessShape
  <2>3. proc[w].verdict[k] \in {"success", "failed", "uncertain"}
    BY <1>1, <1>3, <2>2 DEF Process, ProcessShape
  <2>. QED
    BY <2>1, <2>2, <2>3 DEF LateCall, LateShape
<1>. QED
  BY <1>2, <1>3 DEF Abandoned

(* Every step keeps the late calls well formed and within their bound.       *)
LEMMA NextLate == TypeInv /\ [Next]_vars => GoodLate'
<1> SUFFICES ASSUME TypeInv, [Next]_vars PROVE GoodLate'
  OBVIOUS
<1>a. GoodLate
  BY DEF TypeInv, TypeOK, GoodLate
<1>1. ASSUME NEW j \in Jobs, Webhook(j) PROVE late' = late
  BY <1>1 DEF Webhook, WebhookStore, WebhookAnswer
<1>2. ASSUME NEW w \in Owners, NEW lag \in Lags, SettleStopped(w, lag) PROVE GoodLate'
  <2> DEFINE c == [op |-> "checkpoint", owner |-> w, job |-> proc[w].job,
                   keys |-> {}, outcome |-> "none", lag |-> lag]
  <2>1. proc[w].job \in Jobs
    BY <1>2, Types DEF SettleStopped, Stopped, ProcessShape
  <2>2. c \in LateCall /\ LateShape(c)
    BY <2>1 DEF LateCall, LateShape
  <2>3. \/ late' = late
        \/ Cardinality(late) < MaxLate /\ late' = late \cup {c}
    BY <1>2, Zenon DEF SettleStopped
  <2>. QED
    BY <1>a, <2>2, <2>3, MoreLate, FewerLate
<1>3. ASSUME NEW w \in Owners, NEW lag \in Lags, HandlerCancelled(w, lag) PROVE GoodLate'
  <2>1. \/ late' = late
        \/ /\ Cardinality(late) < MaxLate
           /\ \E c \in Abandoned(w, lag) : late' = late \cup {c}
    BY <1>3 DEF HandlerCancelled
  <2>. QED
    BY <1>a, <2>1, AbandonedCalls, MoreLate, FewerLate
<1>4. ASSUME NEW w \in Owners, Supervisor(w) PROVE GoodLate'
  <2>1. late' = late \/ \E lag \in Lags : SettleStopped(w, lag)
    BY <1>4 DEF Supervisor, RequeueStartupFailures, ReleaseAfterError, ReadFailures, Start, Claim,
                ClaimNothing, RenewIdle, Reacquire, StartJob, SettleLost, SettleRaised,
                SettleReturned, outside
  <2>. QED
    BY <1>a, <1>2, <2>1, FewerLate
<1>5. ASSUME NEW w \in Owners, Handler(w) PROVE GoodLate'
  <2>1. late' = late \/ \E lag \in Lags : HandlerCancelled(w, lag)
    BY <1>5 DEF Handler, ReadPrior, Send, Redeliver, HandlerReturns, HandlerRaises, Reserve,
                Record, outside
  <2>. QED
    BY <1>a, <1>3, <2>1, FewerLate
<1>6. ASSUME NEW w \in Owners,
             \/ Heartbeat(w) \/ Shutdown(w) \/ StoreError(w)
             \/ ReadFailuresError(w) \/ Drain(w) \/ Crash(w)
      PROVE  late' \subseteq late
  BY <1>6 DEF Heartbeat, BeatWorker, BeatClaim, BeatLost, Shutdown, DrainCancel, Stop, Exit,
              StoreError, ReadFailuresError, Drain, Crash, outside
<1>7. ASSUME NEW c \in late, LateCommit(c) PROVE late' \subseteq late
  BY <1>7 DEF LateCommit
<1>8. CASE Tick
  BY <1>a, <1>8, AgedLate DEF Tick, Aged
<1>9. CASE UNCHANGED vars
  BY <1>a, <1>9, FewerLate DEF vars
<1>. QED
  BY <1>a, <1>1, <1>4, <1>5, <1>6, <1>7, <1>8, <1>9, FewerLate DEF Next

(* Telegram's view stays typed: a send adds at most one acceptance, capped.  *)
LEMMA NextOutside ==
  TypeInv /\ [Next]_vars =>
    /\ post' \in [Jobs -> {"waiting", "stored", "acked"}]
    /\ accepted' \in [Jobs -> [Keys -> 0 .. 2]]
    /\ faults' \in 0 .. MaxFaults
<1> DEFINE Typed == /\ post \in [Jobs -> {"waiting", "stored", "acked"}]
                    /\ accepted \in [Jobs -> [Keys -> 0 .. 2]]
                    /\ faults \in 0 .. MaxFaults
<1> SUFFICES ASSUME TypeInv, [Next]_vars PROVE Typed'
  OBVIOUS
<1>a. Typed
  BY DEF TypeInv, TypeOK
<1>b. ASSUME Fault PROVE faults' \in 0 .. MaxFaults
  BY <1>a, <1>b, InboxAssumption DEF Fault
<1>c. ASSUME NEW j \in Jobs, NEW S \in SUBSET Keys, Accept(j, S)
      PROVE  accepted' \in [Jobs -> [Keys -> 0 .. 2]]
  BY <1>a, <1>c DEF Accept
<1>1. ASSUME NEW j \in Jobs, Webhook(j) PROVE Typed'
  BY <1>a, <1>1 DEF Webhook, WebhookStore, WebhookAnswer
<1>2. ASSUME NEW w \in Owners, Supervisor(w) PROVE Typed'
  <2>1. UNCHANGED <<post, accepted>> /\ (UNCHANGED faults \/ Fault)
    BY <1>2 DEF Supervisor, RequeueStartupFailures, ReleaseAfterError, Release, ReadFailures, Start,
                Claim, ClaimNothing, RenewIdle, Reacquire, StartJob, SettleLost, SettleStopped,
                SettleRaised, SettleReturned, outside
  <2>. QED
    BY <1>a, <1>b, <2>1
<1>3. ASSUME NEW w \in Owners, Handler(w) PROVE Typed'
  <2>1. proc[w] \in Process /\ ProcessShape(proc[w])
    BY Types
  <2>2. CASE Send(w)
    <3>1. PICK S \in SUBSET proc[w].unit : Accept(proc[w].job, S)
      BY <2>2 DEF Send
    <3>2. proc[w].job \in Jobs /\ S \in SUBSET Keys
      BY <2>1, <2>2 DEF Send, Process, ProcessShape
    <3>. QED
      BY <1>a, <1>c, <2>2, <3>1, <3>2 DEF Send
  <2>3. ASSUME NEW lag \in Lags, HandlerCancelled(w, lag) PROVE Typed'
    <3>1. proc[w].job \in Jobs /\ proc[w].unit \in SUBSET Keys
      BY <2>1, <2>3 DEF HandlerCancelled, Active, Process, ProcessShape
    <3>2. \/ accepted' = accepted
          \/ \E S \in (SUBSET proc[w].unit) \ {{}} : Accept(proc[w].job, S)
      BY <2>3, Zenon DEF HandlerCancelled
    <3>3. accepted' \in [Jobs -> [Keys -> 0 .. 2]]
      BY <1>a, <1>c, <3>1, <3>2
    <3>. QED
      BY <1>a, <2>3, <3>3 DEF HandlerCancelled
  <2>4. CASE UNCHANGED outside
    BY <1>a, <2>4 DEF outside
  <2>. QED
    BY <1>3, <2>2, <2>3, <2>4
    DEF Handler, ReadPrior, Redeliver, HandlerReturns, HandlerRaises, Reserve, Record
<1>4. ASSUME NEW w \in Owners, Heartbeat(w) \/ Shutdown(w) \/ StoreError(w)
                               \/ ReadFailuresError(w) \/ Drain(w)
      PROVE  Typed'
  <2>1. UNCHANGED <<post, accepted>> /\ (UNCHANGED faults \/ Fault)
    BY <1>4 DEF Heartbeat, BeatWorker, BeatClaim, BeatLost, Shutdown, DrainCancel, Stop, Exit,
                Release, StoreError, ReadFailuresError, Drain, outside
  <2>. QED
    BY <1>a, <1>b, <2>1
<1>5. ASSUME NEW w \in Owners, Crash(w) PROVE Typed'
  BY <1>a, <1>5 DEF Crash
<1>6. ASSUME NEW c \in late, LateCommit(c) PROVE Typed'
  BY <1>a, <1>6 DEF LateCommit
<1>7. CASE Tick
  BY <1>a, <1>b, <1>7 DEF Tick
<1>8. CASE UNCHANGED vars
  BY <1>a, <1>8 DEF vars
<1>. QED
  BY <1>1, <1>2, <1>3, <1>4, <1>5, <1>6, <1>7, <1>8 DEF Next

-----------------------------------------------------------------------------
(* The proved store is the store the workers use. *)

(* Store and StoreProofs are two instances of one specification: the tables' *)
(* types, the initial tables and the transactions are the same.              *)
LEMMA SameTypes == Store!TypeOK <=> StoreProofs!TypeOK
  BY DEF Store!TypeOK, StoreProofs!TypeOK, Store!Job, StoreProofs!Job, Store!Row, StoreProofs!Row,
      Store!Ttls, StoreProofs!Ttls, Store!JobState, StoreProofs!JobState, Store!DeliveryOutcome,
      StoreProofs!DeliveryOutcome, Store!Lapsed, StoreProofs!Lapsed

(* The same for the empty tables.                                            *)
LEMMA SameInit == Store!Init <=> StoreProofs!Init
  BY DEF Store!Init, StoreProofs!Init, Store!NewJob, StoreProofs!NewJob, Store!NoRow, StoreProofs!NoRow,
      Store!NoLease, StoreProofs!NoLease, Store!Lapsed, StoreProofs!Lapsed

(* The same for the transactions.                                            *)
LEMMA SameNext == Store!Next <=> StoreProofs!Next
  BY
  DEF Store!Lapsed, StoreProofs!Lapsed, Store!Lags, StoreProofs!Lags, Store!NewJob,
      StoreProofs!NewJob, Store!NoLease, StoreProofs!NoLease, Store!Live, StoreProofs!Live,
      Store!LeaseLive, StoreProofs!LeaseLive, Store!OwnsLiveJob, StoreProofs!OwnsLiveJob,
      Store!Sent, StoreProofs!Sent, Store!Settled, StoreProofs!Settled,
      Store!HasUnsafeDeliveries, StoreProofs!HasUnsafeDeliveries, Store!HasFailedDeliveries,
      StoreProofs!HasFailedDeliveries, Store!AcceptUpdate, StoreProofs!AcceptUpdate,
      Store!CanAcquire, StoreProofs!CanAcquire, Store!Renewed, StoreProofs!Renewed,
      Store!AcquireWorker, StoreProofs!AcquireWorker, Store!RenewWorker,
      StoreProofs!RenewWorker, Store!ReleaseWorker, StoreProofs!ReleaseWorker, Store!Claimable,
      StoreProofs!Claimable, Store!OldestClaimable, StoreProofs!OldestClaimable,
      Store!ClaimNext, StoreProofs!ClaimNext, Store!ClaimNothing, StoreProofs!ClaimNothing,
      Store!RenewClaim, StoreProofs!RenewClaim, Store!CanLeave, StoreProofs!CanLeave,
      Store!Transition, StoreProofs!Transition, Store!Checkpoint, StoreProofs!Checkpoint,
      Store!Complete, StoreProofs!Complete, Store!Fail, StoreProofs!Fail, Store!CanBegin,
      StoreProofs!CanBegin, Store!BeginDelivery, StoreProofs!BeginDelivery, Store!CanFinalize,
      StoreProofs!CanFinalize, Store!FinalizeDelivery, StoreProofs!FinalizeDelivery,
      Store!NextInChain, StoreProofs!NextInChain, Store!ChainEnd, StoreProofs!ChainEnd,
      Store!SupersedeFailed, StoreProofs!SupersedeFailed, Store!Requeueable,
      StoreProofs!Requeueable, Store!RequeueFailed, StoreProofs!RequeueFailed, Store!Purgeable,
      StoreProofs!Purgeable, Store!PurgeExpired, StoreProofs!PurgeExpired, Store!Older,
      StoreProofs!Older, Store!Tick, StoreProofs!Tick, Store!RetentionEnds,
      StoreProofs!RetentionEnds, Store!OwnerStep, StoreProofs!OwnerStep, Store!Next,
      StoreProofs!Next, Store!DeliveryOutcome, StoreProofs!DeliveryOutcome

(* The initial state has the types and the shape.                            *)
LEMMA InitTypeInv == Init => TypeInv
<1> SUFFICES ASSUME Init PROVE TypeInv
  OBVIOUS
<1>1. Store!TypeOK
  BY InboxAssumption, StoreProofs!InitTypeOK, SameInit, SameTypes DEF Init
<1>2. GoodProcs
  BY IdleType DEF Init, GoodProcs, Idle, ProcessShape
<1>3. IsFiniteSet(late) /\ Cardinality(late) = 0
  BY FS_EmptySet DEF Init
<1>. QED
  BY <1>1, <1>2, <1>3, InboxAssumption DEF Init, TypeInv, TypeOK, GoodProcs

(* Every step keeps the types and the shape.                                 *)
LEMMA NextTypeInv == TypeInv /\ [Next]_vars => TypeInv'
<1> SUFFICES ASSUME TypeInv, [Next]_vars PROVE TypeInv'
  OBVIOUS
<1>1. Store!TypeOK' <=> StoreProofs!TypeOK'
  BY SameTypes, PTL
<1>2. [StoreProofs!Next]_(StoreProofs!storeVars)
  BY StoreStep, SameNext DEF storeVars, StoreProofs!storeVars
<1>3. Store!TypeOK'
  BY <1>1, <1>2, InboxAssumption, Types, SameTypes, StoreProofs!NextTypeOK
<1>. QED
  BY <1>3, NextProcs, NextLate, NextOutside DEF TypeInv, TypeOK, GoodProcs, GoodLate

(* Every variable keeps its type, and every process and late call its shape. *)
LEMMA TypeInvariant == Spec => []TypeInv
  BY InitTypeInv, NextTypeInv, PTL DEF Spec

(* The workers implement the store's most general client: every behaviour of *)
(* the webhook, the loop, the handlers and the late threads is one of it.    *)
THEOREM StoreRefinement == Spec => UsesStore
<1>1. Init => Store!Init
  BY DEF Init
<1>2. TypeInv /\ [Next]_vars => [Store!Next]_(Store!storeVars)
  BY StoreStep DEF storeVars, Store!storeVars
<1>. QED
  BY <1>1, <1>2, TypeInvariant, PTL DEF Spec, UsesStore, Store!Spec

-----------------------------------------------------------------------------
(* One open attempt for each item. *)

\* The step opens no attempt of w and puts nothing on its list.
Calm(w) ==
    \/ ~Active(w)'
    \/ proc'[w].handler = "reading" /\ proc'[w].todo = {}
    \/ /\ proc'[w].job = proc[w].job
       /\ proc'[w].handler = proc[w].handler
       /\ proc'[w].todo = proc[w].todo
       /\ proc'[w].unit = proc[w].unit
       /\ proc'[w].verdict = proc[w].verdict

\* No handler finds itself with a job it did not own.
NoNewOwner ==
    \A w \in Owners, j \in Jobs :
        proc'[w].handler # "idle" /\ Owning(w, j)' => Owning(w, j)

(* A step that writes no receipt, sends nothing, leaves no late receipt and   *)
(* opens no attempt keeps the invariant.                                     *)
LEMMA QuietStep ==
  ASSUME TypeInv, AttemptInv, NoNewOwner, rows' = rows, accepted' = accepted,
         \A c \in late' : c.op = "finalize" => c \in late,
         \A w \in Owners : Calm(w)
  PROVE  AttemptInv'
<1> SUFFICES ASSUME NEW j \in Jobs, NEW k \in Keys
             PROVE  OneAttempt(j, k)' /\ TrueReceipt(j, k)'
  BY DEF AttemptInv
<1>1. OneAttempt(j, k) /\ TrueReceipt(j, k)
  BY DEF AttemptInv
<1>2. \A w \in Owners : InFlight(w, j, k)' =>
         /\ InFlight(w, j, k)
         /\ proc'[w].handler = proc[w].handler
         /\ proc'[w].verdict = proc[w].verdict
  BY DEF Calm, InFlight, Active
<1>3. \A w \in Owners : Pending(w, j, k)' => Pending(w, j, k)
  BY DEF Calm, Pending, Active, NoNewOwner
<1>4. \A c \in late' : Unrecorded(c, j, k) => c \in late
  BY DEF Unrecorded
<1>5. OneAttempt(j, k)'
  BY <1>1, <1>2, <1>3, <1>4 DEF OneAttempt, NoAttempt, Unrecorded
<1>6. TrueReceipt(j, k)'
  BY <1>1 DEF TrueReceipt, Store!Sent
<1>. QED
  BY <1>5, <1>6

\* No process gains a job.
KeepsOwners == \A w \in Owners, j \in Jobs : Owning(w, j)' => Owning(w, j)

(* The jobs table as a function of job rows.                                 *)
LEMMA JobsType == TypeInv => jobs \in [Jobs -> Store!Job]
  BY Types DEF Store!TypeOK

(* Only a claim gives a process a job; leaving it, renewing it, accepting an *)
(* update and the startup requeue do not.                                    *)
LEMMA KeptOwners ==
  ASSUME TypeInv, NEW j \in Jobs, NEW o, NEW lag,
         \/ UNCHANGED jobs
         \/ Store!AcceptUpdate(j)
         \/ Store!RenewClaim(j, o, lag)
         \/ Store!Checkpoint(j, o, lag)
         \/ Store!Complete(j, o, lag)
         \/ Store!Fail(j, o, lag)
  PROVE  KeepsOwners
<1> USE JobsType
<1>1. CASE UNCHANGED jobs
  BY <1>1 DEF KeepsOwners, Owning
<1>2. CASE Store!AcceptUpdate(j)
  BY <1>2 DEF Store!AcceptUpdate, Store!NewJob, Store!Job, KeepsOwners, Owning
<1>3. CASE Store!RenewClaim(j, o, lag)
  BY <1>3 DEF Store!RenewClaim, Store!Job, KeepsOwners, Owning
<1>4. ASSUME NEW state, Store!Transition(j, o, state, lag) PROVE KeepsOwners
  BY <1>4, InboxAssumption DEF Store!Transition, Store!Job, KeepsOwners, Owning
<1>. QED
  BY <1>1, <1>2, <1>3, <1>4 DEF Store!Checkpoint, Store!Complete, Store!Fail

(* The startup requeue gives no process a job.                               *)
LEMMA RequeueKeepsOwners ==
  ASSUME TypeInv, NEW S, Store!RequeueFailed(S)
  PROVE  KeepsOwners
  BY JobsType DEF Store!RequeueFailed, Store!Job, KeepsOwners, Owning

(* Nor does the passage of time.                                             *)
LEMMA TimeKeepsOwners ==
  ASSUME TypeInv, Store!Tick
  PROVE  KeepsOwners
  BY JobsType DEF Store!Tick, Store!Job, KeepsOwners, Owning

(* The claim gives it to its caller, whose handler has not started.          *)
LEMMA ClaimedOwner ==
  ASSUME TypeInv, NEW w \in Owners, NEW lag \in Lags, Claim(w, lag)
  PROVE  NoNewOwner
<1>1. PICK j \in Jobs :
        /\ Store!ClaimNext(w, j, lag)
        /\ proc' = [proc EXCEPT ![w].phase = "claimed", ![w].job = j]
  BY DEF Claim
<1>2. proc'[w].handler = "idle"
  BY <1>1, Types, ProcsType DEF Claim, ProcessShape
<1>3. \A v \in Owners, i \in Jobs : v # w /\ Owning(v, i)' => Owning(v, i)
  BY <1>1, JobsType DEF Store!ClaimNext, Store!Job, Owning
<1>. QED
  BY <1>2, <1>3 DEF NoNewOwner

(* After(w, phase) ends the handler of w and touches no other process.       *)
LEMMA AfterCalm ==
  ASSUME TypeInv, NEW w \in Owners, NEW phase, After(w, phase)
  PROVE  \A v \in Owners : Calm(v)
  BY ProcsType, Types DEF After, Calm, Active, Idle

(* Nothing about a delivery changes: what a quiet step leaves alone.         *)
Still == rows' = rows /\ accepted' = accepted /\ \A c \in late' : c.op = "finalize" => c \in late

(* The worker loop writes no receipt and opens no attempt.                   *)
LEMMA SupervisorQuiet ==
  ASSUME TypeInv, NEW w \in Owners, Supervisor(w)
  PROVE  Still /\ NoNewOwner /\ \A v \in Owners : Calm(v)
<1> USE Types, ProcsType
<1>a. KeepsOwners => NoNewOwner
  BY DEF KeepsOwners, NoNewOwner
<1>b. ASSUME UNCHANGED jobs PROVE KeepsOwners
  BY <1>b DEF KeepsOwners, Owning
<1>1. CASE RequeueStartupFailures(w)
  <2>1. Still
    BY <1>1 DEF RequeueStartupFailures, Store!RequeueFailed, outside, storeVars, Still
  <2>2. \A v \in Owners : Calm(v)
    BY <1>1 DEF RequeueStartupFailures, Calm, Active
  <2>3. KeepsOwners
    BY <1>1, <1>b, RequeueKeepsOwners DEF RequeueStartupFailures, storeVars
  <2>. QED
    BY <2>1, <2>2, <2>3, <1>a
<1>2. CASE ReleaseAfterError(w)
  <2>1. Still /\ UNCHANGED jobs
    BY <1>2 DEF ReleaseAfterError, Release, Store!ReleaseWorker, storeVars, Still
  <2>2. \A v \in Owners : Calm(v)
    BY <1>2 DEF ReleaseAfterError, Calm, Active
  <2>. QED
    BY <2>1, <2>2, <1>a, <1>b
<1>3. CASE ReadFailures(w)
  <2>1. Still /\ UNCHANGED jobs
    BY <1>3 DEF ReadFailures, storeVars, outside, Still
  <2>2. \A v \in Owners : Calm(v)
    BY <1>3 DEF ReadFailures, Calm, Active
  <2>. QED
    BY <2>1, <2>2, <1>a, <1>b
<1>4. ASSUME NEW lag \in Lags, \/ Start(w, lag) \/ ClaimNothing(w, lag)
                              \/ RenewIdle(w, lag) \/ Reacquire(w, lag)
      PROVE  Still /\ NoNewOwner /\ \A v \in Owners : Calm(v)
  <2>1. Still /\ UNCHANGED jobs
    BY <1>4 DEF Start, ClaimNothing, RenewIdle, Reacquire, Store!AcquireWorker, Store!RenewWorker,
                Store!ClaimNothing, storeVars, outside, Still
  <2>2. \A v \in Owners : Calm(v)
    <3>1. \E phase : proc' = [proc EXCEPT ![w].phase = phase]
      BY <1>4 DEF Start, ClaimNothing, RenewIdle, Reacquire
    <3>. QED
      BY <3>1 DEF Calm
  <2>. QED
    BY <2>1, <2>2, <1>a, <1>b
<1>5. ASSUME NEW lag \in Lags, Claim(w, lag)
      PROVE  Still /\ NoNewOwner /\ \A v \in Owners : Calm(v)
  <2>1. PICK j \in Jobs :
          /\ Store!ClaimNext(w, j, lag)
          /\ proc' = [proc EXCEPT ![w].phase = "claimed", ![w].job = j]
    BY <1>5 DEF Claim
  <2>2. Still
    BY <1>5, <2>1 DEF Claim, Store!ClaimNext, outside, Still
  <2>3. \A v \in Owners : Calm(v)
    BY <1>5, <2>1 DEF Claim, Calm, Active, ProcessShape
  <2>. QED
    BY <1>5, <2>2, <2>3, ClaimedOwner
<1>c. ASSUME NEW lag \in Lags, TryCheckpoint(w, lag), proc[w].job \in Jobs
      PROVE  rows' = rows /\ KeepsOwners
  <2>1. CASE Store!Checkpoint(proc[w].job, w, lag)
    BY <1>c, <2>1, KeptOwners DEF Store!Checkpoint, Store!Transition
  <2>. QED
    BY <1>b, <1>c, <2>1 DEF TryCheckpoint, storeVars
<1>6. ASSUME NEW lag \in Lags, StartJob(w, lag)
      PROVE  Still /\ NoNewOwner /\ \A v \in Owners : Calm(v)
  <2>1. rows' = rows /\ KeepsOwners
    BY <1>6, <1>b, <1>c DEF StartJob, ProcessShape, storeVars
  <2>2. Still
    BY <1>6, <2>1 DEF StartJob, outside, Still
  <2>3. proc[w].todo = {}
    BY <1>6 DEF StartJob, ProcessShape
  <2>4. \A v \in Owners : Calm(v)
    <3>1. CASE proc' = [proc EXCEPT ![w].phase = "working", ![w].beat = "beating",
                                    ![w].handler = "reading", ![w].unread = Keys]
      BY <2>3, <3>1 DEF Calm
    <3>. QED
      BY <1>6, <3>1, AfterCalm DEF StartJob
  <2>. QED
    BY <2>1, <2>2, <2>4, <1>a
<1>7. ASSUME NEW lag \in Lags, SettleLost(w, lag) \/ SettleStopped(w, lag)
      PROVE  Still /\ NoNewOwner /\ \A v \in Owners : Calm(v)
  <2>1. rows' = rows /\ KeepsOwners
    <3>1. proc[w].job \in Jobs
      BY <1>7 DEF SettleLost, SettleStopped, Stopped, ProcessShape
    <3>2. TryCheckpoint(w, lag) \/ UNCHANGED storeVars
      BY <1>7 DEF SettleLost, SettleStopped
    <3>. QED
      BY <3>1, <3>2, <1>b, <1>c DEF storeVars
  <2>2. accepted' = accepted /\ \A c \in late' : c.op = "finalize" => c \in late
    BY <1>7 DEF SettleLost, SettleStopped, outside
  <2>3. \A v \in Owners : Calm(v)
    BY <1>7, AfterCalm DEF SettleLost, SettleStopped
  <2>. QED
    BY <2>1, <2>2, <2>3, <1>a DEF Still
<1>8. ASSUME NEW lag \in Lags, SettleRaised(w, lag) \/ SettleReturned(w, lag)
      PROVE  Still /\ NoNewOwner /\ \A v \in Owners : Calm(v)
  <2>1. proc[w].job \in Jobs
    BY <1>8 DEF SettleRaised, SettleReturned, ProcessShape
  <2>2. \/ Store!Fail(proc[w].job, w, lag)
        \/ Store!Complete(proc[w].job, w, lag)
        \/ UNCHANGED storeVars
    BY <1>8 DEF SettleRaised, SettleReturned
  <2>3. rows' = rows /\ KeepsOwners
    BY <2>1, <2>2, <1>b, KeptOwners DEF Store!Fail, Store!Complete, Store!Transition, storeVars
  <2>4. Still
    BY <1>8, <2>3 DEF SettleRaised, SettleReturned, outside, Still
  <2>5. \A v \in Owners : Calm(v)
    BY <1>8, AfterCalm DEF SettleRaised, SettleReturned
  <2>. QED
    BY <2>3, <2>4, <2>5, <1>a
<1>. QED
  BY <1>1, <1>2, <1>3, <1>4, <1>5, <1>6, <1>7, <1>8 DEF Supervisor

(* Neither do heartbeats, errors, deployments and crashes.                   *)
LEMMA OtherQuiet ==
  ASSUME TypeInv, NEW w \in Owners,
         \/ Heartbeat(w) \/ Shutdown(w) \/ StoreError(w)
         \/ ReadFailuresError(w) \/ Drain(w) \/ Crash(w)
  PROVE  Still /\ NoNewOwner /\ \A v \in Owners : Calm(v)
<1> USE Types, ProcsType
<1>a. KeepsOwners => NoNewOwner
  BY DEF KeepsOwners, NoNewOwner
<1>b. ASSUME UNCHANGED jobs PROVE KeepsOwners
  BY <1>b DEF KeepsOwners, Owning
<1>1. ASSUME NEW lag \in Lags, BeatWorker(w, lag) \/ BeatClaim(w, lag) \/ BeatLost(w, lag)
      PROVE  Still /\ NoNewOwner /\ \A v \in Owners : Calm(v)
  <2>1. Still
    BY <1>1 DEF BeatWorker, BeatClaim, BeatLost, Store!RenewWorker, Store!RenewClaim, outside,
                storeVars, Still
  <2>2. \A v \in Owners : Calm(v)
    <3>1. \/ UNCHANGED proc
          \/ proc' = [proc EXCEPT ![w].beat = "lost", ![w].cancel = TRUE]
      BY <1>1 DEF BeatWorker, BeatClaim, BeatLost
    <3>2. CASE UNCHANGED proc
      BY <3>2 DEF Calm
    <3>3. CASE proc' = [proc EXCEPT ![w].beat = "lost", ![w].cancel = TRUE]
      BY <3>3 DEF Calm
    <3>. QED
      BY <3>1, <3>2, <3>3
  <2>3. CASE BeatClaim(w, lag)
    BY <2>1, <2>2, <2>3, <1>a, KeptOwners DEF BeatClaim, ProcessShape
  <2>4. CASE UNCHANGED jobs
    BY <2>1, <2>2, <2>4, <1>a, <1>b
  <2>. QED
    BY <1>1, <2>3, <2>4 DEF BeatWorker, BeatLost, Store!RenewWorker, storeVars
<1>2. ASSUME \/ DrainCancel(w) \/ Stop(w) \/ Exit(w) \/ StoreError(w)
             \/ ReadFailuresError(w) \/ Drain(w) \/ Crash(w)
      PROVE  Still /\ NoNewOwner /\ \A v \in Owners : Calm(v)
  <2>1. Still /\ UNCHANGED jobs
    BY <1>2 DEF DrainCancel, Stop, Exit, Release, Store!ReleaseWorker, StoreError,
                ReadFailuresError, Drain, Crash, outside, storeVars, Still
  <2>2. ASSUME DrainCancel(w) \/ Stop(w) \/ ReadFailuresError(w) \/ Drain(w)
        PROVE  \A v \in Owners : Calm(v)
    <3>1. CASE DrainCancel(w)
      BY <3>1 DEF DrainCancel, Calm
    <3>2. CASE Stop(w)
      BY <3>2 DEF Stop, Calm
    <3>3. CASE ReadFailuresError(w)
      BY <3>3 DEF ReadFailuresError, Calm, Active
    <3>4. CASE Drain(w)
      BY <3>4 DEF Drain, Calm
    <3>. QED
      BY <2>2, <3>1, <3>2, <3>3, <3>4
  <2>3. ASSUME Exit(w) \/ Crash(w) PROVE \A v \in Owners : Calm(v)
    BY <2>3 DEF Exit, Crash, Calm, Active, Idle
  <2>4. ASSUME StoreError(w) PROVE \A v \in Owners : Calm(v)
    BY <2>4, AfterCalm DEF StoreError
  <2>. QED
    BY <1>2, <2>1, <2>2, <2>3, <2>4, <1>a, <1>b
<1>. QED
  BY <1>1, <1>2 DEF Heartbeat, Shutdown

(* What the invariant says of one item, and the types behind it.             *)
LEMMA ItemFacts ==
  ASSUME TypeInv, AttemptInv, NEW j \in Jobs, NEW k \in Keys
  PROVE  /\ OneAttempt(j, k) /\ TrueReceipt(j, k)
         /\ accepted[j][k] \in 0 .. 2
         /\ rows[j][k] \in Store!Row
  BY DEF AttemptInv, TypeInv, TypeOK, Store!TypeOK

(* An open attempt keeps the item's row reserved.                            *)
LEMMA OpenRow ==
  ASSUME TypeInv, AttemptInv, NEW j \in Jobs, NEW k \in Keys, ~Store!Sent(rows[j][k])
  PROVE  accepted[j][k] = 0 /\ NoAttempt(j, k)
<1>1. accepted[j][k] = 0
  BY ItemFacts DEF TrueReceipt
<1>2. ~Reserved(rows[j][k])
  BY DEF Reserved, Store!Sent
<1>3. NoAttempt(j, k)
  BY <1>2, ItemFacts DEF OneAttempt, NoAttempt
<1>. QED
  BY <1>1, <1>3

(* deliver puts on its list only what it finds unsent (get_delivery_outcome). *)
LEMMA ReadPriorAttempt ==
  ASSUME TypeInv, AttemptInv, NEW w \in Owners, NEW i \in Keys, ReadPrior(w, i)
  PROVE  AttemptInv'
<1> SUFFICES ASSUME NEW j \in Jobs, NEW k \in Keys
             PROVE  OneAttempt(j, k)' /\ TrueReceipt(j, k)'
  BY DEF AttemptInv
<1>1. /\ jobs' = jobs /\ rows' = rows /\ accepted' = accepted /\ late' = late
      /\ \A v \in Owners : v # w => proc'[v] = proc[v]
  BY ProcsType DEF ReadPrior, storeVars, outside
<1>2. /\ proc[w].handler = "reading" /\ proc'[w].handler \in {"reading", "ready"}
      /\ proc'[w].job = proc[w].job
      /\ k \in proc'[w].todo => k \in proc[w].todo \/ ~Store!Sent(rows[proc[w].job][k])
  BY ProcsType DEF ReadPrior
<1>3. \A v \in Owners : InFlight(v, j, k)' => v # w /\ InFlight(v, j, k)
  BY <1>1, <1>2 DEF InFlight
<1>4. \A v \in Owners : Pending(v, j, k)' => Pending(v, j, k) \/ ~Store!Sent(rows[j][k])
  BY <1>1, <1>2 DEF Pending, Active, Owning
<1>5. OneAttempt(j, k)'
  BY <1>1, <1>3, <1>4, ItemFacts, OpenRow DEF OneAttempt, NoAttempt, Unrecorded
<1>6. TrueReceipt(j, k)'
  BY <1>1, ItemFacts DEF TrueReceipt, Store!Sent
<1>. QED
  BY <1>5, <1>6

(* A refused or failed call ends the handler, and leaves the deliveries.     *)
LEMMA RaisedAttempt ==
  ASSUME TypeInv, AttemptInv, NEW w \in Owners, UNCHANGED <<storeVars, outside>>,
         NEW handler \in {"raised", "returned"}, proc' = [proc EXCEPT ![w].handler = handler]
  PROVE  AttemptInv'
<1>1. NoNewOwner
  BY DEF NoNewOwner, Owning, storeVars
<1>2. \A v \in Owners : Calm(v)
  BY ProcsType DEF Calm, Active
<1>. QED
  BY <1>1, <1>2, QuietStep DEF storeVars, outside

(* The reservation (begin_delivery) opens the only attempt at each item of   *)
(* the unit: the store lets only the job's live owner make it.               *)
LEMMA ReserveAttempt ==
  ASSUME TypeInv, AttemptInv, NEW w \in Owners, NEW U \in SUBSET Keys, NEW lag \in Lags,
         Reserve(w, U, lag)
  PROVE  AttemptInv'
<1> DEFINE i == proc[w].job
<1>1. CASE UNCHANGED storeVars /\ proc' = [proc EXCEPT ![w].handler = "raised"]
  BY <1>1, RaisedAttempt DEF Reserve
<1>2. CASE /\ Store!BeginDelivery(i, U, w, lag)
           /\ proc' = [proc EXCEPT ![w].handler = "sending", ![w].unit = U,
                                   ![w].todo = proc[w].todo \ U]
  <2> SUFFICES ASSUME NEW j \in Jobs, NEW k \in Keys
               PROVE  OneAttempt(j, k)' /\ TrueReceipt(j, k)'
    BY DEF AttemptInv
  <2>1. /\ jobs' = jobs /\ accepted' = accepted /\ late' = late
        /\ \A v \in Owners : v # w => proc'[v] = proc[v]
    BY <1>2, ProcsType DEF Reserve, Store!BeginDelivery, outside
  <2>2. /\ proc'[w].handler = "sending" /\ proc'[w].job = i
        /\ proc'[w].unit = U /\ proc'[w].todo = proc[w].todo \ U
    BY <1>2, ProcsType
  <2>3. Owning(w, i) /\ Active(w) /\ U \subseteq proc[w].todo /\ i \in Jobs
    BY <1>2, Types
    DEF Reserve, Store!BeginDelivery, Store!CanBegin, Store!OwnsLiveJob, Owning, Active, ProcessShape
  <2>4. rows'[j][k] = IF j = i /\ k \in U
                        THEN [outcome |-> "uncertain", finalized |-> FALSE, owner |-> w]
                        ELSE rows[j][k]
    BY <1>2, Types DEF Store!BeginDelivery, Store!TypeOK
  <2>5. CASE j = i /\ k \in U
    <3>1. accepted[j][k] = 0 /\ NoAttempt(j, k)
      BY <2>3, <2>5, ItemFacts DEF OneAttempt, Pending
    <3>2. \A v \in Owners : InFlight(v, j, k)' => v = w
      BY <2>1, <3>1 DEF NoAttempt, InFlight
    <3>3. \A v \in Owners : ~Pending(v, j, k)'
      BY <2>1, <2>2, <2>3, <2>5 DEF Pending, Owning
    <3>4. \A c \in late' : ~Unrecorded(c, j, k)
      BY <2>1, <3>1 DEF NoAttempt
    <3>5. Reserved(rows'[j][k])
      BY <2>4, <2>5 DEF Reserved
    <3>6. OneAttempt(j, k)'
      BY <2>1, <2>2, <3>1, <3>2, <3>3, <3>4, <3>5 DEF OneAttempt, InFlight, Reserved, Unrecorded
    <3>7. TrueReceipt(j, k)'
      BY <2>1, <2>4, <2>5, <3>1 DEF TrueReceipt
    <3>. QED
      BY <3>6, <3>7
  <2>6. CASE ~(j = i /\ k \in U)
    <3>1. rows'[j][k] = rows[j][k]
      BY <2>4, <2>6
    <3>2. \A v \in Owners : InFlight(v, j, k)' => v # w /\ InFlight(v, j, k)
      BY <2>1, <2>2, <2>6 DEF InFlight
    <3>3. \A v \in Owners : Pending(v, j, k)' => Pending(v, j, k)
      BY <2>1, <2>2, <2>3 DEF Pending, Active, Owning
    <3>4. OneAttempt(j, k)'
      BY <2>1, <3>1, <3>2, <3>3, ItemFacts DEF OneAttempt, NoAttempt, Reserved, Unrecorded
    <3>5. TrueReceipt(j, k)'
      BY <2>1, <3>1, ItemFacts DEF TrueReceipt, Store!Sent
    <3>. QED
      BY <3>4, <3>5
  <2>. QED
    BY <2>5, <2>6
<1>. QED
  BY <1>1, <1>2 DEF Reserve

(* A verdict claims success only of what Telegram confirmed, and failure     *)
(* only when it accepted nothing (delivery.py, the exceptions of a send).    *)
LEMMA VerdictTruth ==
  ASSUME NEW U \in SUBSET Keys, NEW S \in SUBSET U, NEW verdict \in Verdicts(U, S), NEW k \in U
  PROVE  /\ verdict[k] = "success" => k \in S
         /\ verdict[k] = "failed" => S = {}
  BY DEF Verdicts

(* A send counts each accepted item of its unit once.                        *)
LEMMA AcceptedItem ==
  ASSUME TypeInv, NEW i \in Jobs, NEW S \in SUBSET Keys, Accept(i, S),
         NEW j \in Jobs, NEW k \in Keys, accepted[j][k] <= 1
  PROVE  accepted'[j][k] = IF j = i /\ k \in S THEN accepted[j][k] + 1 ELSE accepted[j][k]
<1>1. accepted \in [Jobs -> [Keys -> 0 .. 2]]
  BY DEF TypeInv, TypeOK
<1>. QED
  BY <1>1 DEF Accept

(* Telegram accepts an item only while the attempt at it is open and it has  *)
(* accepted nothing yet.                                                     *)
LEMMA SendAttempt ==
  ASSUME TypeInv, AttemptInv, NEW w \in Owners, Send(w)
  PROVE  AttemptInv'
<1> DEFINE i == proc[w].job
           U == proc[w].unit
<1>1. PICK S \in SUBSET U : \E verdict \in Verdicts(U, S) :
        /\ Accept(i, S)
        /\ proc' = [proc EXCEPT ![w].handler = "recording", ![w].verdict = verdict]
  BY DEF Send
<1>2. PICK verdict \in Verdicts(U, S) :
        /\ Accept(i, S)
        /\ proc' = [proc EXCEPT ![w].handler = "recording", ![w].verdict = verdict]
  BY <1>1
<1>3. i \in Jobs /\ U \in SUBSET Keys /\ S \in SUBSET Keys /\ proc[w].handler = "sending"
  BY Types DEF Send, Process, ProcessShape
<1> SUFFICES ASSUME NEW j \in Jobs, NEW k \in Keys
             PROVE  OneAttempt(j, k)' /\ TrueReceipt(j, k)'
  BY DEF AttemptInv
<1>a. jobs' = jobs /\ rows' = rows /\ late' = late
  BY DEF Send, storeVars
<1>b. /\ \A v \in Owners : v # w => proc'[v] = proc[v]
      /\ proc'[w].handler = "recording" /\ proc'[w].verdict = verdict
      /\ proc'[w].job = i /\ proc'[w].unit = U /\ proc'[w].todo = proc[w].todo
  BY <1>2, ProcsType
<1>4. /\ jobs' = jobs /\ rows' = rows /\ late' = late
      /\ \A v \in Owners : v # w => proc'[v] = proc[v]
      /\ proc'[w].handler = "recording" /\ proc'[w].verdict = verdict
      /\ proc'[w].job = i /\ proc'[w].unit = U /\ proc'[w].todo = proc[w].todo
  BY <1>a, <1>b
<1>5. accepted'[j][k] = IF j = i /\ k \in S THEN accepted[j][k] + 1 ELSE accepted[j][k]
  BY <1>2, <1>3, AcceptedItem, ItemFacts DEF TrueReceipt
<1>6. \A v \in Owners : InFlight(v, j, k)' => InFlight(v, j, k)
  BY <1>3, <1>4 DEF InFlight
<1>7. \A v \in Owners : Pending(v, j, k)' => Pending(v, j, k)
  BY <1>3, <1>4 DEF Pending, Active, Owning
<1>8. CASE j = i /\ k \in U
  <2>1. InFlight(w, j, k)
    BY <1>3, <1>8 DEF InFlight
  <2>2. /\ Reserved(rows[j][k]) /\ accepted[j][k] = 0
        /\ \A v \in Owners : InFlight(v, j, k) => v = w
        /\ \A c \in late : ~Unrecorded(c, j, k)
        /\ \A v \in Owners : ~Pending(v, j, k)
    BY <1>3, <2>1, ItemFacts DEF OneAttempt, NoAttempt
  <2>3. Truthful(verdict[k], accepted'[j][k])
    BY <1>3, <1>5, <1>8, <2>2, VerdictTruth DEF Truthful
  <2>4. OneAttempt(j, k)'
    BY <1>4, <1>6, <1>7, <2>2, <2>3 DEF OneAttempt, Reserved, Unrecorded, Truthful
  <2>5. TrueReceipt(j, k)'
    BY <1>4, <1>5, <2>2 DEF TrueReceipt, Reserved, Store!Sent
  <2>. QED
    BY <2>4, <2>5
<1>9. CASE ~(j = i /\ k \in U)
  <2>1. accepted'[j][k] = accepted[j][k]
    BY <1>5, <1>9
  <2>2. ~InFlight(w, j, k)
    BY <1>9 DEF InFlight
  <2>3. OneAttempt(j, k)'
    BY <1>4, <1>6, <1>7, <2>1, <2>2, ItemFacts
    DEF OneAttempt, NoAttempt, Reserved, Unrecorded, Truthful
  <2>4. TrueReceipt(j, k)'
    BY <1>4, <2>1, ItemFacts DEF TrueReceipt, Store!Sent
  <2>. QED
    BY <2>3, <2>4
<1>. QED
  BY <1>8, <1>9

(* The receipt (finalize_delivery) closes the attempt and says what the send *)
(* found.                                                                    *)
LEMMA RecordAttempt ==
  ASSUME TypeInv, AttemptInv, NEW w \in Owners, NEW i \in Keys, NEW lag \in Lags,
         Record(w, i, lag)
  PROVE  AttemptInv'
<1> DEFINE h == proc[w].job
           outcome == proc[w].verdict[i]
<1>1. CASE UNCHANGED storeVars /\ proc' = [proc EXCEPT ![w].handler = "raised"]
  BY <1>1, RaisedAttempt DEF Record
<1>2. CASE /\ Store!FinalizeDelivery(h, i, outcome, w, lag)
           /\ proc' = [proc EXCEPT
                         ![w].unit = proc[w].unit \ {i},
                         ![w].verdict = [proc[w].verdict EXCEPT ![i] = "none"],
                         ![w].failed = IF outcome = "failed"
                                         THEN proc[w].failed \cup {i} ELSE proc[w].failed,
                         ![w].handler = IF proc[w].unit \ {i} = {} THEN "ready"
                                                                   ELSE proc[w].handler]
  <2> SUFFICES ASSUME NEW j \in Jobs, NEW k \in Keys
               PROVE  OneAttempt(j, k)' /\ TrueReceipt(j, k)'
    BY DEF AttemptInv
  <2>1. /\ proc[w].handler = "recording" /\ i \in proc[w].unit /\ h \in Jobs
        /\ proc[w].verdict \in [Keys -> {"none", "success", "failed", "uncertain"}]
        /\ outcome # "none"
    BY Types DEF Record, Process, ProcessShape
  <2>2. /\ jobs' = jobs /\ accepted' = accepted /\ late' = late
        /\ \A v \in Owners : v # w => proc'[v] = proc[v]
    BY <1>2, ProcsType DEF Record, Store!FinalizeDelivery, outside
  <2>3. /\ proc'[w].job = h /\ proc'[w].todo = proc[w].todo
        /\ proc'[w].unit = proc[w].unit \ {i}
        /\ proc'[w].verdict = [proc[w].verdict EXCEPT ![i] = "none"]
        /\ proc'[w].handler \in {"ready", "recording"}
    BY <1>2, <2>1, ProcsType
  <2>4. rows'[j][k] = IF j = h /\ k = i
                        THEN [outcome |-> outcome, finalized |-> TRUE, owner |-> NoOne]
                        ELSE rows[j][k]
    BY <1>2, Types DEF Store!FinalizeDelivery, Store!TypeOK
  <2>5. \A v \in Owners : InFlight(v, j, k)' => InFlight(v, j, k) /\ ~(v = w /\ k = i)
    BY <2>1, <2>2, <2>3 DEF InFlight
  <2>6. \A v \in Owners : Pending(v, j, k)' => Pending(v, j, k)
    BY <2>1, <2>2, <2>3 DEF Pending, Active, Owning
  <2>7. CASE j = h /\ k = i
    <3>1. InFlight(w, j, k)
      BY <2>1, <2>7 DEF InFlight
    <3>2. /\ Truthful(outcome, accepted[j][k])
          /\ \A v \in Owners : InFlight(v, j, k) => v = w
          /\ \A c \in late : ~Unrecorded(c, j, k)
          /\ \A v \in Owners : ~Pending(v, j, k)
      BY <2>1, <2>7, <3>1, ItemFacts DEF OneAttempt, NoAttempt
    <3>3. OneAttempt(j, k)'
      BY <2>2, <2>5, <2>6, <2>7, <3>2 DEF OneAttempt
    <3>4. outcome \in {"success", "failed", "uncertain"}
      BY <2>1
    <3>5. TrueReceipt(j, k)'
      BY <2>2, <2>4, <2>7, <3>2, <3>4, ItemFacts DEF TrueReceipt, Store!Sent, Truthful
    <3>. QED
      BY <3>3, <3>5
  <2>8. CASE ~(j = h /\ k = i)
    <3>1. rows'[j][k] = rows[j][k]
      BY <2>4, <2>8
    <3>2. \A v \in Owners : InFlight(v, j, k)' =>
             /\ InFlight(v, j, k)
             /\ proc'[v].handler = "recording" => proc[v].handler = "recording"
             /\ proc'[v].handler = "sending" => proc[v].handler = "sending"
             /\ proc'[v].verdict[k] = proc[v].verdict[k]
      BY <2>1, <2>2, <2>3, <2>5, <2>8 DEF InFlight
    <3>3. OneAttempt(j, k)'
      BY <2>2, <2>6, <3>1, <3>2, ItemFacts DEF OneAttempt, NoAttempt, Reserved, Unrecorded, Truthful
    <3>4. TrueReceipt(j, k)'
      BY <2>2, <3>1, ItemFacts DEF TrueReceipt, Store!Sent
    <3>. QED
      BY <3>3, <3>4
  <2>. QED
    BY <2>7, <2>8
<1>. QED
  BY <1>1, <1>2 DEF Record

(* A cancelled handler leaves at most one thing behind: a send that Telegram *)
(* may still accept, or a call that may still commit.                        *)
LEMMA CancelledAttempt ==
  ASSUME TypeInv, AttemptInv, NEW w \in Owners, NEW lag \in Lags, HandlerCancelled(w, lag)
  PROVE  AttemptInv'
<1> DEFINE i == proc[w].job
           U == proc[w].unit
<1>1. /\ jobs' = jobs /\ rows' = rows
      /\ \A v \in Owners : v # w => proc'[v] = proc[v]
      /\ ~Active(w)' /\ ~(proc'[w].handler \in {"sending", "recording"})
  BY ProcsType DEF HandlerCancelled, Active, storeVars
<1>2. \/ accepted' = accepted
      \/ proc[w].handler = "sending" /\ \E S \in (SUBSET U) \ {{}} : Accept(i, S)
  BY Zenon DEF HandlerCancelled
<1>3. late' = late \/ \E c \in Abandoned(w, lag) : late' = late \cup {c}
  BY Zenon DEF HandlerCancelled
<1>4. i \in Jobs /\ U \in SUBSET Keys
  BY Types DEF HandlerCancelled, Active, Process, ProcessShape
<1>5. NoNewOwner /\ \A v \in Owners : Calm(v)
  BY <1>1 DEF NoNewOwner, Calm, Active, Owning
<1>6. CASE accepted' = accepted /\ \A c \in late' : c.op = "finalize" => c \in late
  BY <1>1, <1>5, <1>6, QuietStep
<1>7. ASSUME proc[w].handler = "sending", NEW S \in SUBSET U, Accept(i, S)
      PROVE  AttemptInv'
  <2> SUFFICES ASSUME NEW j \in Jobs, NEW k \in Keys
               PROVE  OneAttempt(j, k)' /\ TrueReceipt(j, k)'
    BY DEF AttemptInv
  <2>1. late' = late
    BY <1>3, <1>7 DEF Abandoned
  <2>2. \A v \in Owners : InFlight(v, j, k)' => v # w /\ InFlight(v, j, k)
    BY <1>1 DEF InFlight
  <2>3. \A v \in Owners : Pending(v, j, k)' => Pending(v, j, k)
    BY <1>1 DEF Pending, Active, Owning
  <2>4. accepted'[j][k] = IF j = i /\ k \in S THEN accepted[j][k] + 1 ELSE accepted[j][k]
    BY <1>4, <1>7, AcceptedItem, ItemFacts DEF TrueReceipt
  <2>5. CASE j = i /\ k \in S
    <3>1. InFlight(w, j, k)
      BY <1>7, <2>5 DEF InFlight
    <3>2. /\ Reserved(rows[j][k]) /\ accepted[j][k] = 0
          /\ \A v \in Owners : InFlight(v, j, k) => v = w
          /\ \A c \in late : ~Unrecorded(c, j, k)
          /\ \A v \in Owners : ~Pending(v, j, k)
      BY <1>7, <3>1, ItemFacts DEF OneAttempt, NoAttempt
    <3>3. OneAttempt(j, k)'
      BY <2>1, <2>2, <2>3, <3>2 DEF OneAttempt
    <3>4. TrueReceipt(j, k)'
      BY <1>1, <2>4, <2>5, <3>2 DEF TrueReceipt, Reserved, Store!Sent
    <3>. QED
      BY <3>3, <3>4
  <2>6. CASE ~(j = i /\ k \in S)
    <3>1. accepted'[j][k] = accepted[j][k]
      BY <2>4, <2>6
    <3>2. OneAttempt(j, k)'
      BY <1>1, <2>1, <2>2, <2>3, <3>1, ItemFacts
      DEF OneAttempt, NoAttempt, Reserved, Unrecorded, Truthful
    <3>3. TrueReceipt(j, k)'
      BY <1>1, <3>1, ItemFacts DEF TrueReceipt, Store!Sent
    <3>. QED
      BY <3>2, <3>3
  <2>. QED
    BY <2>5, <2>6
<1>8. ASSUME proc[w].handler = "recording", accepted' = accepted, NEW h \in U,
             late' = late \cup {[op |-> "finalize", owner |-> w, job |-> i, keys |-> {h},
                                 outcome |-> proc[w].verdict[h], lag |-> lag]}
      PROVE  AttemptInv'
  <2> DEFINE new == [op |-> "finalize", owner |-> w, job |-> i, keys |-> {h},
                     outcome |-> proc[w].verdict[h], lag |-> lag]
  <2> SUFFICES ASSUME NEW j \in Jobs, NEW k \in Keys
               PROVE  OneAttempt(j, k)' /\ TrueReceipt(j, k)'
    BY DEF AttemptInv
  <2>1. \A v \in Owners : InFlight(v, j, k)' => v # w /\ InFlight(v, j, k)
    BY <1>1 DEF InFlight
  <2>2. \A v \in Owners : Pending(v, j, k)' => Pending(v, j, k)
    BY <1>1 DEF Pending, Active, Owning
  <2>3. TrueReceipt(j, k)'
    BY <1>1, <1>8, ItemFacts DEF TrueReceipt, Store!Sent
  <2>4. Unrecorded(new, j, k) <=> j = i /\ k = h
    BY DEF Unrecorded
  <2>5. CASE j = i /\ k = h
    <3>1. InFlight(w, j, k)
      BY <1>8, <2>5 DEF InFlight
    <3>2. /\ Reserved(rows[j][k]) /\ Truthful(proc[w].verdict[k], accepted[j][k])
          /\ \A v \in Owners : InFlight(v, j, k) => v = w
          /\ \A c \in late : ~Unrecorded(c, j, k)
          /\ \A v \in Owners : ~Pending(v, j, k)
      BY <1>8, <3>1, ItemFacts DEF OneAttempt, NoAttempt
    <3>3. \A c \in late' : Unrecorded(c, j, k) => c = new
      BY <1>8, <3>2
    <3>4. new.outcome = proc[w].verdict[k]
      BY <2>5
    <3>5. OneAttempt(j, k)'
      BY <1>1, <1>8, <2>1, <2>2, <3>2, <3>3, <3>4 DEF OneAttempt, Reserved, Truthful, Unrecorded
    <3>. QED
      BY <2>3, <3>5
  <2>6. CASE ~(j = i /\ k = h)
    <3>1. \A c \in late' : Unrecorded(c, j, k) => c \in late
      BY <1>8, <2>4, <2>6
    <3>2. OneAttempt(j, k)'
      BY <1>1, <1>8, <2>1, <2>2, <3>1, ItemFacts
      DEF OneAttempt, NoAttempt, Reserved, Unrecorded, Truthful
    <3>. QED
      BY <2>3, <3>2
  <2>. QED
    BY <2>5, <2>6
<1>9. CASE proc[w].handler = "recording"
  <2>1. accepted' = accepted
    BY <1>2, <1>9
  <2>. QED
    BY <1>3, <1>6, <1>8, <1>9, <2>1 DEF Abandoned
<1>10. CASE proc[w].handler # "recording"
  <2>1. \A c \in late' : c.op = "finalize" => c \in late
    BY <1>3, <1>10 DEF Abandoned
  <2>. QED
    BY <1>2, <1>6, <1>7, <2>1
<1>. QED
  BY <1>9, <1>10


(* What a late call does to the deliveries when it commits at last: it       *)
(* reserves again what was not settled, or closes the only open attempt.     *)
LEMMA LateAttempt ==
  ASSUME TypeInv, AttemptInv, NEW c \in late, LateCommit(c)
  PROVE  AttemptInv'
<1>1. /\ proc' = proc /\ accepted' = accepted /\ late' = late \ {c}
  BY DEF LateCommit
<1>2. /\ c.job \in Jobs /\ c.owner \in Owners /\ c.keys \in SUBSET Keys
      /\ c.outcome \in {"none", "success", "failed", "uncertain"}
      /\ LateShape(c)
  BY Types DEF LateCall
<1>3. \A v \in Owners : Calm(v)
  BY <1>1 DEF Calm
<1>4. ASSUME rows' = rows, KeepsOwners PROVE AttemptInv'
  BY <1>1, <1>3, <1>4, QuietStep DEF KeepsOwners, NoNewOwner
<1>5. CASE c.op = "begin" /\ Store!BeginDelivery(c.job, c.keys, c.owner, c.lag)
  <2> SUFFICES ASSUME NEW j \in Jobs, NEW k \in Keys
               PROVE  OneAttempt(j, k)' /\ TrueReceipt(j, k)'
    BY DEF AttemptInv
  <2>1. jobs' = jobs
    BY <1>5 DEF Store!BeginDelivery
  <2>2. \/ rows'[j][k] = rows[j][k]
        \/ /\ ~Store!Settled(rows[j][k])
           /\ rows'[j][k] = [outcome |-> "uncertain", finalized |-> FALSE, owner |-> c.owner]
    BY <1>2, <1>5, Types DEF Store!BeginDelivery, Store!CanBegin, Store!TypeOK
  <2>3. Reserved(rows[j][k]) => Reserved(rows'[j][k])
    BY <2>2 DEF Reserved
  <2>4. Store!Sent(rows[j][k]) => Store!Sent(rows'[j][k])
    BY <2>2 DEF Store!Sent
  <2>5. rows'[j][k].outcome = "success" => rows[j][k].outcome = "success"
    BY <2>2
  <2>6. OneAttempt(j, k)'
    BY <1>1, <2>1, <2>3, ItemFacts
    DEF OneAttempt, NoAttempt, InFlight, Pending, Active, Owning, Unrecorded, Reserved, Truthful
  <2>7. TrueReceipt(j, k)'
    BY <1>1, <2>4, <2>5, ItemFacts DEF TrueReceipt, Store!Sent
  <2>. QED
    BY <2>6, <2>7
<1>6. ASSUME c.op = "finalize", NEW i \in c.keys,
             Store!FinalizeDelivery(c.job, i, c.outcome, c.owner, c.lag)
      PROVE  AttemptInv'
  <2> SUFFICES ASSUME NEW j \in Jobs, NEW k \in Keys
               PROVE  OneAttempt(j, k)' /\ TrueReceipt(j, k)'
    BY DEF AttemptInv
  <2>1. jobs' = jobs /\ i \in Keys /\ c.outcome \in {"success", "failed", "uncertain"}
    BY <1>2, <1>6 DEF Store!FinalizeDelivery, LateShape
  <2>2. rows'[j][k] = IF j = c.job /\ k = i
                        THEN [outcome |-> c.outcome, finalized |-> TRUE, owner |-> NoOne]
                        ELSE rows[j][k]
    BY <1>2, <1>6, <2>1, Types DEF Store!FinalizeDelivery, Store!TypeOK
  <2>3. CASE j = c.job /\ k = i
    <3>1. Unrecorded(c, j, k)
      BY <1>6, <2>3 DEF Unrecorded
    <3>2. /\ \A v \in Owners : ~InFlight(v, j, k) /\ ~Pending(v, j, k)
          /\ \A d \in late : Unrecorded(d, j, k) => d = c
          /\ Truthful(c.outcome, accepted[j][k])
      BY <3>1, ItemFacts DEF OneAttempt, NoAttempt
    <3>3. \A v \in Owners : ~InFlight(v, j, k)' /\ ~Pending(v, j, k)'
      BY <1>1, <2>1, <3>2 DEF InFlight, Pending, Active, Owning
    <3>4. \A d \in late' : ~Unrecorded(d, j, k)
      BY <1>1, <3>2
    <3>5. OneAttempt(j, k)'
      BY <3>3, <3>4 DEF OneAttempt, Unrecorded
    <3>6. TrueReceipt(j, k)'
      BY <1>1, <2>1, <2>2, <2>3, <3>2, ItemFacts DEF TrueReceipt, Store!Sent, Truthful
    <3>. QED
      BY <3>5, <3>6
  <2>4. CASE ~(j = c.job /\ k = i)
    <3>1. rows'[j][k] = rows[j][k]
      BY <2>2, <2>4
    <3>2. OneAttempt(j, k)'
      BY <1>1, <2>1, <3>1, ItemFacts
      DEF OneAttempt, NoAttempt, InFlight, Pending, Active, Owning, Unrecorded, Reserved, Truthful
    <3>3. TrueReceipt(j, k)'
      BY <1>1, <3>1, ItemFacts DEF TrueReceipt, Store!Sent
    <3>. QED
      BY <3>2, <3>3
  <2>. QED
    BY <2>3, <2>4
<1>7. CASE c.op = "checkpoint" /\ Store!Checkpoint(c.job, c.owner, c.lag)
  <2>1. rows' = rows /\ KeepsOwners
    BY <1>2, <1>7, KeptOwners DEF Store!Checkpoint, Store!Transition
  <2>. QED
    BY <1>4, <2>1
<1>8. CASE UNCHANGED storeVars
  BY <1>4, <1>8 DEF storeVars, KeepsOwners, Owning
<1>. QED
  BY <1>5, <1>6, <1>7, <1>8 DEF LateCommit

(* Time changes no delivery and no attempt at one.                           *)
LEMMA TickAttempt ==
  ASSUME TypeInv, AttemptInv, Tick
  PROVE  AttemptInv'
<1> SUFFICES ASSUME NEW j \in Jobs, NEW k \in Keys
             PROVE  OneAttempt(j, k)' /\ TrueReceipt(j, k)'
  BY DEF AttemptInv
<1>1. /\ proc' = proc /\ accepted' = accepted /\ rows' = rows
      /\ late' = {Aged(c) : c \in late}
      /\ KeepsOwners
  BY TimeKeepsOwners DEF Tick, Store!Tick, Aged
<1>2. \A c \in late : /\ Unrecorded(Aged(c), j, k) <=> Unrecorded(c, j, k)
                      /\ Aged(c).outcome = c.outcome
  BY Types, AgedCall DEF Unrecorded
<1>3. \A v \in Owners : Pending(v, j, k)' => Pending(v, j, k)
  BY <1>1 DEF Pending, Active, KeepsOwners
<1>4. \A v \in Owners : InFlight(v, j, k)' => InFlight(v, j, k)
  BY <1>1 DEF InFlight
<1>5. \A d \in late' : Unrecorded(d, j, k) =>
        \E c \in late : d = Aged(c) /\ Unrecorded(c, j, k) /\ d.outcome = c.outcome
  BY <1>1, <1>2
<1>6. OneAttempt(j, k)'
  BY <1>1, <1>3, <1>4, <1>5, ItemFacts DEF OneAttempt, NoAttempt, Reserved, Truthful, Unrecorded
<1>7. TrueReceipt(j, k)'
  BY <1>1, ItemFacts DEF TrueReceipt, Store!Sent
<1>. QED
  BY <1>6, <1>7

(* The webhook touches no delivery.                                          *)
LEMMA WebhookAttempt ==
  ASSUME TypeInv, AttemptInv, NEW j \in Jobs, Webhook(j)
  PROVE  AttemptInv'
<1>1. proc' = proc /\ accepted' = accepted /\ late' = late
  BY DEF Webhook, WebhookStore, WebhookAnswer
<1>2. rows' = rows /\ (Store!AcceptUpdate(j) \/ UNCHANGED jobs)
  BY DEF Webhook, WebhookStore, WebhookAnswer, Store!AcceptUpdate, storeVars
<1>3. NoNewOwner
  BY <1>2, KeptOwners DEF KeepsOwners, NoNewOwner
<1>4. \A v \in Owners : Calm(v)
  BY <1>1 DEF Calm
<1>. QED
  BY <1>1, <1>2, <1>3, <1>4, QuietStep

(* A handler that starts over has read nothing and sends nothing yet.        *)
LEMMA RedeliverAttempt ==
  ASSUME TypeInv, AttemptInv, NEW w \in Owners, Redeliver(w)
  PROVE  AttemptInv'
<1>1. NoNewOwner
  BY DEF Redeliver, NoNewOwner, Owning, storeVars
<1>2. proc'[w].handler = "reading" /\ proc'[w].todo = {}
  BY ProcsType, Types DEF Redeliver
<1>3. \A v \in Owners : v # w => proc'[v] = proc[v]
  BY ProcsType DEF Redeliver
<1>4. \A v \in Owners : Calm(v)
  BY <1>2, <1>3 DEF Calm
<1>. QED
  BY <1>1, <1>4, QuietStep DEF Redeliver, storeVars, outside

(* A handler that comes to its end, with or without an error, sends nothing. *)
LEMMA HandlerEndAttempt ==
  ASSUME TypeInv, AttemptInv, NEW w \in Owners, HandlerReturns(w) \/ HandlerRaises(w)
  PROVE  AttemptInv'
<1>1. UNCHANGED <<storeVars, outside>>
  BY DEF HandlerReturns, HandlerRaises
<1>2. NoNewOwner
  BY <1>1 DEF NoNewOwner, Owning, storeVars
<1>3. /\ proc'[w].handler \in {"returned", "raised"}
      /\ \A v \in Owners : v # w => proc'[v] = proc[v]
  <2>1. CASE HandlerReturns(w)
    BY <2>1, ProcsType DEF HandlerReturns
  <2>2. CASE HandlerRaises(w)
    BY <2>2, ProcsType DEF HandlerRaises
  <2>. QED
    BY <2>1, <2>2
<1>4. \A v \in Owners : Calm(v)
  BY <1>3 DEF Calm, Active
<1>. QED
  BY <1>1, <1>2, <1>4, QuietStep DEF storeVars, outside

(* Nothing is reserved, in flight or accepted at the start.                  *)
LEMMA InitAttempt == Init => AttemptInv
<1> SUFFICES ASSUME Init, NEW j \in Jobs, NEW k \in Keys
             PROVE  OneAttempt(j, k) /\ TrueReceipt(j, k)
  BY DEF AttemptInv
<1>1. \A w \in Owners : ~InFlight(w, j, k) /\ ~Active(w)
  BY DEF Init, Idle, InFlight, Active
<1>2. late = {} /\ accepted[j][k] = 0 /\ rows[j][k].outcome = "none"
  BY DEF Init, Store!Init, Store!NoRow
<1>3. OneAttempt(j, k)
  BY <1>1, <1>2 DEF OneAttempt, Pending
<1>4. TrueReceipt(j, k)
  BY <1>2 DEF TrueReceipt
<1>. QED
  BY <1>3, <1>4

(* Every step keeps one attempt for each item, and the receipts true.        *)
LEMMA NextAttempt == TypeInv /\ AttemptInv /\ [Next]_vars => AttemptInv'
<1> SUFFICES ASSUME TypeInv, AttemptInv, [Next]_vars PROVE AttemptInv'
  OBVIOUS
<1>1. ASSUME NEW w \in Owners, Handler(w) PROVE AttemptInv'
  BY <1>1, ReadPriorAttempt, SendAttempt, RedeliverAttempt, HandlerEndAttempt, ReserveAttempt,
     RecordAttempt, CancelledAttempt
  DEF Handler
<1>2. ASSUME Still, NoNewOwner, \A v \in Owners : Calm(v) PROVE AttemptInv'
  BY <1>2, QuietStep DEF Still
<1>3. CASE UNCHANGED vars
  <2>1. Still /\ NoNewOwner /\ \A v \in Owners : Calm(v)
    BY <1>3 DEF vars, Still, NoNewOwner, Owning, Calm
  <2>. QED
    BY <1>2, <2>1
<1>. QED
  BY <1>1, <1>2, <1>3, SupervisorQuiet, OtherQuiet, LateAttempt, TickAttempt, WebhookAttempt
  DEF Next

(* So there is at most one open attempt for each item, in every state.       *)
LEMMA AttemptInvariant == Spec => []AttemptInv
<1>1. Init => AttemptInv
  BY InitAttempt
<1>2. TypeInv /\ AttemptInv /\ [Next]_vars => AttemptInv'
  BY NextAttempt
<1>. QED
  BY <1>1, <1>2, TypeInvariant, PTL DEF Spec

(* Telegram accepts each item of an update at most once, however processes   *)
(* crash, overlap, stall past their lease, are cancelled or commit late: the *)
(* reservation before each send (delivery.py, deliver) outlives all of it.   *)
THEOREM ItemsSentOnce == Spec => []AtMostOnce
<1>1. AttemptInv => AtMostOnce
  BY DEF AttemptInv, AtMostOnce, TrueReceipt
<1>. QED
  BY <1>1, AttemptInvariant, PTL

-----------------------------------------------------------------------------
(* True receipts. *)

(* No transaction removes a job, or the record of an attempt at an item.     *)
LEMMA NothingForgotten ==
  ASSUME TypeInv, Store!Next, NEW j \in Jobs
  PROVE  /\ jobs[j].state # "absent" => jobs'[j].state # "absent"
         /\ \A k \in Keys : rows[j][k].outcome # "none" => rows'[j][k].outcome # "none"
<1> DEFINE Kept == /\ jobs[j].state # "absent" => jobs'[j].state # "absent"
                   /\ \A k \in Keys : rows[j][k].outcome # "none" => rows'[j][k].outcome # "none"
<1>a. jobs \in [Jobs -> Store!Job] /\ rows \in [Jobs -> [Keys -> Store!Row]]
  BY Types DEF Store!TypeOK
<1> USE <1>a
<1>1. ASSUME NEW i \in Jobs, Store!AcceptUpdate(i) PROVE Kept
  BY <1>1 DEF Store!AcceptUpdate, Store!NewJob, Store!Job
<1>2. ASSUME NEW o \in Owners, NEW lag \in Store!Lags, Store!OwnerStep(o, lag) PROVE Kept
  <2>1. CASE Store!AcquireWorker(o, lag) \/ Store!RenewWorker(o, lag) \/ Store!ClaimNothing(o, lag)
    BY <2>1 DEF Store!AcquireWorker, Store!RenewWorker, Store!ClaimNothing
  <2>2. ASSUME NEW i \in Jobs, Store!ClaimNext(o, i, lag) PROVE Kept
    BY <2>2 DEF Store!ClaimNext, Store!Job
  <2>3. ASSUME NEW i \in Jobs, Store!RenewClaim(i, o, lag) PROVE Kept
    BY <2>3 DEF Store!RenewClaim, Store!Job
  <2>4. ASSUME NEW i \in Jobs, NEW state \in {"checkpointed", "completed", "failed"},
               Store!Transition(i, o, state, lag)
        PROVE  Kept
    BY <2>4 DEF Store!Transition, Store!Job
  <2>5. ASSUME NEW i \in Jobs, NEW K, Store!BeginDelivery(i, K, o, lag) PROVE Kept
    BY <2>5 DEF Store!BeginDelivery
  <2>6. ASSUME NEW i \in Jobs, NEW h \in Keys, NEW outcome \in Store!DeliveryOutcome,
               Store!FinalizeDelivery(i, h, outcome, o, lag)
        PROVE  Kept
    BY <2>6 DEF Store!FinalizeDelivery, Store!DeliveryOutcome
  <2>7. ASSUME NEW i \in Jobs, NEW s \in Jobs, Store!SupersedeFailed(i, s, o, lag) PROVE Kept
    BY <2>7 DEF Store!SupersedeFailed, Store!Job
  <2>. QED
    BY <1>2, <2>1, <2>2, <2>3, <2>4, <2>5, <2>6, <2>7
    DEF Store!OwnerStep, Store!Checkpoint, Store!Complete, Store!Fail
<1>3. ASSUME NEW o \in Owners, Store!ReleaseWorker(o) PROVE Kept
  BY <1>3 DEF Store!ReleaseWorker
<1>4. ASSUME NEW S, Store!RequeueFailed(S) PROVE Kept
  BY <1>4 DEF Store!RequeueFailed, Store!Job
<1>5. ASSUME NEW S, Store!PurgeExpired(S) PROVE Kept
  BY <1>5 DEF Store!PurgeExpired, Store!Job
<1>6. CASE Store!Tick
  BY <1>6 DEF Store!Tick, Store!Job
<1>7. ASSUME NEW i \in Jobs, Store!RetentionEnds(i) PROVE Kept
  BY <1>7 DEF Store!RetentionEnds, Store!Job
<1>. QED
  BY <1>1, <1>2, <1>3, <1>4, <1>5, <1>6, <1>7 DEF Store!Next

\* What the webhook answers for is in the inbox.
PostInv == \A j \in Jobs : post[j] # "waiting" => jobs[j].state # "absent"

(* A step answers only for what it or an earlier one stored (routes.py); a    *)
(* crash loses an answer, never a job.                                       *)
LEMMA NextPost == TypeInv /\ PostInv /\ [Next]_vars => PostInv'
<1> SUFFICES ASSUME TypeInv, PostInv, [Next]_vars, NEW j \in Jobs,
                    post'[j] # "waiting"
             PROVE  jobs'[j].state # "absent"
  BY DEF PostInv
<1>0. post \in [Jobs -> {"waiting", "stored", "acked"}] /\ jobs \in [Jobs -> Store!Job]
  BY JobsType DEF TypeInv, TypeOK
<1>1. jobs[j].state # "absent" => jobs'[j].state # "absent"
  <2>1. CASE Store!Next
    BY <2>1, NothingForgotten
  <2>. QED
    BY <2>1, StoreStep DEF storeVars
<1>2. CASE post[j] # "waiting"
  BY <1>1, <1>2 DEF PostInv
<1>3. CASE post[j] = "waiting"
  <2>1. ASSUME NEW i \in Jobs, Webhook(i) PROVE jobs'[j].state # "absent"
    <3>1. WebhookStore(i)
      BY <1>0, <1>3, <2>1 DEF Webhook, WebhookAnswer
    <3>2. i = j
      BY <1>0, <1>3, <3>1 DEF WebhookStore
    <3>3. CASE Store!AcceptUpdate(j)
      BY <1>0, <3>3 DEF Store!AcceptUpdate, Store!NewJob
    <3>. QED
      BY <1>1, <3>1, <3>2, <3>3 DEF WebhookStore
  <2>2. ASSUME NEW w \in Owners, Supervisor(w) PROVE post'[j] = post[j]
    BY <2>2 DEF Supervisor, RequeueStartupFailures, ReleaseAfterError, ReadFailures, Start, Claim,
                ClaimNothing, RenewIdle, Reacquire, StartJob, SettleLost, SettleStopped,
                SettleRaised, SettleReturned, outside
  <2>3. ASSUME NEW w \in Owners, Handler(w) PROVE post'[j] = post[j]
    BY <2>3 DEF Handler, ReadPrior, Send, Redeliver, HandlerReturns, HandlerRaises, Reserve,
                Record, HandlerCancelled, outside
  <2>4. ASSUME NEW w \in Owners, Heartbeat(w) \/ Shutdown(w) \/ StoreError(w)
                                 \/ ReadFailuresError(w) \/ Drain(w)
        PROVE  post'[j] = post[j]
    BY <2>4 DEF Heartbeat, BeatWorker, BeatClaim, BeatLost, Shutdown, DrainCancel, Stop, Exit,
                StoreError, ReadFailuresError, Drain, outside
  <2>5. ASSUME NEW w \in Owners, Crash(w) PROVE post'[j] = "waiting"
    BY <1>3, <2>5 DEF Crash
  <2>6. (\E c \in late : LateCommit(c)) \/ Tick \/ UNCHANGED vars => post'[j] = post[j]
    BY DEF LateCommit, Tick, vars
  <2>. QED
    BY <1>3, <2>1, <2>2, <2>3, <2>4, <2>5, <2>6 DEF Next
<1>. QED
  BY <1>2, <1>3

(* Both receipts are true in every state: what Telegram was told is received  *)
(* is in the inbox, and a stored delivery row neither misses nor denies what *)
(* Telegram accepted, and claims no more (routes.py; job_store.py,           *)
(* finalize_delivery).                                                       *)
THEOREM ReceiptsTrue == Spec => []ReceiptsAreTrue
<1>1. Init => PostInv
  BY DEF Init, PostInv
<1>2. Spec => []PostInv
  BY <1>1, NextPost, TypeInvariant, PTL DEF Spec
<1>3. TypeInv /\ AttemptInv /\ PostInv => ReceiptsAreTrue
  BY DEF TypeInv, AttemptInv, PostInv, ReceiptsAreTrue, TrueReceipt
<1>. QED
  BY <1>2, <1>3, TypeInvariant, AttemptInvariant, PTL

-----------------------------------------------------------------------------
(* Nothing is skipped. *)

\* The handler is over, and the worker takes the job for finished.
Done(w) ==
    \/ proc[w].handler \in {"failing", "completing"}
    \/ proc[w].handler = "returned" /\ ~proc[w].cancel

\* What w has not on its lists was tried; at the end that is everything.
Tried(w) ==
    LET was(k) == rows[proc[w].job][k].outcome # "none" IN
    /\ Active(w) => \A k \in Keys : k \in proc[w].unread \cup proc[w].todo \/ was(k)
    /\ Done(w) => \A k \in Keys : was(k)

TriedInv == CompletedMeansTried /\ \A w \in Owners : Tried(w)

\* The step takes nothing off the lists of w and does not end its handler well.
Steady(w) ==
    \/ ~Active(w)' /\ ~Done(w)'
    \/ ~Done(w)' /\ proc'[w].unread = Keys
    \/ /\ proc'[w].job = proc[w].job
       /\ proc'[w].unread = proc[w].unread
       /\ proc'[w].todo = proc[w].todo
       /\ Active(w)' => Active(w)
       /\ Done(w)' => Done(w)

(* The job of a handler at work.                                             *)
LEMMA HandlerJob ==
  ASSUME TypeInv, NEW w \in Owners, Active(w) \/ Done(w)
  PROVE  proc[w].job \in Jobs
  BY Types DEF Active, Done, ProcessShape

(* The record of an attempt stays, so a steady step skips nothing.           *)
LEMMA SteadyStep ==
  ASSUME TypeInv, [Next]_vars, NEW w \in Owners, Tried(w), Steady(w)
  PROVE  Tried(w)'
<1>1. \A j \in Jobs, k \in Keys : rows[j][k].outcome # "none" => rows'[j][k].outcome # "none"
  BY StoreStep, NothingForgotten DEF storeVars
<1>2. CASE ~Active(w)' /\ ~Done(w)'
  BY <1>2 DEF Tried
<1>3. CASE ~Done(w)' /\ proc'[w].unread = Keys
  BY <1>3 DEF Tried
<1>4. CASE /\ proc'[w].job = proc[w].job
           /\ proc'[w].unread = proc[w].unread
           /\ proc'[w].todo = proc[w].todo
           /\ Active(w)' => Active(w)
           /\ Done(w)' => Done(w)
  <2>1. Active(w)' \/ Done(w)' => proc[w].job \in Jobs
    BY <1>4, HandlerJob
  <2>. QED
    BY <1>1, <1>4, <2>1 DEF Tried
<1>. QED
  BY <1>2, <1>3, <1>4 DEF Steady

(* A process that a step leaves alone is steady.                             *)
LEMMA SameSteady ==
  ASSUME NEW w \in Owners, proc'[w] = proc[w]
  PROVE  Steady(w)
  BY DEF Steady, Active, Done

(* After(w, phase) ends the handler of w.                                    *)
LEMMA AfterSteady ==
  ASSUME TypeInv, NEW w \in Owners, NEW phase, After(w, phase)
  PROVE  Steady(w)
<1>1. proc'[w].handler = "idle"
  BY ProcsType DEF After, Idle
<1>. QED
  BY <1>1 DEF Steady, Active, Done

(* The worker loop takes a job for finished only when its handler returned    *)
(* without having been cancelled (drain.py, _process_job).                   *)
LEMMA SupervisorTried ==
  ASSUME TypeInv, [Next]_vars, NEW w \in Owners, Tried(w), Supervisor(w)
  PROVE  Tried(w)'
<1> USE Types, ProcsType
<1>1. ASSUME NEW phase, proc' = [proc EXCEPT ![w].phase = phase] PROVE Steady(w)
  BY <1>1 DEF Steady, Active, Done
<1>2. CASE RequeueStartupFailures(w) \/ ReleaseAfterError(w)
  BY <1>1, <1>2, SteadyStep DEF RequeueStartupFailures, ReleaseAfterError
<1>3. CASE ReadFailures(w)
  <2>1. ~proc[w].cancel /\ Done(w)
    BY <1>3 DEF ReadFailures, Stopped, Done, ProcessShape
  <2>2. /\ proc'[w].handler \in {"failing", "completing"}
        /\ proc'[w].job = proc[w].job
        /\ rows' = rows
    BY <1>3 DEF ReadFailures, storeVars
  <2>. QED
    BY <2>1, <2>2 DEF Tried, Active
<1>4. ASSUME NEW lag \in Lags, \/ Start(w, lag) \/ ClaimNothing(w, lag)
                              \/ RenewIdle(w, lag) \/ Reacquire(w, lag)
      PROVE  Tried(w)'
  <2>1. \E phase : proc' = [proc EXCEPT ![w].phase = phase]
    BY <1>4 DEF Start, ClaimNothing, RenewIdle, Reacquire
  <2>. QED
    BY <1>1, <2>1, SteadyStep
<1>5. ASSUME NEW lag \in Lags, Claim(w, lag) PROVE Tried(w)'
  <2>1. proc'[w].handler = "idle"
    BY <1>5 DEF Claim, ProcessShape
  <2>. QED
    BY <2>1 DEF Tried, Active, Done
<1>6. ASSUME NEW lag \in Lags, StartJob(w, lag) PROVE Tried(w)'
  <2>1. CASE proc' = [proc EXCEPT ![w].phase = "working", ![w].beat = "beating",
                                  ![w].handler = "reading", ![w].unread = Keys]
    BY <2>1 DEF Tried, Active, Done
  <2>. QED
    BY <1>6, <2>1, AfterSteady, SteadyStep DEF StartJob
<1>7. ASSUME NEW lag \in Lags, \/ SettleLost(w, lag) \/ SettleStopped(w, lag)
                              \/ SettleRaised(w, lag) \/ SettleReturned(w, lag)
      PROVE  Tried(w)'
  <2>1. \E phase : After(w, phase)
    BY <1>7 DEF SettleLost, SettleStopped, SettleRaised, SettleReturned
  <2>. QED
    BY <2>1, AfterSteady, SteadyStep
<1>. QED
  BY <1>2, <1>3, <1>4, <1>5, <1>6, <1>7 DEF Supervisor

(* deliver leaves an item only after it found or made a record of it.        *)
LEMMA HandlerTried ==
  ASSUME TypeInv, [Next]_vars, NEW w \in Owners, Tried(w), Handler(w)
  PROVE  Tried(w)'
<1>a. proc[w] \in Process /\ ProcessShape(proc[w])
  BY Types
<1>b. proc \in [Owners -> Process]
  BY ProcsType
<1>c. ASSUME proc'[w].handler \in {"raised", "cancelled"} PROVE Tried(w)'
  BY <1>c DEF Tried, Active, Done
<1>1. ASSUME NEW i \in Keys, ReadPrior(w, i) PROVE Tried(w)'
  <2>1. /\ proc'[w].handler \in {"reading", "ready"} /\ proc'[w].job = proc[w].job
        /\ proc'[w].unread = proc[w].unread \ {i} /\ proc[w].todo \subseteq proc'[w].todo
        /\ i \in proc'[w].todo \/ Store!Sent(rows[proc[w].job][i])
    BY <1>a, <1>b, <1>1 DEF ReadPrior
  <2>2. rows' = rows /\ Active(w)
    BY <1>1 DEF ReadPrior, storeVars, Active
  <2>. QED
    BY <2>1, <2>2 DEF Tried, Done, Store!Sent
<1>2. CASE Send(w)
  <2>1. \E verdict : proc' = [proc EXCEPT ![w].handler = "recording", ![w].verdict = verdict]
    BY <1>2 DEF Send
  <2>2. Steady(w)
    BY <1>2, <1>b, <2>1 DEF Send, Steady, Active, Done
  <2>. QED
    BY <2>2, SteadyStep
<1>3. CASE Redeliver(w)
  <2>1. /\ proc'[w].handler = "reading" /\ proc'[w].job = proc[w].job
        /\ rows' = rows /\ proc[w].handler = "ready"
        /\ proc[w].unread = {} /\ proc[w].todo = {}
    BY <1>a, <1>b, <1>3 DEF Redeliver, ProcessShape, storeVars
  <2>. QED
    BY <2>1 DEF Tried, Active, Done
<1>4. CASE HandlerReturns(w)
  <2>1. /\ proc'[w].handler = "returned" /\ proc'[w].job = proc[w].job
        /\ rows' = rows /\ proc[w].handler = "ready"
        /\ proc[w].unread = {} /\ proc[w].todo = {}
    BY <1>a, <1>b, <1>4 DEF HandlerReturns, ProcessShape, storeVars
  <2>. QED
    BY <2>1 DEF Tried, Active
<1>5. CASE HandlerRaises(w)
  BY <1>b, <1>c, <1>5 DEF HandlerRaises
<1>6. ASSUME NEW lag \in Lags, NEW U \in SUBSET Keys, Reserve(w, U, lag) PROVE Tried(w)'
  <2>1. CASE proc' = [proc EXCEPT ![w].handler = "raised"]
    BY <1>b, <1>c, <2>1
  <2>2. CASE /\ Store!BeginDelivery(proc[w].job, U, w, lag)
             /\ proc' = [proc EXCEPT ![w].handler = "sending", ![w].unit = U,
                                     ![w].todo = @ \ U]
    <3>1. /\ proc'[w].handler = "sending" /\ proc'[w].job = proc[w].job
          /\ proc'[w].unread = proc[w].unread /\ proc'[w].todo = proc[w].todo \ U
          /\ Active(w) /\ proc[w].job \in Jobs
      BY <1>a, <1>b, <1>6, <2>2 DEF Reserve, Active, ProcessShape
    <3>2. \A k \in Keys : rows'[proc[w].job][k].outcome =
                            IF k \in U THEN "uncertain" ELSE rows[proc[w].job][k].outcome
      BY <2>2, <3>1, Types DEF Store!BeginDelivery, Store!TypeOK
    <3>. QED
      BY <3>1, <3>2 DEF Tried, Done
  <2>. QED
    BY <1>6, <2>1, <2>2 DEF Reserve
<1>7. ASSUME NEW lag \in Lags, NEW i \in Keys, Record(w, i, lag) PROVE Tried(w)'
  <2>1. CASE proc' = [proc EXCEPT ![w].handler = "raised"]
    BY <1>b, <1>c, <2>1
  <2>2. CASE proc' = [proc EXCEPT
                        ![w].unit = proc[w].unit \ {i},
                        ![w].verdict = [proc[w].verdict EXCEPT ![i] = "none"],
                        ![w].failed = IF proc[w].verdict[i] = "failed"
                                        THEN proc[w].failed \cup {i} ELSE proc[w].failed,
                        ![w].handler = IF proc[w].unit \ {i} = {} THEN "ready"
                                                                  ELSE proc[w].handler]
    <3>1. /\ proc'[w].handler \in {"ready", "recording"} /\ proc'[w].job = proc[w].job
          /\ proc'[w].unread = proc[w].unread /\ proc'[w].todo = proc[w].todo
          /\ proc[w].handler = "recording"
      BY <1>b, <1>7, <2>2 DEF Record
    <3>2. Steady(w)
      BY <3>1 DEF Steady, Active, Done
    <3>. QED
      BY <3>2, SteadyStep
  <2>. QED
    BY <1>7, <2>1, <2>2 DEF Record
<1>8. ASSUME NEW lag \in Lags, HandlerCancelled(w, lag) PROVE Tried(w)'
  <2>1. /\ proc'[w].handler \in {"cancelled", "returned", "raised"}
        /\ proc'[w].cancel
    BY <1>b, <1>8 DEF HandlerCancelled
  <2>. QED
    BY <2>1 DEF Tried, Active, Done
<1>. QED
  BY <1>1, <1>2, <1>3, <1>4, <1>5, <1>6, <1>7, <1>8 DEF Handler

(* Heartbeats, errors, deployments and crashes finish no handler.            *)
LEMMA OtherSteady ==
  ASSUME TypeInv, NEW w \in Owners,
         \/ Heartbeat(w) \/ Shutdown(w) \/ StoreError(w)
         \/ ReadFailuresError(w) \/ Drain(w) \/ Crash(w)
  PROVE  Steady(w)
<1> USE ProcsType
<1>1. ASSUME NEW lag \in Lags, BeatWorker(w, lag) \/ BeatClaim(w, lag) \/ BeatLost(w, lag)
      PROVE  Steady(w)
  <2>1. CASE UNCHANGED proc
    BY <2>1, SameSteady
  <2>2. CASE proc' = [proc EXCEPT ![w].beat = "lost", ![w].cancel = TRUE]
    BY <2>2 DEF Steady, Active, Done
  <2>. QED
    BY <1>1, <2>1, <2>2 DEF BeatWorker, BeatClaim, BeatLost
<1>2. CASE DrainCancel(w)
  BY <1>2 DEF DrainCancel, Steady, Active, Done
<1>3. CASE Stop(w)
  BY <1>3 DEF Stop, Steady, Active, Done
<1>4. CASE Exit(w) \/ Crash(w)
  <2>1. proc'[w].handler = "idle"
    BY <1>4 DEF Exit, Crash, Idle
  <2>. QED
    BY <2>1 DEF Steady, Active, Done
<1>5. CASE StoreError(w)
  BY <1>5, AfterSteady DEF StoreError
<1>6. CASE ReadFailuresError(w)
  BY <1>6 DEF ReadFailuresError, Steady, Active, Done
<1>7. CASE Drain(w)
  BY <1>7 DEF Drain, Steady, Active, Done
<1>. QED
  BY <1>1, <1>2, <1>3, <1>4, <1>5, <1>6, <1>7 DEF Heartbeat, Shutdown

(* A step of one process moves no other process.                             *)
LEMMA OthersSame ==
  ASSUME TypeInv, NEW w \in Owners,
         \/ Supervisor(w) \/ Handler(w) \/ Heartbeat(w) \/ Shutdown(w)
         \/ StoreError(w) \/ ReadFailuresError(w) \/ Drain(w) \/ Crash(w),
         NEW v \in Owners, v # w
  PROVE  proc'[v] = proc[v]
<1> USE ProcsType
<1>1. CASE Supervisor(w)
  <2>1. CASE \E lag \in Lags : \/ StartJob(w, lag) \/ SettleLost(w, lag) \/ SettleStopped(w, lag)
                               \/ SettleRaised(w, lag) \/ SettleReturned(w, lag)
    BY <2>1 DEF StartJob, SettleLost, SettleStopped, SettleRaised, SettleReturned, After
  <2>2. CASE \E lag \in Lags : \/ Start(w, lag) \/ Claim(w, lag) \/ ClaimNothing(w, lag)
                               \/ RenewIdle(w, lag) \/ Reacquire(w, lag)
    BY <2>2 DEF Start, Claim, ClaimNothing, RenewIdle, Reacquire
  <2>3. CASE RequeueStartupFailures(w) \/ ReleaseAfterError(w) \/ ReadFailures(w)
    BY <2>3 DEF RequeueStartupFailures, ReleaseAfterError, ReadFailures
  <2>. QED
    BY <1>1, <2>1, <2>2, <2>3 DEF Supervisor
<1>2. CASE Handler(w)
  <2>1. CASE \/ \E k \in Keys : ReadPrior(w, k)
             \/ Redeliver(w) \/ HandlerReturns(w) \/ HandlerRaises(w)
    BY <2>1 DEF ReadPrior, Redeliver, HandlerReturns, HandlerRaises
  <2>2. CASE Send(w)
    <3>1. \E verdict : proc' = [proc EXCEPT ![w].handler = "recording", ![w].verdict = verdict]
      BY <2>2 DEF Send
    <3>. QED
      BY <3>1
  <2>3. CASE \E lag \in Lags : \E U \in SUBSET Keys : Reserve(w, U, lag)
    BY <2>3 DEF Reserve
  <2>4. CASE \E lag \in Lags : \E k \in Keys : Record(w, k, lag)
    BY <2>4 DEF Record
  <2>5. CASE \E lag \in Lags : HandlerCancelled(w, lag)
    BY <2>5 DEF HandlerCancelled
  <2>. QED
    BY <1>2, <2>1, <2>2, <2>3, <2>4, <2>5 DEF Handler
<1>3. CASE Heartbeat(w)
  BY <1>3 DEF Heartbeat, BeatWorker, BeatClaim, BeatLost, outside
<1>4. CASE Shutdown(w)
  BY <1>4 DEF Shutdown, DrainCancel, Stop, Exit
<1>5. CASE StoreError(w) \/ ReadFailuresError(w) \/ Drain(w) \/ Crash(w)
  BY <1>5 DEF StoreError, After, ReadFailuresError, Drain, Crash
<1>. QED
  BY <1>1, <1>2, <1>3, <1>4, <1>5

(* Steps outside the processes move none of them.                            *)
LEMMA ProcsSame ==
  ASSUME \/ \E j \in Jobs : Webhook(j)
         \/ \E c \in late : LateCommit(c)
         \/ Tick
         \/ UNCHANGED vars
  PROVE  proc' = proc
  BY DEF Webhook, WebhookStore, WebhookAnswer, LateCommit, Tick, vars

(* A step never makes a process forget an item.                              *)
LEMMA NextTried ==
  ASSUME TypeInv, [Next]_vars, NEW v \in Owners, Tried(v)
  PROVE  Tried(v)'
<1>1. CASE proc'[v] = proc[v]
  BY <1>1, SameSteady, SteadyStep
<1>2. ASSUME NEW w \in Owners,
             \/ Supervisor(w) \/ Handler(w) \/ Heartbeat(w) \/ Shutdown(w)
             \/ StoreError(w) \/ ReadFailuresError(w) \/ Drain(w) \/ Crash(w)
      PROVE  Tried(v)'
  BY <1>1, <1>2, OthersSame, SupervisorTried, HandlerTried, OtherSteady, SteadyStep
<1>3. CASE UNCHANGED vars \/ ~\E w \in Owners :
                                 \/ Supervisor(w) \/ Handler(w) \/ Heartbeat(w) \/ Shutdown(w)
                                 \/ StoreError(w) \/ ReadFailuresError(w) \/ Drain(w) \/ Crash(w)
  BY <1>1, <1>3, ProcsSame DEF Next
<1>. QED
  BY <1>2, <1>3

(* A job becomes completed only by the process that owns it and found no     *)
(* failed receipt of it, and the step writes no receipt.                     *)
LEMMA NewlyCompleted ==
  ASSUME TypeInv, [Next]_vars, NEW j \in Jobs,
         jobs[j].state # "completed", jobs'[j].state = "completed"
  PROVE  /\ rows' = rows
         /\ \E w \in Owners : /\ proc[w].handler = "completing" /\ proc[w].job = j
                              /\ jobs[j].state \in {"accepted", "running", "checkpointed"}
                              /\ jobs[j].owner = w
<1>a. jobs \in [Jobs -> Store!Job]
  BY JobsType
<1> USE <1>a
<1>1. ASSUME NEW i \in Jobs, NEW o, NEW lag, Store!Checkpoint(i, o, lag) \/ Store!Fail(i, o, lag)
      PROVE  FALSE
  BY <1>1 DEF Store!Checkpoint, Store!Fail, Store!Transition, Store!Job
<1>2. ASSUME NEW w \in Owners, NEW lag \in Lags, proc[w].job \in Jobs, TryCheckpoint(w, lag)
      PROVE  FALSE
  BY <1>1, <1>2 DEF TryCheckpoint, storeVars
<1>3. ASSUME NEW w \in Owners, Supervisor(w)
      PROVE  \E lag \in Lags : SettleReturned(w, lag)
  <2> SUFFICES ASSUME ~\E lag \in Lags : SettleReturned(w, lag) PROVE FALSE
    OBVIOUS
  <2>1. CASE RequeueStartupFailures(w)
    BY <2>1 DEF RequeueStartupFailures, Store!RequeueFailed, Store!Job, storeVars
  <2>2. CASE ReleaseAfterError(w) \/ ReadFailures(w)
    BY <2>2 DEF ReleaseAfterError, Release, Store!ReleaseWorker, ReadFailures, storeVars
  <2>3. ASSUME NEW lag \in Lags, \/ Start(w, lag) \/ ClaimNothing(w, lag)
                                \/ RenewIdle(w, lag) \/ Reacquire(w, lag)
        PROVE  FALSE
    BY <2>3 DEF Start, ClaimNothing, RenewIdle, Reacquire, Store!AcquireWorker,
                Store!RenewWorker, Store!ClaimNothing, storeVars
  <2>4. ASSUME NEW lag \in Lags, Claim(w, lag) PROVE FALSE
    BY <2>4 DEF Claim, Store!ClaimNext, Store!Job
  <2>5. ASSUME NEW lag \in Lags, StartJob(w, lag) PROVE FALSE
    BY <1>2, <2>5, Types DEF StartJob, ProcessShape, storeVars
  <2>6. ASSUME NEW lag \in Lags, SettleLost(w, lag) \/ SettleStopped(w, lag) PROVE FALSE
    <3>1. proc[w].job \in Jobs
      BY <2>6, Types DEF SettleLost, SettleStopped, Stopped, ProcessShape
    <3>2. TryCheckpoint(w, lag) \/ UNCHANGED storeVars
      BY <2>6 DEF SettleLost, SettleStopped
    <3>. QED
      BY <1>2, <3>1, <3>2 DEF storeVars
  <2>7. ASSUME NEW lag \in Lags, SettleRaised(w, lag) PROVE FALSE
    <3>1. proc[w].job \in Jobs
      BY <2>7, Types DEF SettleRaised, ProcessShape
    <3>. QED
      BY <1>1, <2>7, <3>1 DEF SettleRaised, storeVars
  <2>. QED
    BY <1>3, <2>1, <2>2, <2>3, <2>4, <2>5, <2>6, <2>7 DEF Supervisor
<1>4. ASSUME NEW w \in Owners, NEW lag \in Lags, SettleReturned(w, lag)
      PROVE  /\ rows' = rows
             /\ proc[w].handler = "completing" /\ proc[w].job = j
             /\ jobs[j].state \in {"accepted", "running", "checkpointed"}
             /\ jobs[j].owner = w
  <2>1. proc[w].job \in Jobs
    BY <1>4, Types DEF SettleReturned, ProcessShape
  <2>2. proc[w].handler = "completing" /\ Store!Complete(proc[w].job, w, lag)
    BY <1>1, <1>4, <2>1 DEF SettleReturned, storeVars
  <2>3. proc[w].job = j
    BY <2>1, <2>2 DEF Store!Complete, Store!Transition
  <2>. QED
    BY <2>2, <2>3 DEF Store!Complete, Store!Transition, Store!CanLeave
<1>5. ASSUME NEW w \in Owners, Handler(w) PROVE FALSE
  <2>1. UNCHANGED jobs
    BY <1>5 DEF Handler, ReadPrior, Send, Redeliver, HandlerReturns, HandlerRaises, Reserve,
                Record, HandlerCancelled, Store!BeginDelivery, Store!FinalizeDelivery, storeVars
  <2>. QED
    BY <2>1
<1>6. ASSUME NEW w \in Owners, NEW lag \in Lags,
             BeatWorker(w, lag) \/ BeatClaim(w, lag) \/ BeatLost(w, lag)
      PROVE  FALSE
  <2>1. proc[w].job \in Jobs
    BY <1>6, Types DEF BeatWorker, BeatClaim, BeatLost, ProcessShape
  <2>2. UNCHANGED jobs \/ Store!RenewClaim(proc[w].job, w, lag)
    BY <1>6 DEF BeatWorker, BeatClaim, BeatLost, Store!RenewWorker, storeVars
  <2>. QED
    BY <2>1, <2>2 DEF Store!RenewClaim, Store!Job
<1>7. ASSUME NEW w \in Owners, \/ Shutdown(w) \/ StoreError(w)
                               \/ ReadFailuresError(w) \/ Drain(w) \/ Crash(w)
      PROVE  FALSE
  BY <1>7 DEF Shutdown, DrainCancel, Stop, Exit, Release, Store!ReleaseWorker, StoreError,
              ReadFailuresError, Drain, Crash, storeVars
<1>8. ASSUME NEW i \in Jobs, Webhook(i) PROVE FALSE
  <2>1. CASE Store!AcceptUpdate(i)
    BY <2>1 DEF Store!AcceptUpdate, Store!NewJob, Store!Job
  <2>2. Store!AcceptUpdate(i) \/ UNCHANGED jobs
    BY <1>8 DEF Webhook, WebhookStore, WebhookAnswer, storeVars
  <2>. QED
    BY <2>1, <2>2
<1>9. ASSUME NEW c \in late, LateCommit(c) PROVE FALSE
  <2>1. c.job \in Jobs
    BY Types DEF LateCall
  <2>2. UNCHANGED jobs \/ Store!Checkpoint(c.job, c.owner, c.lag)
    BY <1>9 DEF LateCommit, Store!BeginDelivery, Store!FinalizeDelivery, storeVars
  <2>. QED
    BY <1>1, <2>1, <2>2
<1>10. CASE Tick \/ UNCHANGED vars
  BY <1>10 DEF Tick, Store!Tick, Store!Job, vars
<1>. QED
  BY <1>3, <1>4, <1>5, <1>6, <1>7, <1>8, <1>9, <1>10 DEF Next, Heartbeat

(* A job is completed only when every item of it was tried, whatever         *)
(* interrupted earlier attempts at it (drain.py, _process_job; delivery.py,  *)
(* deliver).                                                                 *)
THEOREM NothingSkipped == Spec => []CompletedMeansTried
<1>1. Init => TriedInv
  BY DEF Init, Store!Init, Store!NewJob, Idle, TriedInv, CompletedMeansTried, Tried, Active, Done
<1>2. TypeInv /\ TriedInv /\ [Next]_vars => TriedInv'
  <2> SUFFICES ASSUME TypeInv, TriedInv, [Next]_vars PROVE TriedInv'
    OBVIOUS
  <2>1. \A w \in Owners : Tried(w)'
    BY NextTried DEF TriedInv
  <2>2. ASSUME NEW j \in Jobs, jobs'[j].state = "completed", NEW k \in Keys
        PROVE  rows'[j][k].outcome # "none"
    <3>1. CASE jobs[j].state = "completed"
      <4>1. rows[j][k].outcome # "none"
        BY <3>1 DEF TriedInv, CompletedMeansTried
      <4>. QED
        BY <4>1, StoreStep, NothingForgotten DEF storeVars
    <3>2. CASE jobs[j].state # "completed"
      <4>1. rows' = rows /\ \E w \in Owners : proc[w].handler = "completing" /\ proc[w].job = j
        BY <2>2, <3>2, NewlyCompleted
      <4>. QED
        BY <4>1 DEF TriedInv, Tried, Done
    <3>. QED
      BY <3>1, <3>2
  <2>. QED
    BY <2>1, <2>2 DEF TriedInv, CompletedMeansTried
<1>. QED
  BY <1>1, <1>2, TypeInvariant, PTL DEF Spec, TriedInv

-----------------------------------------------------------------------------
(* Known failures. *)

\* A claim belongs to a running job only.
OwnersRun == \A j \in Jobs : jobs[j].owner # NoOne => jobs[j].state = "running"

(* Every transaction that ends a claim clears its owner (job_store.py,       *)
(* _transition_sync).                                                        *)
LEMMA NextOwnersRun == TypeInv /\ OwnersRun /\ [Next]_vars => OwnersRun'
<1> SUFFICES ASSUME TypeInv, OwnersRun, [Next]_vars, NEW j \in Jobs
             PROVE  jobs'[j].owner # NoOne => jobs'[j].state = "running"
  BY DEF OwnersRun
<1> DEFINE Runs == jobs'[j].owner # NoOne => jobs'[j].state = "running"
<1>a. jobs \in [Jobs -> Store!Job] /\ (jobs[j].owner # NoOne => jobs[j].state = "running")
  BY JobsType DEF OwnersRun
<1> USE <1>a
<1>b. UNCHANGED jobs => Runs
  OBVIOUS
<1>1. ASSUME NEW i \in Jobs, Store!AcceptUpdate(i) PROVE Runs
  BY <1>1 DEF Store!AcceptUpdate, Store!NewJob, Store!Job
<1>2. ASSUME NEW o \in Owners, NEW lag \in Store!Lags, Store!OwnerStep(o, lag) PROVE Runs
  <2>1. CASE \/ Store!AcquireWorker(o, lag) \/ Store!RenewWorker(o, lag) \/ Store!ClaimNothing(o, lag)
    BY <1>b, <2>1 DEF Store!AcquireWorker, Store!RenewWorker, Store!ClaimNothing
  <2>2. ASSUME NEW i \in Jobs, Store!ClaimNext(o, i, lag) \/ Store!RenewClaim(i, o, lag) PROVE Runs
    BY <2>2 DEF Store!ClaimNext, Store!RenewClaim, Store!OwnsLiveJob, Store!Job
  <2>3. ASSUME NEW i \in Jobs, NEW state \in {"checkpointed", "completed", "failed"},
               Store!Transition(i, o, state, lag)
        PROVE  Runs
    BY <2>3 DEF Store!Transition, Store!Job
  <2>4. ASSUME NEW i \in Jobs, \/ \E K \in (SUBSET Keys) \ {{}} : Store!BeginDelivery(i, K, o, lag)
                               \/ \E k \in Keys, outcome \in Store!DeliveryOutcome :
                                     Store!FinalizeDelivery(i, k, outcome, o, lag)
        PROVE  Runs
    BY <1>b, <2>4 DEF Store!BeginDelivery, Store!FinalizeDelivery
  <2>5. ASSUME NEW i \in Jobs, NEW s \in Jobs, Store!SupersedeFailed(i, s, o, lag) PROVE Runs
    BY <2>5 DEF Store!SupersedeFailed, Store!Job
  <2>. QED
    BY <1>2, <2>1, <2>2, <2>3, <2>4, <2>5
    DEF Store!OwnerStep, Store!Checkpoint, Store!Complete, Store!Fail
<1>3. ASSUME NEW o \in Owners, Store!ReleaseWorker(o) PROVE Runs
  BY <1>b, <1>3 DEF Store!ReleaseWorker
<1>4. ASSUME NEW S, Store!RequeueFailed(S) PROVE Runs
  BY <1>4 DEF Store!RequeueFailed, Store!Requeueable, Store!Job
<1>5. ASSUME NEW S, Store!PurgeExpired(S) PROVE Runs
  BY <1>5 DEF Store!PurgeExpired, Store!Job
<1>6. CASE Store!Tick
  BY <1>6 DEF Store!Tick, Store!Job
<1>7. ASSUME NEW i \in Jobs, Store!RetentionEnds(i) PROVE Runs
  BY <1>7 DEF Store!RetentionEnds, Store!Job
<1>8. CASE Store!Next
  BY <1>1, <1>2, <1>3, <1>4, <1>5, <1>6, <1>7, <1>8 DEF Store!Next
<1>. QED
  BY <1>b, <1>8, StoreStep DEF storeVars

\* A worker that is about to complete a job it still owns has seen that no item
\* failed, and nothing has changed since.
FailInv ==
    \A w \in Owners :
        proc[w].handler = "completing" /\ Owning(w, proc[w].job) =>
            ~Store!HasFailedDeliveries(proc[w].job)

(* Where a reservation leaves the handler.                                   *)
LEMMA ReservedHandler ==
  ASSUME TypeInv, NEW w \in Owners, NEW U \in SUBSET Keys, NEW lag \in Lags,
         Reserve(w, U, lag)
  PROVE  proc'[w].handler \in {"sending", "raised"}
<1>1. CASE proc' = [proc EXCEPT ![w].handler = "raised"]
  BY <1>1, ProcsType
<1>2. CASE proc' = [proc EXCEPT ![w].handler = "sending", ![w].unit = U, ![w].todo = @ \ U]
  BY <1>2, ProcsType
<1>. QED
  BY <1>1, <1>2 DEF Reserve

(* Where a receipt leaves it.                                                *)
LEMMA RecordedHandler ==
  ASSUME TypeInv, NEW w \in Owners, NEW k \in Keys, NEW lag \in Lags, Record(w, k, lag)
  PROVE  proc'[w].handler \in {"ready", "recording", "raised"}
<1>1. CASE proc' = [proc EXCEPT ![w].handler = "raised"]
  BY <1>1, ProcsType
<1>2. CASE proc' = [proc EXCEPT
                      ![w].unit = proc[w].unit \ {k},
                      ![w].verdict = [proc[w].verdict EXCEPT ![k] = "none"],
                      ![w].failed = IF proc[w].verdict[k] = "failed"
                                      THEN proc[w].failed \cup {k} ELSE proc[w].failed,
                      ![w].handler = IF proc[w].unit \ {k} = {} THEN "ready"
                                                                ELSE proc[w].handler]
  <2>1. proc[w].handler = "recording"
    BY DEF Record
  <2>. QED
    BY <1>2, <2>1, ProcsType
<1>. QED
  BY <1>1, <1>2 DEF Record

(* Without late calls a receipt is written only by a handler at work on the  *)
(* job it owns.                                                              *)
LEMMA RowsWritten ==
  ASSUME TypeInv, [Next]_vars, late = {}, NEW j \in Jobs, rows'[j] # rows[j]
  PROVE  /\ jobs' = jobs
         /\ \E w \in Owners : Owning(w, j) /\ proc[w].job = j /\ Active(w)
                              /\ proc'[w].handler # "completing"
<1>a. rows \in [Jobs -> [Keys -> Store!Row]]
  BY Types DEF Store!TypeOK
<1>1. PICK w \in Owners : Handler(w)
  <2>1. ASSUME NEW i \in Jobs, Webhook(i) PROVE FALSE
    BY <2>1 DEF Webhook, WebhookStore, WebhookAnswer, Store!AcceptUpdate, storeVars
  <2>2. Tick \/ UNCHANGED vars => FALSE
    BY DEF Tick, Store!Tick, vars
  <2>. QED
    BY <2>1, <2>2, SupervisorQuiet, OtherQuiet DEF Next, Still
<1>2. PICK lag \in Lags : \/ \E U \in SUBSET Keys : Reserve(w, U, lag)
                          \/ \E k \in Keys : Record(w, k, lag)
  BY <1>1 DEF Handler, ReadPrior, Send, Redeliver, HandlerReturns, HandlerRaises,
              HandlerCancelled, storeVars
<1>3. proc[w].job \in Jobs /\ Active(w) /\ proc'[w].handler # "completing"
  <2>1. proc[w].handler \in {"ready", "recording"}
    BY <1>2 DEF Reserve, Record
  <2>2. proc[w].job \in Jobs /\ Active(w)
    BY <2>1, Types DEF Active, ProcessShape
  <2>3. ASSUME NEW U \in SUBSET Keys, Reserve(w, U, lag) PROVE proc'[w].handler # "completing"
    <3>1. proc'[w].handler \in {"sending", "raised"}
      BY <2>3, ReservedHandler
    <3>. QED
      BY <3>1
  <2>4. ASSUME NEW k \in Keys, Record(w, k, lag) PROVE proc'[w].handler # "completing"
    <3>1. proc'[w].handler \in {"ready", "recording", "raised"}
      BY <2>4, RecordedHandler
    <3>. QED
      BY <3>1
  <2>. QED
    BY <1>2, <2>2, <2>3, <2>4
<1>4. CASE \E U \in SUBSET Keys : Reserve(w, U, lag)
  <2>1. PICK U \in SUBSET Keys : Store!BeginDelivery(proc[w].job, U, w, lag)
    BY <1>4 DEF Reserve, storeVars
  <2>2. proc[w].job = j
    BY <1>a, <1>3, <2>1 DEF Store!BeginDelivery
  <2>. QED
    BY <1>3, <2>1, <2>2 DEF Store!BeginDelivery, Store!CanBegin, Store!OwnsLiveJob, Owning
<1>5. CASE \E k \in Keys : Record(w, k, lag)
  <2>1. PICK k \in Keys : Store!FinalizeDelivery(proc[w].job, k, proc[w].verdict[k], w, lag)
    BY <1>5 DEF Record, storeVars
  <2>2. proc[w].job = j
    BY <1>a, <1>3, <2>1 DEF Store!FinalizeDelivery
  <2>. QED
    BY <1>3, <2>1, <2>2 DEF Store!FinalizeDelivery, Store!CanFinalize, Store!OwnsLiveJob, Owning
<1>. QED
  BY <1>2, <1>4, <1>5

(* No step gives a job to a handler already at work.                         *)
LEMMA NextNoNewOwner == TypeInv /\ [Next]_vars => NoNewOwner
<1> SUFFICES ASSUME TypeInv, [Next]_vars PROVE NoNewOwner
  OBVIOUS
<1>1. KeepsOwners => NoNewOwner
  BY DEF KeepsOwners, NoNewOwner
<1>2. ASSUME UNCHANGED jobs PROVE KeepsOwners
  BY <1>2 DEF KeepsOwners, Owning
<1>3. ASSUME NEW w \in Owners, Handler(w) PROVE UNCHANGED jobs
  BY <1>3 DEF Handler, ReadPrior, Send, Redeliver, HandlerReturns, HandlerRaises, Reserve,
              Record, HandlerCancelled, Store!BeginDelivery, Store!FinalizeDelivery, storeVars
<1>4. ASSUME NEW j \in Jobs, Webhook(j) PROVE KeepsOwners
  <2>1. Store!AcceptUpdate(j) \/ UNCHANGED jobs
    BY <1>4 DEF Webhook, WebhookStore, WebhookAnswer, storeVars
  <2>. QED
    BY <2>1, KeptOwners
<1>5. ASSUME NEW c \in late, LateCommit(c) PROVE KeepsOwners
  <2>1. c.job \in Jobs
    BY Types DEF LateCall
  <2>2. UNCHANGED jobs \/ Store!Checkpoint(c.job, c.owner, c.lag)
    BY <1>5 DEF LateCommit, Store!BeginDelivery, Store!FinalizeDelivery, storeVars
  <2>. QED
    BY <2>1, <2>2, KeptOwners
<1>6. Tick => KeepsOwners
  BY TimeKeepsOwners DEF Tick
<1>7. UNCHANGED vars => UNCHANGED jobs
  BY DEF vars
<1>. QED
  BY <1>1, <1>2, <1>3, <1>4, <1>5, <1>6, <1>7, SupervisorQuiet, OtherQuiet DEF Next

(* A worker comes to complete a job only by reading its receipts.            *)
LEMMA NowCompleting ==
  ASSUME TypeInv, [Next]_vars, NEW w \in Owners, proc'[w].handler = "completing"
  PROVE  \/ proc[w].handler = "completing" /\ proc'[w].job = proc[w].job
         \/ ReadFailures(w)
<1> DEFINE Was == proc[w].handler = "completing" /\ proc'[w].job = proc[w].job
<1> USE ProcsType
<1>a. ASSUME NEW phase, After(w, phase) PROVE FALSE
  BY <1>a DEF After, Idle
<1>1. CASE proc'[w] = proc[w]
  BY <1>1
<1>2. ASSUME Supervisor(w) PROVE Was \/ ReadFailures(w)
  <2>1. CASE RequeueStartupFailures(w) \/ ReleaseAfterError(w)
    <3>1. \E phase : proc' = [proc EXCEPT ![w].phase = phase]
      BY <2>1 DEF RequeueStartupFailures, ReleaseAfterError
    <3>. QED
      BY <3>1
  <2>2. ASSUME NEW lag \in Lags, \/ Start(w, lag) \/ ClaimNothing(w, lag)
                                \/ RenewIdle(w, lag) \/ Reacquire(w, lag)
        PROVE  Was
    <3>1. \E phase : proc' = [proc EXCEPT ![w].phase = phase]
      BY <2>2 DEF Start, ClaimNothing, RenewIdle, Reacquire
    <3>. QED
      BY <3>1
  <2>3. ASSUME NEW lag \in Lags, Claim(w, lag) PROVE FALSE
    BY <2>3, Types DEF Claim, ProcessShape
  <2>4. ASSUME NEW lag \in Lags, StartJob(w, lag) PROVE FALSE
    <3>1. CASE proc' = [proc EXCEPT ![w].phase = "working", ![w].beat = "beating",
                                    ![w].handler = "reading", ![w].unread = Keys]
      BY <3>1
    <3>. QED
      BY <1>a, <2>4, <3>1 DEF StartJob
  <2>5. ASSUME NEW lag \in Lags, \/ SettleLost(w, lag) \/ SettleStopped(w, lag)
                                \/ SettleRaised(w, lag) \/ SettleReturned(w, lag)
        PROVE  FALSE
    BY <1>a, <2>5 DEF SettleLost, SettleStopped, SettleRaised, SettleReturned
  <2>. QED
    BY <1>2, <2>1, <2>2, <2>3, <2>4, <2>5 DEF Supervisor
<1>3. ASSUME Handler(w) PROVE FALSE
  <2>1. ASSUME NEW k \in Keys, ReadPrior(w, k) PROVE FALSE
    BY <2>1 DEF ReadPrior
  <2>2. CASE Send(w)
    <3>1. \E verdict : proc' = [proc EXCEPT ![w].handler = "recording", ![w].verdict = verdict]
      BY <2>2 DEF Send
    <3>. QED
      BY <3>1
  <2>3. CASE Redeliver(w)
    BY <2>3 DEF Redeliver
  <2>4. CASE HandlerReturns(w)
    BY <2>4 DEF HandlerReturns
  <2>5. CASE HandlerRaises(w)
    BY <2>5 DEF HandlerRaises
  <2>6. ASSUME NEW lag \in Lags, NEW U \in SUBSET Keys, Reserve(w, U, lag) PROVE FALSE
    BY <2>6, ReservedHandler
  <2>7. ASSUME NEW lag \in Lags, NEW k \in Keys, Record(w, k, lag) PROVE FALSE
    BY <2>7, RecordedHandler
  <2>8. ASSUME NEW lag \in Lags, HandlerCancelled(w, lag) PROVE FALSE
    BY <2>8 DEF HandlerCancelled
  <2>. QED
    BY <1>3, <2>1, <2>2, <2>3, <2>4, <2>5, <2>6, <2>7, <2>8 DEF Handler
<1>4. ASSUME \/ Heartbeat(w) \/ Shutdown(w) \/ StoreError(w)
             \/ ReadFailuresError(w) \/ Drain(w) \/ Crash(w)
      PROVE  Was
  <2>1. CASE Heartbeat(w)
    <3>1. \/ UNCHANGED proc
          \/ proc' = [proc EXCEPT ![w].beat = "lost", ![w].cancel = TRUE]
      BY <2>1 DEF Heartbeat, BeatWorker, BeatClaim, BeatLost
    <3>2. CASE proc' = [proc EXCEPT ![w].beat = "lost", ![w].cancel = TRUE]
      BY <3>2
    <3>. QED
      BY <3>1, <3>2
  <2>2. CASE DrainCancel(w)
    BY <2>2 DEF DrainCancel
  <2>3. CASE Stop(w)
    BY <2>3 DEF Stop
  <2>4. CASE Exit(w) \/ Crash(w)
    BY <2>4 DEF Exit, Crash, Idle
  <2>5. CASE StoreError(w)
    BY <1>a, <2>5 DEF StoreError
  <2>6. CASE ReadFailuresError(w)
    BY <2>6 DEF ReadFailuresError
  <2>7. CASE Drain(w)
    BY <2>7 DEF Drain
  <2>. QED
    BY <1>4, <2>1, <2>2, <2>3, <2>4, <2>5, <2>6, <2>7 DEF Shutdown
<1>. QED
  BY <1>1, <1>2, <1>3, <1>4, OthersSame, ProcsSame DEF Next

(* Until the owner completes the job or loses it, no receipt of it changes.  *)
LEMMA NextFail ==
  ASSUME TypeInv, FailInv, [Next]_vars, late = {}
  PROVE  FailInv'
<1> SUFFICES ASSUME NEW w \in Owners, proc'[w].handler = "completing",
                    Owning(w, proc[w].job)'
             PROVE  ~Store!HasFailedDeliveries(proc[w].job)'
  BY DEF FailInv
<1>1. CASE ReadFailures(w)
  <2>1. rows' = rows /\ proc'[w].job = proc[w].job
    BY <1>1, ProcsType DEF ReadFailures, storeVars
  <2>2. ~Store!HasFailedDeliveries(proc[w].job)
    BY <1>1, ProcsType DEF ReadFailures
  <2>. QED
    BY <2>1, <2>2 DEF Store!HasFailedDeliveries
<1>2. CASE proc[w].handler = "completing" /\ proc'[w].job = proc[w].job
  <2>1. proc[w].job \in Jobs
    BY <1>2, Types DEF ProcessShape
  <2>2. Owning(w, proc[w].job)
    BY <1>2, <2>1, NextNoNewOwner DEF NoNewOwner, Owning
  <2>3. rows'[proc[w].job] = rows[proc[w].job]
    BY <2>1, <2>2, RowsWritten DEF Owning
  <2>. QED
    BY <1>2, <2>2, <2>3 DEF FailInv, Store!HasFailedDeliveries
<1>. QED
  BY <1>1, <1>2, NowCompleting

(* While no cancelled call commits late, an item known to have failed keeps  *)
(* its job out of 'completed' (drain.py, _process_job).                      *)
THEOREM FailuresKept ==
  ASSUME MaxLate = 0
  PROVE  Spec => []KnownFailuresAreKept
<1>1. Init => OwnersRun /\ FailInv /\ KnownFailuresAreKept
  BY DEF Init, Store!Init, Store!NewJob, Idle, OwnersRun, FailInv, KnownFailuresAreKept
<1>2. TypeInv => late = {}
  <2>1. TypeInv => IsFiniteSet(late) /\ Cardinality(late) <= 0
    BY DEF TypeInv, TypeOK
  <2>. QED
    BY <2>1, FS_CardinalityType, FS_EmptySet
<1>3. TypeInv /\ OwnersRun /\ FailInv /\ KnownFailuresAreKept /\ [Next]_vars
        => OwnersRun' /\ FailInv' /\ KnownFailuresAreKept'
  <2> SUFFICES ASSUME TypeInv, OwnersRun, FailInv, KnownFailuresAreKept, [Next]_vars
               PROVE  KnownFailuresAreKept'
    BY <1>2, NextOwnersRun, NextFail
  <2> SUFFICES ASSUME NEW j \in Jobs, jobs'[j].state = "completed"
               PROVE  ~Store!HasFailedDeliveries(j)'
    BY DEF KnownFailuresAreKept
  <2>1. CASE jobs[j].state = "completed"
    <3>1. rows'[j] = rows[j]
      BY <1>2, <2>1, RowsWritten DEF Owning
    <3>. QED
      BY <2>1, <3>1 DEF KnownFailuresAreKept, Store!HasFailedDeliveries
  <2>2. CASE jobs[j].state # "completed"
    <3>1. /\ rows' = rows
          /\ \E w \in Owners : /\ proc[w].handler = "completing" /\ proc[w].job = j
                               /\ jobs[j].owner = w
      BY <2>2, NewlyCompleted
    <3>2. jobs[j].owner # NoOne
      BY <3>1, InboxAssumption
    <3>. QED
      BY <3>1, <3>2 DEF OwnersRun, FailInv, Owning, Store!HasFailedDeliveries
  <2>. QED
    BY <2>1, <2>2
<1>. QED
  BY <1>1, <1>3, TypeInvariant, PTL DEF Spec

-----------------------------------------------------------------------------
(* What the store promises its clients. *)

(* Under the workers a recorded success or uncertain receipt is never        *)
(* altered, and every receipt is written under the live lease and claim      *)
(* (job_store.py, _owns_live_job): the store's guarantees hold of its users. *)
THEOREM StoreGuarantees ==
  Spec => /\ [][Store!KeepsSettled]_storeVars
          /\ [][Store!FencedReceipt]_storeVars
          /\ [][Store!FencedClaim]_storeVars
          /\ [][Store!FairHandover]_storeVars
<1>1. TypeInv /\ [Next]_vars => [StoreProofs!Next]_(StoreProofs!storeVars)
  BY StoreStep, SameNext DEF storeVars, StoreProofs!storeVars
<1>2. Init => StoreProofs!Init
  BY SameInit DEF Init
<1>3. Spec => StoreProofs!Spec
  BY <1>1, <1>2, TypeInvariant, PTL DEF Spec, StoreProofs!Spec
<1>4. StoreProofs!Spec => /\ StoreProofs!ReceiptsAreFinal /\ StoreProofs!ReceiptsAreFenced
                          /\ StoreProofs!ClaimsAreFenced /\ StoreProofs!LeaseHandover
  BY InboxAssumption, StoreProofs!SettledReceipts, StoreProofs!FencedReceipts,
     StoreProofs!FencedClaims, StoreProofs!FairLease
<1>5. [StoreProofs!KeepsSettled]_(StoreProofs!storeVars) => [Store!KeepsSettled]_storeVars
  BY DEF StoreProofs!KeepsSettled, Store!KeepsSettled, StoreProofs!Settled, Store!Settled,
         StoreProofs!Sent, Store!Sent, storeVars, StoreProofs!storeVars
<1>6. [StoreProofs!FencedReceipt]_(StoreProofs!storeVars) => [Store!FencedReceipt]_storeVars
  BY DEF StoreProofs!FencedReceipt, Store!FencedReceipt, storeVars, StoreProofs!storeVars
<1>7. [StoreProofs!FencedClaim]_(StoreProofs!storeVars) => [Store!FencedClaim]_storeVars
  BY DEF StoreProofs!FencedClaim, Store!FencedClaim, storeVars, StoreProofs!storeVars
<1>8. [StoreProofs!FairHandover]_(StoreProofs!storeVars) => [Store!FairHandover]_storeVars
  BY DEF StoreProofs!FairHandover, Store!FairHandover, storeVars, StoreProofs!storeVars
<1>. QED
  BY <1>3, <1>4, <1>5, <1>6, <1>7, <1>8, PTL
  DEF StoreProofs!ReceiptsAreFinal, StoreProofs!ReceiptsAreFenced,
      StoreProofs!ClaimsAreFenced, StoreProofs!LeaseHandover

=============================================================================
