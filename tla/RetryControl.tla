---------------------------- MODULE RetryControl ----------------------------
(***************************************************************************)
(* The retry button under a failed media request (app/bot/retry.py), the   *)
(* handlers that publish it (app/bot/messages.py, app/bot/group_logic.py,  *)
(* app/services/orchestrator.py) and the delivery they all call            *)
(* (MediaPipeline.deliver, TelegramDelivery.deliver, the file-id records   *)
(* of app/core/media_cache.py).                                            *)
(*                                                                         *)
(* Handler 0 is the first request; the others are presses of a button.     *)
(* With `durable` every handler is a job of the store, run one at a time   *)
(* and run again after a crash.  In polling mode handlers interleave at    *)
(* every await, and a crash forgets them.                                  *)
(***************************************************************************)
EXTENDS Integers, FiniteSets

CONSTANTS
    Presses,    \* bound: presses of a retry button, 1 .. n
    Units,      \* 1 .. n: what one send transmits, an item or an album chunk
    Tokens,     \* bound: buttons published for the request, 1 .. n
    MaxCrashes, \* bound: crashes of the process
    MaxFaults   \* bound: failed store and Telegram UI calls

ASSUME RetryAssumption ==
    /\ Presses \subseteq Nat \ {0} /\ IsFiniteSet(Presses)
    /\ Units \subseteq Nat /\ Tokens \subseteq Nat \ {0}
    /\ MaxCrashes \in Nat /\ MaxFaults \in Nat

Handlers == Presses \cup {0}
NoJob == -1     \* a saved request of polling mode names no job
Gone == -2      \* no saved request: deleted, expired or never written

VARIABLES
    durable,    \* webhook mode with its job store, or polling
    saved,      \* link_cache "retry:<token>": the job that owns the request
    shown,      \* the button is under the status message
    pressable,  \* tokens whose button was ever shown
    active,     \* _active_retries
    finished,   \* _finished_retries
    row,        \* the store's row of each token (polling)
    job,        \* the store's job of each handler (durable)
    run,        \* the handlers
    cached,     \* units with a file-id record
    sent,       \* copies of each unit the chat received
    crashes, faults

vars == <<durable, saved, shown, pressable, active, finished, row, job, run, cached,
          sent, crashes, faults>>
store == <<row, job>>
memory == <<active, finished>>
chat == <<shown, pressable, sent>>
limits == <<durable, crashes, faults>>

Outcomes == {"success", "failed", "uncertain"}
Settled == {"success", "uncertain"}
Untried == [u \in Units |-> "none"]

NewJob == [state |-> "absent", next |-> NoJob, item |-> Untried]
Rest == [pc |-> "idle", tok |-> 0, snap |-> Gone, pass |-> "none", todo |-> {},
         unit |-> {}, got |-> Untried, error |-> FALSE,
         partly |-> FALSE]

Phases == {"idle", "read", "claimed", "checked", "saved", "ready", "deliver",
           "pass", "record", "open", "raised", "settle", "failing", "finish",
           "forget", "hide"}

(* Every variable keeps its type.                                          *)
TypeOK ==
    /\ durable \in BOOLEAN
    /\ saved \in [Tokens -> Handlers \cup {NoJob, Gone}]
    /\ shown \in [Tokens -> BOOLEAN] /\ pressable \subseteq Tokens
    /\ active \subseteq Tokens /\ finished \subseteq Tokens
    /\ row \in [Tokens -> {"none", "open", "failed", "closed"}]
    /\ job \in [Handlers -> [state : {"absent", "running", "failed", "completed",
                                      "checkpointed"},
                             next : Handlers \cup {NoJob},
                             item : [Units -> Outcomes \cup {"none", "open"}]]]
    /\ run \in [Handlers -> [pc : Phases, tok : Tokens \cup {0},
                             snap : Handlers \cup {NoJob, Gone},
                             pass : {"none", "cached", "first", "again"},
                             todo : SUBSET Units, unit : SUBSET Units,
                             got : [Units -> Outcomes \cup {"none"}],
                             error : BOOLEAN, partly : BOOLEAN]]
    /\ cached \subseteq Units
    /\ sent \in [Units -> 0 .. 1 + Cardinality(Presses)]
    /\ crashes \in 0 .. MaxCrashes /\ faults \in 0 .. MaxFaults

Init ==
    /\ durable \in BOOLEAN
    /\ saved = [t \in Tokens |-> Gone]
    /\ shown = [t \in Tokens |-> FALSE] /\ pressable = {}
    /\ active = {} /\ finished = {}
    /\ row = [t \in Tokens |-> "none"]
    /\ job = [h \in Handlers |-> NewJob]
    /\ run = [h \in Handlers |-> Rest]
    /\ cached \in {{}, Units}
    /\ sent = [u \in Units |-> 0]
    /\ crashes = 0 /\ faults = 0

Fault == faults < MaxFaults /\ faults' = faults + 1

At(h, pc) == run[h].pc = pc
Go(h, pc) == run' = [run EXCEPT ![h].pc = pc]
Idle(h) == At(h, "idle")

\* The worker runs one durable job at a time; polling runs any number.
Free(h) == Idle(h) /\ (durable => \A g \in Handlers : Idle(g))

\* Store rows that are not plain failures forbid a whole repetition.
Unsafe(j) == \E u \in Units : j.item[u] \notin {"none", "failed"}
HasFailed(j) == \E u \in Units : j.item[u] = "failed"

\* The handler's return: the worker completes or fails its job.
Closed(j, error) ==
    IF ~ durable THEN j
    ELSE [j EXCEPT !.state = IF error \/ HasFailed(j) THEN "failed" ELSE "completed"]

\* What is left of a handler: its token, and whether it raised after the
\* cached pass had settled some unit.
Over(h) == [Rest EXCEPT !.tok = run[h].tok, !.partly = run[h].partly]

\* Fault: an early return keeps the claim on the token.
EndHolding(h, error) ==
    /\ run' = [run EXCEPT ![h] = Over(h)]
    /\ job' = [job EXCEPT ![h] = Closed(@, error)]
    /\ active' = active

End(h, error) ==
    /\ run' = [run EXCEPT ![h] = Over(h)]
    /\ job' = [job EXCEPT ![h] = Closed(@, error)]
    /\ active' = IF h = 0 THEN active ELSE active \ {run[h].tok}

-----------------------------------------------------------------------------
(* The first request, and a press up to its delivery (on_retry). *)

\* Handler 0 starts once in polling mode; its durable job is also resumed.
StartRequest ==
    /\ Free(0)
    /\ IF job[0].state = "absent" THEN run[0] = Rest
       ELSE durable /\ job[0].state = "checkpointed"
    /\ run' = [run EXCEPT ![0] = [Rest EXCEPT !.pc = "deliver"]]
    /\ job' = [job EXCEPT ![0].state = "running"]
    /\ UNCHANGED <<saved, memory, row, chat, cached, limits>>

\* A button that was ever published can be pressed, once more from an old
\* client view too.  The cache read may return after other handlers' steps.
Read(p, t) ==
    /\ Free(p)
    /\ \/ run[p].tok = 0 /\ job[p].state = "absent"
       \/ durable /\ job[p].state = "checkpointed" /\ run[p].tok = t
    /\ t \in pressable
    /\ IF t \in finished \/ saved[t] = Gone
       THEN /\ run' = [run EXCEPT ![p] = [Rest EXCEPT !.tok = t]]
            /\ job' = [job EXCEPT ![p] = Closed([@ EXCEPT !.state = "running"], FALSE)]
       ELSE /\ run' = [run EXCEPT ![p] = [Rest EXCEPT !.pc = "read", !.tok = t,
                                                      !.snap = saved[t]]]
            /\ job' = [job EXCEPT ![p].state = "running"]
    /\ UNCHANGED <<saved, memory, row, chat, cached, limits>>

\* The second look at finished and active, without an await before the claim.
Claim(p) ==
    /\ At(p, "read")
    /\ IF run[p].tok \in finished \cup active
       THEN /\ run' = [run EXCEPT ![p] = Over(p)]
            /\ job' = [job EXCEPT ![p] = Closed(@, FALSE)]
            /\ UNCHANGED active
       ELSE active' = active \cup {run[p].tok} /\ Go(p, "claimed") /\ UNCHANGED job
    /\ UNCHANGED <<saved, finished, row, chat, cached, limits>>

\* The rate limiter says no, or there is no pipeline or no store yet.
Refuse(p) ==
    /\ At(p, "claimed")
    /\ Fault
    /\ End(p, FALSE)
    /\ UNCHANGED <<saved, finished, row, chat, cached, durable, crashes>>

\* A job that was replaced, and has nothing sent or uncertain.
Superseded(j) == ~ Unsafe(job[j]) /\ job[j].state = "completed" /\ job[j].next # NoJob

\* The jobs that supersede_failed_job visits: from j on, what replaced each
\* replaced job.
Walk(j) ==
    {k \in Handlers :
        \A S \in SUBSET Handlers :
            j \in S /\ (\A i \in S : Superseded(i) => job[i].next \in S) => k \in S}

\* The walk has come to a failed attempt, which it may replace.
Replaceable(j) == ~ Unsafe(job[j]) /\ job[j].state \in {"failed", "checkpointed"}

\* Nothing to replace when the walk comes to the press's own job.
Prepare(p) ==
    /\ At(p, "claimed") /\ durable
    /\ LET walk == Walk(run[p].snap) IN
       \/ /\ p \in walk
          /\ Go(p, "checked") /\ UNCHANGED <<job, active>>
       \/ /\ p \notin walk
          /\ \E j \in walk :
                /\ Replaceable(j)
                /\ job' = [job EXCEPT ![j].state = "completed", ![j].next = p]
          /\ Go(p, "checked") /\ UNCHANGED active
       \/ /\ p \notin walk /\ \A j \in walk : ~ Replaceable(j)
          /\ End(p, FALSE)
    /\ UNCHANGED <<saved, finished, row, chat, cached, limits>>

\* Polling mode looks at the token's own row instead.
CheckToken(p) ==
    /\ At(p, "claimed") /\ ~ durable
    /\ IF row[run[p].tok] \in {"none", "failed"}
       THEN Go(p, "checked") /\ UNCHANGED <<job, active>>
       ELSE End(p, FALSE)
    /\ UNCHANGED <<saved, finished, row, chat, cached, limits>>

SaveAgain(p) ==
    /\ At(p, "checked")
    /\ saved' = [saved EXCEPT ![run[p].tok] = IF durable THEN p ELSE run[p].snap]
    /\ Go(p, "saved")
    /\ UNCHANGED <<memory, store, chat, cached, limits>>

\* query.answer and edit_text: a failure ends the press, whether or not the
\* edit had taken the button away.
Acknowledge(p) ==
    /\ At(p, "saved")
    /\ shown' = [shown EXCEPT ![run[p].tok] = FALSE]
    /\ Go(p, "ready")
    /\ UNCHANGED <<saved, memory, store, pressable, sent, cached, limits>>

AcknowledgeFails(p) ==
    /\ At(p, "saved")
    /\ Fault
    /\ shown' \in {shown, [shown EXCEPT ![run[p].tok] = FALSE]}
    /\ End(p, TRUE)
    /\ UNCHANGED <<saved, finished, row, pressable, sent, cached, durable, crashes>>

\* begin_retry_token reserves a fresh or failed row, and no other.
BeginToken(p) ==
    /\ At(p, "ready")
    /\ IF durable \/ row[run[p].tok] \in {"none", "failed"}
       THEN /\ row' = IF durable THEN row ELSE [row EXCEPT ![run[p].tok] = "open"]
            /\ Go(p, "deliver") /\ UNCHANGED <<job, active>>
       ELSE End(p, FALSE) /\ UNCHANGED row
    /\ UNCHANGED <<saved, finished, chat, cached, limits>>

\* A TikTok album is offered as a choice instead: nothing is sent here.  A
\* press that offers it is finished.
OfferFirst ==
    /\ At(0, "deliver")
    /\ End(0, FALSE)
    /\ UNCHANGED <<saved, finished, row, chat, cached, limits>>

OfferAgain(p) ==
    /\ At(p, "deliver")
    /\ Go(p, "finish")
    /\ UNCHANGED <<saved, memory, store, chat, cached, limits>>

-----------------------------------------------------------------------------
(* MediaPipeline.deliver: the file-id records first, then the files. *)

\* A unit the job already settled is reported, not sent again.
Prior(h) == [u \in Units |-> IF job[h].item[u] \in Settled THEN job[h].item[u]
                             ELSE IF job[h].item[u] = "open" THEN "uncertain"
                             ELSE "none"]
Pass(h, pass, got, todo) ==
    run' = [run EXCEPT ![h].pc = "pass", ![h].pass = pass, ![h].got = got,
                       ![h].todo = todo]

Deliver(h) ==
    /\ At(h, "deliver")
    /\ IF cached = Units
       THEN Pass(h, "cached", Prior(h), {u \in Units : Prior(h)[u] = "none"})
       ELSE Go(h, "open")
    /\ UNCHANGED <<saved, memory, store, chat, cached, limits>>

\* open_materialized finds, fetches and checks the files, or raises.
Open(h) ==
    /\ At(h, "open")
    /\ IF run[h].pass = "cached"
       THEN Pass(h, "again", run[h].got, {u \in Units : run[h].got[u] = "failed"})
       ELSE Pass(h, "first", Prior(h), {u \in Units : Prior(h)[u] = "none"})
    /\ UNCHANGED <<saved, memory, store, chat, cached, limits>>

OpenRaises(h) ==
    /\ At(h, "open")
    /\ Go(h, "raised")
    /\ UNCHANGED <<saved, memory, store, chat, cached, limits>>

\* begin_current_delivery and the send.  Telegram took the unit, refused it
\* (nothing sent), or the answer was lost either way.  An accepted unit's
\* file id is recorded; a stale file id is evicted and cannot be uploaded in
\* the cached pass.
Send(h, u, v) ==
    /\ At(h, "pass") /\ u \in run[h].todo /\ \A x \in run[h].todo : u <= x
    /\ run' = [run EXCEPT ![h].pc = IF durable THEN "record" ELSE @, ![h].got[u] = v,
                          ![h].todo = @ \ {u}, ![h].unit = IF durable THEN {u} ELSE {}]
    /\ job' = IF durable THEN [job EXCEPT ![h].item[u] = "open"] ELSE job
    /\ \/ v # "failed" /\ sent' = [sent EXCEPT ![u] = @ + 1]
       \/ v # "success" /\ UNCHANGED sent
    /\ cached' \in CASE v = "success" -> {cached \cup {u}}
                     [] v = "failed" /\ run[h].pass = "cached" -> {cached, cached \ {u}}
                     [] OTHER -> {cached}
    /\ UNCHANGED <<saved, memory, row, shown, pressable, limits>>

Record(h) ==
    /\ At(h, "record")
    /\ \E u \in run[h].unit : job' = [job EXCEPT ![h].item[u] = run[h].got[u]]
    /\ run' = [run EXCEPT ![h].pc = "pass", ![h].unit = {}]
    /\ UNCHANGED <<saved, memory, row, chat, cached, limits>>

Failed(h) == {u \in Units : run[h].got[u] = "failed"}

\* Fault: the retry repeats every unit of the receipt.
PassEndsRepeatAll(h) ==
    /\ At(h, "pass") /\ run[h].todo = {}
    /\ IF run[h].pass = "first" /\ Failed(h) # {}
       THEN Pass(h, "again", run[h].got, Units) ELSE Go(h, "settle")
    /\ UNCHANGED <<saved, memory, store, chat, cached, limits>>

\* Failed units get one more try with the files; the rest is the receipt.
PassEnds(h) ==
    /\ At(h, "pass") /\ run[h].todo = {}
    /\ CASE run[h].pass = "cached" /\ Failed(h) # {} -> Go(h, "open")
         [] run[h].pass = "first" /\ Failed(h) # {} ->
                Pass(h, "again", run[h].got, Failed(h))
         [] OTHER -> Go(h, "settle")
    /\ UNCHANGED <<saved, memory, store, chat, cached, limits>>

\* Any other exception (a lost lease, a store error) leaves through finally.
Breaks(h) ==
    /\ run[h].pc \in {"pass", "record", "open"}
    /\ Fault
    /\ End(h, TRUE)
    /\ UNCHANGED <<saved, finished, row, chat, cached, durable, crashes>>

-----------------------------------------------------------------------------
(* What becomes of the button. *)

\* can_retry_error: the durable rows decide; polling mode has none.
RetryableError(h) == ~ durable \/ ~ Unsafe(job[h])
\* can_retry_delivery: nothing sent, nothing uncertain.
RetryableReceipt(h) == Failed(h) = Units
SentSome(h) == \E u \in Units : run[h].got[u] \in Settled

\* Fault: a press that failed after an unknown outcome may be repeated.
VerdictAnyFailure(h) ==
    /\ run[h].pc \in {"raised", "settle"}
    /\ LET again == Failed(h) # {} \/ At(h, "raised")
       IN run' = [run EXCEPT ![h].error = At(h, "raised"),
                             ![h].partly = At(h, "raised") /\ SentSome(h),
                             ![h].pc = IF again THEN "failing"
                                       ELSE IF h = 0 THEN "hide" ELSE "finish"]
    /\ UNCHANGED <<saved, memory, store, chat, cached, limits>>

\* A press that cannot be repeated is finished; one that can keeps its token.
Verdict(h) ==
    /\ run[h].pc \in {"raised", "settle"}
    /\ LET raised == At(h, "raised")
           again == IF raised THEN RetryableError(h) ELSE RetryableReceipt(h)
       IN run' = [run EXCEPT ![h].error = raised, ![h].partly = raised /\ SentSome(h),
                             ![h].pc = IF again THEN "failing"
                                       ELSE IF h = 0 THEN "hide" ELSE "finish"]
    /\ UNCHANGED <<saved, memory, store, chat, cached, limits>>

\* Handler 0 saves the request under a new token; a press in polling mode
\* records the failure under its own.
NextToken == {t \in Tokens : saved[t] = Gone /\ t \notin pressable}
Failing(h) ==
    /\ At(h, "failing")
    /\ IF h = 0
       THEN /\ UNCHANGED row
            /\ \/ NextToken = {} /\ Go(h, "hide") /\ UNCHANGED saved
               \/ \E t \in NextToken :
                    /\ \A x \in NextToken : t <= x
                    /\ saved' = [saved EXCEPT ![t] = IF durable THEN 0 ELSE NoJob]
                    /\ run' = [run EXCEPT ![h].pc = "hide", ![h].tok = t]
       ELSE /\ Go(h, "hide") /\ UNCHANGED saved
            /\ row' = IF durable THEN row ELSE [row EXCEPT ![run[h].tok] = "failed"]
    /\ UNCHANGED <<memory, job, chat, cached, limits>>

\* The last edit of the status message: with the button exactly when the
\* request was saved again.  The edit itself may fail.
Keeps(h) == run[h].tok # 0 /\ saved[run[h].tok] # Gone /\ run[h].tok \notin finished
Hide(h) ==
    /\ At(h, "hide")
    /\ \/ /\ shown' = IF Keeps(h) THEN [shown EXCEPT ![run[h].tok] = TRUE] ELSE shown
          /\ pressable' = IF Keeps(h) THEN pressable \cup {run[h].tok} ELSE pressable
          /\ End(h, run[h].error)
          /\ UNCHANGED faults
       \/ Fault /\ End(h, TRUE) /\ UNCHANGED <<shown, pressable>>
    /\ UNCHANGED <<saved, finished, row, sent, cached, durable, crashes>>

\* _finish_retry: first the process remembers, then the store, then the cache.
Finish(h) ==
    /\ At(h, "finish")
    /\ finished' = finished \cup {run[h].tok}
    /\ Go(h, "forget")
    /\ UNCHANGED <<saved, active, store, chat, cached, limits>>

\* A failed store write raises; a failed cache delete is only logged.
Forget(h) ==
    /\ At(h, "forget")
    /\ row' = IF durable THEN row ELSE [row EXCEPT ![run[h].tok] = "closed"]
    /\ \/ saved' = [saved EXCEPT ![run[h].tok] = Gone] /\ UNCHANGED faults
       \/ Fault /\ UNCHANGED saved
    /\ Go(h, "hide")
    /\ UNCHANGED <<memory, job, chat, cached, durable, crashes>>

ForgetFails(h) ==
    /\ At(h, "forget") /\ ~ durable
    /\ Fault
    /\ End(h, TRUE)
    /\ UNCHANGED <<saved, finished, row, chat, cached, durable, crashes>>

-----------------------------------------------------------------------------
(* The surroundings. *)

\* The saved request expires, or a cache without persistence loses it.
Expire(t) ==
    /\ saved[t] # Gone
    /\ Fault
    /\ saved' = [saved EXCEPT ![t] = Gone]
    /\ UNCHANGED <<memory, store, chat, run, cached, durable, crashes>>

\* The process dies; memory is lost.  On restart the store takes running jobs
\* back and puts failed deliveries on the queue again.
Crash ==
    /\ crashes < MaxCrashes /\ crashes' = crashes + 1
    /\ active' = {} /\ finished' = {}
    /\ run' = [h \in Handlers |-> Over(h)]
    /\ job' = [h \in Handlers |->
                 IF durable /\ \/ job[h].state = "running"
                               \/ job[h].state = "failed" /\ HasFailed(job[h])
                 THEN [job[h] EXCEPT !.state = "checkpointed"] ELSE job[h]]
    /\ UNCHANGED <<saved, row, chat, cached, durable, faults>>

Step(h) ==
    \/ Deliver(h) \/ Open(h) \/ OpenRaises(h) \/ Record(h) \/ PassEnds(h)
    \/ \E u \in Units, v \in Outcomes : Send(h, u, v)
    \/ Verdict(h) \/ Failing(h) \/ Hide(h) \/ Finish(h) \/ Forget(h)

Press(p) ==
    \/ Claim(p) \/ Prepare(p) \/ CheckToken(p) \/ SaveAgain(p) \/ Acknowledge(p)
    \/ BeginToken(p) \/ OfferAgain(p)

Next ==
    \/ StartRequest \/ OfferFirst \/ Crash
    \/ \E h \in Handlers : Step(h) \/ Breaks(h) \/ ForgetFails(h)
    \/ \E p \in Presses : Press(p) \/ Refuse(p) \/ AcknowledgeFails(p)
    \/ \E p \in Presses, t \in Tokens : Read(p, t)
    \/ \E t \in Tokens : Expire(t)

\* A handler in progress goes on: the event loop runs every ready task.
Fairness ==
    \A h \in Handlers :
        WF_vars(Step(h) \/ (h = 0 /\ OfferFirst) \/ (h \in Presses /\ Press(h)))

Spec == Init /\ [][Next]_vars /\ Fairness

-----------------------------------------------------------------------------
(* Properties. *)

RaisedPartly == \E h \in Handlers : run[h].partly

(* No press of any button, from whatever stale view and after whatever      *)
(* crash, sends a unit the chat already has.  Polling mode has the one      *)
(* exception: a request whose cached units were partly sent and whose files *)
(* then could not be opened is still offered for a whole repetition         *)
(* (can_retry_error, retry.py 91-92).                                       *)
RepeatsOnlyAfterPartialError ==
    (\E u \in Units : sent[u] > 1) => ~ durable /\ RaisedPartly

(* "must leave the button usable" (retry.py 262): a visible button whose    *)
(* request is saved and which no press holds is not refused by the token's  *)
(* memory or row, whatever failed before.                                   *)
ShownButtonWorks ==
    \A t \in Tokens : shown[t] /\ saved[t] # Gone /\ t \notin active =>
        t \notin finished /\ (~ durable => row[t] \in {"none", "failed"})

(* A button is never left under a request part of which arrived, apart from *)
(* the exception above and, with jobs, an older button the store refuses.   *)
ButtonMeansUnsent ==
    ~ durable /\ ~ RaisedPartly =>
        \A t \in Tokens : shown[t] => \A u \in Units : sent[u] = 0

(* No unit arrives twice.                                                   *)
RetriesAreSafe == TypeOK /\ RepeatsOnlyAfterPartialError

(* A button says the truth: it works, and there is something to repeat.     *)
ButtonsAreTrue == ShownButtonWorks /\ ButtonMeansUnsent

(* Every press lets go of its token in the end, so the user is not told     *)
(* "in progress" for ever.                                                  *)
ClaimsEnd == \A t \in Tokens : t \in active ~> t \notin active

=============================================================================
