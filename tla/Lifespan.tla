------------------------------ MODULE Lifespan ------------------------------
(***************************************************************************)
(* The bot runtime of one process (app/main.py): startup in phases, the    *)
(* single owner, shutdown that tries every phase, the deferred close when  *)
(* a handler outlives the drain, and the readiness probe that shares one   *)
(* getMe per bot (app/api/routes.py). A life is one lifespan of the FastAPI*)
(* application; lives follow each other in the process. The drain and the  *)
(* durable worker are DurableInbox's; here a handler runs or has ended.    *)
(***************************************************************************)
EXTENDS Integers, FiniteSets, Sequences

CONSTANTS
    Lives,      \* lifespans of the process
    Asks,       \* readiness requests in flight
    MaxFaults,  \* bound: failing phases, stuck handlers, a cancelled shutdown
    MaxAsks     \* bound: readiness requests

\* What the constants must satisfy.
LifeAssumption == "none" \notin Lives /\ MaxFaults \in Nat /\ MaxAsks \in Nat

VARIABLES
    owner,      \* _active_lifespan
    life,       \* each life: its phase, and what it owns
    bound,      \* the globals: state.media_pipeline, bot_app, job_store and the route's store
    handler,    \* lives whose handler runs
    closed,     \* <<life, resource>> that were closed, and how often
    probe,      \* _local_probe_state
    flying,     \* getMe tasks: <<bot, number>>
    ask,        \* readiness requests
    faults, asks

vars == <<owner, life, bound, handler, closed, probe, flying, ask, faults, asks>>
probing == <<probe, flying, ask, asks>>

None == "none"
Globals == {"pipeline", "bot_app", "job_store", "route"}
Resources == {"bot_app", "job_store", "redis"}
Order == <<"bot_app", "job_store", "redis">>
Startup == <<"setup", "redis", "store", "bot", "globals", "worker", "ingress">>
Closing == <<"close bot_app", "close job_store", "close redis", "clear">>
Phases == {Startup[i] : i \in DOMAIN Startup} \cup {Closing[i] : i \in DOMAIN Closing}
          \cup {"off", "serve", "drain", "stop", "background", "leave", "deferred", "over", "cancelled"}

(* Every variable keeps its type.                                          *)
TypeOK ==
    /\ owner \in Lives \cup {None}
    /\ life \in [Lives -> [pc : Phases, worker : BOOLEAN, returned : BOOLEAN, janitor : BOOLEAN]]
    /\ bound \in [Globals -> Lives \cup {None}]
    /\ handler \subseteq Lives
    /\ closed \in [Lives \X Resources -> 0 .. 2]
    /\ probe \in [bot : Lives \cup {None}, has : BOOLEAN, of : Lives \cup {None}, task : 0 .. MaxAsks]
    /\ flying \subseteq Lives \X (1 .. MaxAsks)
    /\ ask \in [Asks -> [pc : {"idle", "wait"}, bot : Lives \cup {None}, task : 0 .. MaxAsks]]
    /\ faults \in 0 .. MaxFaults /\ asks \in 0 .. MaxAsks

Init ==
    /\ owner = None
    /\ life = [l \in Lives |-> [pc |-> "off", worker |-> FALSE, returned |-> FALSE, janitor |-> FALSE]]
    /\ bound = [g \in Globals |-> None]
    /\ handler = {}
    /\ closed = [x \in Lives \X Resources |-> 0]
    /\ probe = [bot |-> None, has |-> FALSE, of |-> None, task |-> 0]
    /\ flying = {}
    /\ ask = [r \in Asks |-> [pc |-> "idle", bot |-> None, task |-> 0]]
    /\ faults = 0 /\ asks = 0

At(l, pc) == life[l].pc = pc
Go(l, pc) == life' = [life EXCEPT ![l].pc = pc]
Fault == faults < MaxFaults /\ faults' = faults + 1
\* DurableUpdateWorker.shutdown_complete: nothing of the worker still runs.
ShutdownComplete(l) == l \notin handler
\* _release_lifespan: not before the shutdown returned and the worker ended.
Released(l) ==
    IF owner = l /\ (~life'[l].worker \/ (life'[l].returned /\ ShutdownComplete(l)))
    THEN None ELSE owner

-----------------------------------------------------------------------------
\* lifespan(): refused while another runtime lives or shuts down.
Enter(l) ==
    /\ At(l, "off") /\ owner = None
    /\ owner' = l
    /\ Go(l, "setup")
    /\ UNCHANGED <<bound, handler, closed, probing, faults>>

\* One startup phase after the other; the globals are bound without an await.
StartPhase(l) ==
    /\ \E i \in DOMAIN Startup :
           /\ At(l, Startup[i])
           /\ life' = [life EXCEPT ![l].pc = IF i = Len(Startup) THEN "serve" ELSE Startup[i + 1],
                                  ![l].worker = TRUE,
                                  ![l].janitor = @ \/ Startup[i] = "store"]
           /\ bound' = CASE Startup[i] = "bot" -> [bound EXCEPT !["pipeline"] = l]
                         [] Startup[i] = "globals" -> [g \in Globals |-> l]
                         [] OTHER -> bound
    /\ UNCHANGED <<owner, handler, closed, probing, faults>>

\* A phase fails: before the worker exists the owner is released at once,
\* afterwards the whole shutdown runs.
StartFails(l) ==
    /\ \E i \in DOMAIN Startup : At(l, Startup[i])
    /\ Fault
    /\ Go(l, IF life[l].worker THEN "drain" ELSE "over")
    /\ owner' = Released(l)
    /\ UNCHANGED <<bound, handler, closed, probing>>

Handle(l) ==
    /\ At(l, "serve") /\ l \notin handler
    /\ handler' = handler \cup {l}
    /\ UNCHANGED <<owner, life, bound, closed, probing, faults>>

HandlerEnds(l) ==
    /\ l \in handler
    /\ handler' = handler \ {l}
    /\ UNCHANGED <<owner, life, bound, closed, probing, faults>>

Shutdown(l) ==
    /\ At(l, "serve")
    /\ Go(l, "drain")
    /\ UNCHANGED <<owner, bound, handler, closed, probing, faults>>

-----------------------------------------------------------------------------
\* drain() and stop() wait for the handler within the drain's budget and
\* cancel it; one that does not end is left behind.
Drain(l) ==
    /\ \E pc \in {"drain", "stop"} :
           /\ At(l, pc)
           /\ Go(l, IF pc = "drain" THEN "stop" ELSE "background")
    /\ \/ handler' = handler \ {l} /\ UNCHANGED faults
       \/ l \in handler /\ Fault /\ UNCHANGED handler
    /\ UNCHANGED <<owner, bound, closed, probing>>

\* stop_event ends the janitor, whatever it raises.
Background(l) ==
    /\ At(l, "background")
    /\ life' = [life EXCEPT ![l].pc = "leave", ![l].janitor = FALSE]
    /\ UNCHANGED <<owner, bound, handler, closed, probing, faults>>

\* Fault: the runtime closes whether or not the worker has ended.
LeaveAtOnce(l) ==
    /\ At(l, "leave")
    /\ Go(l, "close bot_app")
    /\ UNCHANGED <<owner, bound, handler, closed, probing, faults>>

\* Telegram ingress is left; then the runtime closes, or a task that waits
\* for the worker will close it.
Leave(l) ==
    /\ At(l, "leave")
    /\ life' = IF ShutdownComplete(l)
               THEN [life EXCEPT ![l].pc = "close bot_app"]
               ELSE [life EXCEPT ![l].pc = "deferred", ![l].returned = TRUE]
    /\ UNCHANGED <<owner, bound, handler, closed, probing, faults>>

\* wait_stopped
Waited(l) ==
    /\ At(l, "deferred") /\ ShutdownComplete(l)
    /\ Go(l, "close bot_app")
    /\ UNCHANGED <<owner, bound, handler, closed, probing, faults>>

\* A newer runtime that uses the process's Redis client closes it itself.
Adopted(l) == bound["bot_app"] \notin {l, None}

Close(l) ==
    /\ \E i \in DOMAIN Order :
           /\ At(l, Closing[i])
           /\ closed' = IF Order[i] = "redis" /\ Adopted(l) THEN closed
                        ELSE [closed EXCEPT ![<<l, Order[i]>>] = @ + 1]
           /\ Go(l, Closing[i + 1])
    /\ UNCHANGED <<owner, bound, handler, probing, faults>>

\* Only its own bindings are cleared, and the owner is released: here by a
\* deferred close, at the end of the lifespan by the ordinary one.
Clear(l) ==
    /\ At(l, "clear")
    /\ bound' = [g \in Globals |-> IF bound[g] = l THEN None ELSE bound[g]]
    /\ life' = [life EXCEPT ![l].pc = "over", ![l].returned = TRUE]
    /\ owner' = Released(l)
    /\ UNCHANGED <<handler, closed, probing, faults>>

\* A second cancellation breaks through the phases: the process gives up,
\* and this owner is never released.
Cancelled(l) ==
    /\ life[l].pc \in {"drain", "stop", "background", "leave"}
    /\ Fault
    /\ Go(l, "cancelled")
    /\ UNCHANGED <<owner, bound, handler, closed, probing>>

-----------------------------------------------------------------------------
\* A new bot, or none, forgets the result and the task of the old one.
Fresh(bot) == IF probe.bot = bot /\ bot # None THEN probe
              ELSE [bot |-> bot, has |-> FALSE, of |-> None, task |-> 0]

\* _local_bot_api_functional: a fresh result is the answer, else the running
\* probe of this bot is joined, else one is started.
Ask(r) ==
    /\ ask[r].pc = "idle" /\ asks < MaxAsks
    /\ asks' = asks + 1
    /\ LET bot == bound["bot_app"]
           now == Fresh(bot)
           task == IF now.task # 0 THEN now.task ELSE asks + 1
       IN  IF bot = None \/ now.has
           THEN probe' = now /\ UNCHANGED <<flying, ask>>
           ELSE /\ probe' = [now EXCEPT !.task = task]
                /\ flying' = flying \cup {<<bot, task>>}
                /\ ask' = [ask EXCEPT ![r] = [pc |-> "wait", bot |-> bot, task |-> task]]
    /\ UNCHANGED <<owner, life, bound, handler, closed, faults>>

\* The task's end: recorded only by the task the state still names. A
\* cancelled probe records nothing.
Probed(t) ==
    /\ t \in flying
    /\ flying' = flying \ {t}
    /\ \E completed \in BOOLEAN :
           probe' = IF probe.bot = t[1] /\ probe.task = t[2]
                    THEN [probe EXCEPT !.task = 0, !.has = @ \/ completed,
                                       !.of = IF completed THEN t[1] ELSE @]
                    ELSE probe
    /\ UNCHANGED <<owner, life, bound, handler, closed, ask, faults, asks>>

Answered(r) ==
    /\ ask[r].pc = "wait" /\ <<ask[r].bot, ask[r].task>> \notin flying
    /\ ask' = [ask EXCEPT ![r].pc = "idle", ![r].task = 0, ![r].bot = None]
    /\ UNCHANGED <<owner, life, bound, handler, closed, probe, flying, faults, asks>>

\* _LOCAL_API_PROBE_FRESHNESS_SECONDS pass.
GrowsOld ==
    /\ probe.has
    /\ probe' = [probe EXCEPT !.has = FALSE]
    /\ UNCHANGED <<owner, life, bound, handler, closed, flying, ask, faults, asks>>

LifeStep(l) ==
    \/ StartPhase(l) \/ HandlerEnds(l) \/ Drain(l) \/ Background(l) \/ Leave(l)
    \/ Waited(l) \/ Close(l) \/ Clear(l)
ProbeStep == (\E t \in flying : Probed(t)) \/ (\E r \in Asks : Answered(r))
Next ==
    \/ \E l \in Lives : Enter(l) \/ StartFails(l) \/ Handle(l) \/ Shutdown(l) \/ Cancelled(l) \/ LifeStep(l)
    \/ \E r \in Asks : Ask(r)
    \/ ProbeStep \/ GrowsOld

Spec == Init /\ [][Next]_vars /\ (\A l \in Lives : WF_vars(LifeStep(l))) /\ WF_vars(ProbeStep)
-----------------------------------------------------------------------------
\* While a handler runs, everything it may reach is open and bound to its
\* own runtime, even when the shutdown has given up waiting for it.
DependenciesOutliveHandlers ==
    \A l \in handler :
        /\ \A r \in Resources : closed[<<l, r>>] = 0
        /\ \A g \in Globals : bound[g] = l

\* Two runtimes never live at the same time: whatever a life still owns,
\* it owns as the one active lifespan.
OneRuntime ==
    \A l \in Lives : (life[l].pc \notin {"off", "over"} \/ l \in handler \/ life[l].janitor) => owner = l

\* No resource is closed twice, and a life that is over left no global behind.
ClosedOnce ==
    /\ \A x \in DOMAIN closed : closed[x] <= 1
    /\ \A g \in Globals : bound[g] # None => ~At(bound[g], "over")

\* The readiness answer kept for a bot was measured with that bot, and no
\* bot is probed twice at the same time.
ProbesAreOwn ==
    /\ probe.has => probe.of = probe.bot
    /\ \A s, t \in flying : s[1] = t[1] => s = t

LifespanIsSafe == TypeOK /\ DependenciesOutliveHandlers /\ OneRuntime /\ ClosedOnce /\ ProbesAreOwn

\* A shutdown, which was not cancelled, keeps the process from starting again.
Waits(l) ==
    /\ owner = l
    /\ \/ life[l].pc \in {"drain", "stop", "background", "leave", "deferred"}
       \/ \E i \in DOMAIN Closing : At(l, Closing[i])
=============================================================================
